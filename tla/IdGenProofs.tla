----------------------------- MODULE IdGenProofs -----------------------------
(***************************************************************************)
(* Identifiers are unique for any number of servers, goroutines, segments, *)
(* crashes and calls, whatever the layout of an identifier and the         *)
(* segment sizes, as long as one server at most initialises the state      *)
(* table (SingleInitialiser).                                              *)
(***************************************************************************)
EXTENDS IdGen, TLAPS, FiniteSetTheorems

-----------------------------------------------------------------------------
(***************************************************************************)
(* The layout of identifiers.                                              *)
(***************************************************************************)
\* Multiplication by a natural number is monotone.
LEMMA ProductGrows ==
    ASSUME NEW a \in Nat, NEW b \in Nat, NEW k \in Nat, a <= b
    PROVE  a * k \in Nat /\ b * k \in Nat /\ a * k <= b * k
<1>1. PICK d \in Nat : b = a + d
  BY SMT
<1>2. a * k \in Nat /\ d * k \in Nat
  BY SMT
<1>3. b * k = a * k + d * k
  BY <1>1, SMT
<1>. QED
  BY <1>2, <1>3, SMT

\* A later millisecond has a larger first identifier (the layout of idgen.go:17).
LEMMA FirstIDGrows ==
    ASSUME NEW a \in Nat, NEW b \in Nat, a <= b
    PROVE  /\ FirstID(a) \in Nat /\ FirstID(b) \in Nat
           /\ FirstID(a) <= FirstID(b)
<1>1. NumNodeIDs \in Nat /\ NumSequences \in Nat
  BY ConstantsAssumption
<1>2. a * NumNodeIDs \in Nat /\ b * NumNodeIDs \in Nat /\ a * NumNodeIDs <= b * NumNodeIDs
  BY <1>1, ProductGrows
<1>3. /\ (a * NumNodeIDs) * NumSequences \in Nat
      /\ (b * NumNodeIDs) * NumSequences \in Nat
      /\ (a * NumNodeIDs) * NumSequences <= (b * NumNodeIDs) * NumSequences
  BY <1>1, <1>2, ProductGrows
<1>4. /\ FirstID(a) = (a * NumNodeIDs) * NumSequences
      /\ FirstID(b) = (b * NumNodeIDs) * NumSequences
  BY <1>1, <1>2, <1>3, SMT DEF FirstID, MkID
<1>. QED
  BY <1>3, <1>4

\* An identifier of a millisecond lies before the first one of the next.
LEMMA WithinMillisecond ==
    ASSUME NEW ts \in Nat, NEW node \in 0 .. NumNodeIDs - 1, NEW seq \in 0 .. NumSequences - 1
    PROVE  /\ MkID(ts, node, seq) \in Nat
           /\ FirstID(ts) <= MkID(ts, node, seq)
           /\ MkID(ts, node, seq) < FirstID(ts + 1)
<1>1. NumNodeIDs \in Nat /\ NumSequences \in Nat
  BY ConstantsAssumption
<1> DEFINE before == ts * NumNodeIDs
           here == before + node
           after == (ts + 1) * NumNodeIDs
<1>2. before \in Nat /\ here \in Nat /\ after \in Nat /\ after = before + NumNodeIDs
  BY <1>1, ProductGrows, SMT
<1>3. before <= here /\ here + 1 <= after
  BY <1>1, <1>2, SMT
<1>. HIDE DEF before, here, after
<1>4. before * NumSequences \in Nat /\ before * NumSequences <= here * NumSequences
  BY <1>1, <1>2, <1>3, ProductGrows
<1>5. /\ (here + 1) * NumSequences \in Nat
      /\ (here + 1) * NumSequences <= after * NumSequences
      /\ after * NumSequences \in Nat
  BY <1>1, <1>2, <1>3, ProductGrows
<1>6. here * NumSequences \in Nat /\ (here + 1) * NumSequences = here * NumSequences + NumSequences
  BY <1>1, <1>2, ProductGrows, SMT
<1>7. /\ FirstID(ts) = before * NumSequences
      /\ MkID(ts, node, seq) = here * NumSequences + seq
      /\ FirstID(ts + 1) = after * NumSequences
  BY <1>1, <1>2, <1>4, <1>5, SMT DEF FirstID, MkID, before, here, after
<1>. QED
  BY <1>1, <1>4, <1>5, <1>6, <1>7, SMT

\* A segment that starts at startTs: where its stock lies.
LEMMA SegmentSpan ==
    ASSUME NEW n \in Nodes, NEW startTs \in Nat
    PROVE  /\ NewSegment(n, startTs) \in Segment
           /\ FirstID(startTs) - 1 <= NewSegment(n, startTs).cur
           /\ -1 <= NewSegment(n, startTs).cur
           /\ NewSegment(n, startTs).end < FirstID(startTs + SegmentDurationMs + 1)
           /\ FirstID(startTs) <= FirstID(startTs + SegmentDurationMs + 1)
<1>1. /\ NodeID[n] \in 0 .. NumNodeIDs - 1 /\ NumNodeIDs \in Nat \ {0}
      /\ NumSequences \in Nat \ {0} /\ SegmentDurationMs \in Nat
  BY ConstantsAssumption
<1>2. /\ startTs + SegmentDurationMs \in Nat /\ startTs <= startTs + SegmentDurationMs + 1
      /\ startTs + SegmentDurationMs + 1 \in Nat
      /\ 0 \in 0 .. NumSequences - 1 /\ NumSequences - 1 \in 0 .. NumSequences - 1
  BY <1>1
<1>3. /\ MkID(startTs, NodeID[n], 0) \in Nat
      /\ FirstID(startTs) <= MkID(startTs, NodeID[n], 0)
  BY <1>1, <1>2, WithinMillisecond
<1>4. /\ MkID(startTs + SegmentDurationMs, NodeID[n], NumSequences - 1) \in Nat
      /\ MkID(startTs + SegmentDurationMs, NodeID[n], NumSequences - 1)
            < FirstID(startTs + SegmentDurationMs + 1)
  BY <1>1, <1>2, WithinMillisecond
<1>5. /\ FirstID(startTs) \in Nat
      /\ FirstID(startTs) <= FirstID(startTs + SegmentDurationMs + 1)
  BY <1>2, FirstIDGrows
<1>6. /\ NewSegment(n, startTs).cur = MkID(startTs, NodeID[n], 0) - 1
      /\ NewSegment(n, startTs).end = MkID(startTs + SegmentDurationMs, NodeID[n], NumSequences - 1)
  BY DEF NewSegment
<1>7. NewSegment(n, startTs) \in Segment
  BY <1>3, <1>4 DEF NewSegment, Segment
<1>. QED
  BY <1>3, <1>4, <1>5, <1>6, <1>7

\* Whatever the clock says, the row a fresh table gets lies above every stored
\* message.
LEMMA FreshRowAboveLegacy ==
    ASSUME NEW now \in Clock
    PROVE  /\ StartTs(now) \in Nat
           /\ \A id \in Legacy : id < FirstID(StartTs(now))
<1>0. \A id \in Legacy : id \in Nat /\ id > 0 /\ id <= MaxMessageID
  BY ConstantsAssumption
<1>1. /\ now \in Nat /\ MaxMessageID \in Nat
      /\ NumNodeIDs \in Nat \ {0} /\ NumSequences \in Nat \ {0}
      /\ Legacy # {} => MaxMessageID > 0
  <2>1. now \in Nat /\ NumNodeIDs \in Nat \ {0} /\ NumSequences \in Nat \ {0}
    BY ConstantsAssumption
  <2>2. CASE Legacy = {}
    BY <2>1, <2>2, ConstantsAssumption
  <2>3. CASE Legacy # {}
    <3>1. MaxMessageID \in Legacy
      BY <2>3, ConstantsAssumption
    <3>. QED
      BY <1>0, <2>1, <3>1
  <2>. QED
    BY <2>2, <2>3
<1> DEFINE k == NumNodeIDs * NumSequences
           existing == ExtractTimestamp(MaxMessageID) + 1
<1>2. k \in Nat \ {0}
  BY <1>1, SMT
<1>3. /\ existing \in Nat
      /\ MaxMessageID < existing * k
  <2>. HIDE DEF k
  <2>1. MaxMessageID \div k \in Nat /\ MaxMessageID < (MaxMessageID \div k + 1) * k
    BY <1>1, <1>2, SMT
  <2>. QED
    BY <2>1 DEF ExtractTimestamp, k
<1>. HIDE DEF existing
<1>4. existing * k = FirstID(existing)
  BY <1>1, <1>3, SMT DEF FirstID, MkID, k
<1>5. StartTs(now) \in Nat /\ (MaxMessageID > 0 => existing <= StartTs(now))
  BY <1>1, <1>3 DEF StartTs, existing
<1>6. ASSUME NEW id \in Legacy PROVE id < FirstID(StartTs(now))
  <2>1. id \in Nat /\ id < FirstID(existing)
    BY <1>0, <1>1, <1>3, <1>4
  <2>2. FirstID(existing) \in Nat /\ FirstID(StartTs(now)) \in Nat
        /\ FirstID(existing) <= FirstID(StartTs(now))
    BY <1>0, <1>1, <1>3, <1>5, FirstIDGrows
  <2>. QED
    BY <2>1, <2>2
<1>. QED
  BY <1>5, <1>6

-----------------------------------------------------------------------------
(***************************************************************************)
(* Type correctness.                                                       *)
(***************************************************************************)
\* The query ORDER BY id LIMIT 1 finds a row of a table that has one.
LEMMA FirstRowExists ==
    ASSUME TypeOK, OneRow, DOMAIN rows # {}
    PROVE  FirstRow \in DOMAIN rows /\ FirstRow \in Nat
<1>1. PICK r \in DOMAIN rows : \A s \in DOMAIN rows : r = s
  BY DEF OneRow
<1>2. r \in Nat /\ \A s \in DOMAIN rows : r <= s
  BY <1>1 DEF TypeOK
<1>. QED
  BY <1>1, <1>2 DEF FirstRow

\* A goroutine that carries typed values is a typed goroutine.
LEMMA CarryType ==
    ASSUME NEW label \in Labels, NEW row \in Nat, NEW ts \in Nat, NEW seg \in Segment
    PROVE  Carry(label, row, ts, seg) \in Goroutine
BY DEF Carry, Goroutine

\* The state row that a fetch writes is typed.
LEMMA PersistType ==
  ASSUME rows \in [DOMAIN rows -> Nat], NEW ts \in Nat, NEW row \in DOMAIN rows,
         rows' = [rows EXCEPT ![row] = ts + SegmentDurationMs]
  PROVE  DOMAIN rows' = DOMAIN rows /\ rows' \in [DOMAIN rows' -> Nat]
<1>1. ts + SegmentDurationMs \in Nat
  BY ConstantsAssumption DEF ConstantsAssumption
<1>. QED
  BY <1>1

\* A goroutine that carries nothing is a typed goroutine.
LEMMA AtType == ASSUME NEW label \in Labels PROVE At(label) \in Goroutine
<1>1. NoSeg \in Segment /\ 0 \in Nat
  BY DEF NoSeg, Segment
<1>. QED
  BY <1>1, CarryType DEF At

\* The types hold at the start.
LEMMA TypeInit == Init => TypeOK
<1>. SUFFICES ASSUME Init PROVE TypeOK
  OBVIOUS
<1>1. nextRow \in Nat \ {0} /\ DOMAIN rows \subseteq 1 .. nextRow - 1 /\ rows \in [DOMAIN rows -> Nat]
  BY ConstantsAssumption DEF Init
<1>2. segments \in [Nodes -> Seq(Segment)]
  BY DEF Init
<1>3. At("boot") \in Goroutine /\ At("idle") \in Goroutine
  BY AtType DEF Labels
<1>4. th \in [Nodes -> [Threads -> Goroutine]]
  BY <1>3 DEF Init
<1>5. issued \subseteq Nat /\ IsFiniteSet(issued) /\ handed \in Nat
  BY ConstantsAssumption DEF Init
<1>6. calls \in 0 .. MaxCalls /\ crashes \in 0 .. MaxCrashes
  BY ConstantsAssumption DEF Init
<1>. QED
  BY <1>1, <1>2, <1>4, <1>5, <1>6 DEF TypeOK

\* Every step of the generator keeps the types.
LEMMA TypeStep ==
    ASSUME TypeOK, OneRow, RowLock, [Next]_vars
    PROVE  TypeOK'
<1>0. /\ \A label \in Labels : At(label) \in Goroutine
      /\ {"boot", "idle", "begin", "release", "check", "try", "done"} \subseteq Labels
      /\ {"insert", "tx", "have"} \subseteq Labels
      /\ NoSeg \in Segment /\ SegmentDurationMs \in Nat
      /\ Callers \subseteq Threads /\ Main \in Threads /\ Prefetch \in Threads
      /\ MaxCalls \in Nat /\ MaxCrashes \in Nat
  BY AtType, ConstantsAssumption DEF Labels, NoSeg, Segment, Threads
<1>1. ASSUME NEW n \in Nodes, Boot(n) PROVE TypeOK'
  <2>1. CASE FoundState(n)
    BY <2>1, <1>0 DEF FoundState, Goto, history, TypeOK
  <2>2. ASSUME NEW now \in Clock, InsertState(n, now) PROVE TypeOK'
    <3>1. StartTs(now) + SegmentDurationMs \in Nat /\ nextRow \in Nat
      BY FreshRowAboveLegacy, <1>0 DEF TypeOK
    <3>2. Carry("insert", nextRow, StartTs(now) + SegmentDurationMs, NoSeg) \in Goroutine
      BY <3>1, <1>0, CarryType
    <3>. QED
      BY <2>2, <1>0, <3>2 DEF InsertState, history, TypeOK
  <2>3. CASE CommitInsert(n)
    <3>1. th[n][Main].row \in 1 .. nextRow - 1 /\ th[n][Main].ts \in Nat
      BY <2>3, <1>0 DEF CommitInsert, OneRow, TypeOK, Goroutine
    <3>2. th' \in [Nodes -> [Threads -> Goroutine]]
      BY <2>3, <1>0 DEF CommitInsert, Goto, TypeOK
    <3>3. /\ DOMAIN rows' = DOMAIN rows \cup {th[n][Main].row}
          /\ rows' \in [DOMAIN rows' -> Nat]
      BY <2>3, <3>1 DEF CommitInsert, TypeOK
    <3>. QED
      BY <2>3, <3>1, <3>2, <3>3 DEF CommitInsert, history, TypeOK
  <2>. QED
    BY <1>1, <2>1, <2>2, <2>3 DEF Boot
<1>2. ASSUME NEW n \in Nodes, NEW c \in Callers, Call(n, c) PROVE TypeOK'
  BY <1>0, <1>2 DEF Call, Goto, history, TypeOK
<1>3. ASSUME NEW n \in Nodes, NEW c \in Callers, Generate(n, c) PROVE TypeOK'
  <2>0. c \in Threads /\ segments[n] \in Seq(Segment)
    BY <1>0 DEF TypeOK
  <2>1. CASE NoSegment(n, c)
    BY <1>0, <2>0, <2>1 DEF NoSegment, Goto, history, TypeOK
  <2>2. CASE PopExhausted(n, c)
    <3>1. Tail(segments[n]) \in Seq(Segment)
      BY <2>0, <2>2 DEF PopExhausted
    <3>. QED
      BY <1>0, <2>0, <2>2, <3>1 DEF PopExhausted, Goto, history, TypeOK
  <2>3. CASE CheckEmpty(n, c)
    BY <1>0, <2>0, <2>3 DEF CheckEmpty, Goto, history, TypeOK
  <2>4. CASE HandOut(n, c)
    <3> DEFINE seg == Head(segments[n])
               id == seg.cur + 1
    <3>1. /\ 1 \in 1 .. Len(segments[n]) /\ seg = segments[n][1] /\ seg \in Segment
      BY <2>0, <2>4 DEF HandOut
    <3>2. id \in Nat /\ seg.end \in Nat
      BY <3>1 DEF Segment
    <3>3. [cur |-> id, end |-> seg.end] \in Segment
      BY <3>2 DEF Segment
    <3>. HIDE DEF seg, id
    <3>4. [segments[n] EXCEPT ![1] = [cur |-> id, end |-> seg.end]] \in Seq(Segment)
      BY <2>0, <3>1, <3>3
    <3>5. segments' \in [Nodes -> Seq(Segment)]
      BY <2>4, <3>4 DEF HandOut, TypeOK, seg, id
    <3>6. issued' \subseteq Nat /\ IsFiniteSet(issued') /\ handed' \in Nat
      <4>1. issued' = issued \cup {id} /\ handed' = handed + 1
        BY <2>4 DEF HandOut, seg, id
      <4>2. IsFiniteSet(issued \cup {id})
        BY FS_AddElement DEF TypeOK
      <4>. QED
        BY <3>2, <4>1, <4>2 DEF TypeOK
    <3>8. th' \in [Nodes -> [Threads -> Goroutine]]
      BY <1>0, <2>0, <2>4 DEF HandOut, TypeOK
    <3>. QED
      BY <2>4, <3>5, <3>6, <3>8 DEF HandOut, TypeOK
  <2>. QED
    BY <1>3, <2>1, <2>2, <2>3, <2>4 DEF Generate
<1>4. ASSUME NEW n \in Nodes, NEW t \in Threads, Fetch(n, t) PROVE TypeOK'
  <2>1. CASE SelectForUpdate(n, t)
    <3>1. FirstRow \in DOMAIN rows /\ FirstRow \in Nat
      <4>1. DOMAIN rows # {}
        BY <2>1 DEF SelectForUpdate, OneRow
      <4>. QED
        BY <4>1, FirstRowExists
    <3>2. rows[FirstRow] + 1 \in Nat
      BY <3>1 DEF TypeOK
    <3>3. Carry("tx", FirstRow, rows[FirstRow] + 1, NoSeg) \in Goroutine
      BY <1>0, <3>1, <3>2, CarryType
    <3>. QED
      BY <2>1, <3>3 DEF SelectForUpdate, history, TypeOK
  <2>2. CASE CommitFetch(n, t)
    <3>1. th[n][t].row \in DOMAIN rows /\ th[n][t].ts \in Nat
      BY <2>2 DEF CommitFetch, RowLock, InTx, TypeOK, Goroutine
    <3>2. Carry("have", 0, 0, NewSegment(n, th[n][t].ts)) \in Goroutine
      BY <1>0, <3>1, SegmentSpan, CarryType
    <3>3. DOMAIN rows' = DOMAIN rows /\ rows' \in [DOMAIN rows' -> Nat]
      <4>1. rows \in [DOMAIN rows -> Nat]
        BY DEF TypeOK
      <4>2. rows' = [rows EXCEPT ![th[n][t].row] = th[n][t].ts + SegmentDurationMs]
        BY <2>2 DEF CommitFetch, Persist
      <4>. QED
        BY <3>1, <4>1, <4>2, PersistType
    <3>. QED
      BY <2>2, <3>2, <3>3 DEF CommitFetch, history, TypeOK
  <2>3. CASE FailFetch(n, t)
    <3>1. InTx(n, t) => th[n][t].row \in DOMAIN rows /\ th[n][t].ts \in Nat
      BY DEF RowLock, TypeOK, Goroutine
    <3>2. DOMAIN rows' = DOMAIN rows /\ rows' \in [DOMAIN rows' -> Nat]
      <4>1. CASE InTx(n, t) /\ Persist(th[n][t])
        <5>1. rows \in [DOMAIN rows -> Nat]
          BY DEF TypeOK
        <5>2. rows' = [rows EXCEPT ![th[n][t].row] = th[n][t].ts + SegmentDurationMs]
          BY <4>1 DEF Persist
        <5>. QED
          BY <3>1, <4>1, <5>1, <5>2, PersistType
      <4>2. CASE UNCHANGED rows
        BY <4>2 DEF TypeOK
      <4>. QED
        BY <2>3, <4>1, <4>2 DEF FailFetch, InTx
    <3>. QED
      BY <2>3, <1>0, <3>2 DEF FailFetch, Goto, history, TypeOK
  <2>4. CASE AppendSync(n, t)
    <3>1. th[n][t].seg \in Segment
      BY DEF TypeOK, Goroutine
    <3>2. segments' \in [Nodes -> Seq(Segment)]
      BY <2>4, <3>1 DEF AppendSync, TypeOK
    <3>. QED
      BY <1>0, <2>4, <3>2 DEF AppendSync, Goto, history, TypeOK
  <2>. QED
    BY <1>4, <2>1, <2>2, <2>3, <2>4 DEF Fetch
<1>5. ASSUME NEW n \in Nodes, AppendPrefetch(n) PROVE TypeOK'
  <2>1. th[n][Prefetch].seg \in Segment
    BY <1>0 DEF TypeOK, Goroutine
  <2>2. segments' \in [Nodes -> Seq(Segment)]
    BY <1>5, <2>1 DEF AppendPrefetch, TypeOK
  <2>. QED
    BY <1>0, <1>5, <2>2 DEF AppendPrefetch, Goto, history, TypeOK
<1>6. ASSUME NEW n \in Nodes, ReleaseSlot(n) PROVE TypeOK'
  BY <1>0, <1>6 DEF ReleaseSlot, Goto, history, TypeOK
<1>7. ASSUME NEW n \in Nodes, Crash(n) PROVE TypeOK'
  BY <1>0, <1>7 DEF Crash, history, TypeOK
<1>8. CASE UNCHANGED vars
  BY <1>8 DEF vars, history, TypeOK
<1>. QED
  BY <1>1, <1>2, <1>3, <1>4, <1>5, <1>6, <1>7, <1>8 DEF Next

-----------------------------------------------------------------------------
(***************************************************************************)
(* One row, and one transaction on it.                                     *)
(***************************************************************************)
\* Most steps move one goroutine to a place where it carries nothing.
Blank == {"idle", "boot", "begin", "release", "done", "try", "check"}

\* Goto moves one goroutine of one server, and no other.
LEMMA GotoMoves ==
    ASSUME TypeOK, NEW n \in Nodes, NEW t \in Threads, NEW label, Goto(n, t, label)
    PROVE  \A m \in Nodes, u \in Threads :
              IF m = n /\ u = t THEN th'[m][u].pc = label ELSE th'[m][u] = th[m][u]
BY DEF Goto, At, Carry, TypeOK

\* A goroutine that moves to a place where it holds nothing keeps the
\* one-row and row-lock facts, when the tables stay as they are.
LEMMA BlankMoves ==
    ASSUME TypeOK, NEW n \in Nodes,
           \/ FoundState(n) \/ CommitInsert(n)
           \/ AppendPrefetch(n) \/ ReleaseSlot(n) \/ Crash(n)
           \/ \E c \in Callers : Call(n, c) \/ Generate(n, c)
           \/ \E t \in Threads : FailFetch(n, t) \/ AppendSync(n, t)
    PROVE  \A m \in Nodes, u \in Threads :
              \/ th'[m][u] = th[m][u]
              \/ m = n /\ th'[m][u].pc \in Blank
<1>0. Callers \subseteq Threads /\ Main \in Threads /\ Prefetch \in Threads
  BY DEF Threads
<1>1. ASSUME NEW t \in Threads, NEW label \in Blank, Goto(n, t, label)
      PROVE  \A m \in Nodes, u \in Threads :
                \/ th'[m][u] = th[m][u]
                \/ m = n /\ th'[m][u].pc \in Blank
  BY <1>1, GotoMoves
<1>2. CASE FoundState(n) \/ CommitInsert(n)
  BY <1>0, <1>1, <1>2 DEF FoundState, CommitInsert, Blank
<1>3. CASE AppendPrefetch(n) \/ ReleaseSlot(n)
  BY <1>0, <1>1, <1>3 DEF AppendPrefetch, ReleaseSlot, Blank
<1>4. CASE Crash(n)
  BY <1>4 DEF Crash, At, Carry, TypeOK, Blank
<1>5. ASSUME NEW c \in Callers, Call(n, c) \/ NoSegment(n, c) \/ PopExhausted(n, c) \/ CheckEmpty(n, c)
      PROVE  \E label \in Blank : Goto(n, c, label)
  BY <1>5 DEF Call, NoSegment, PopExhausted, CheckEmpty, Blank
<1>6. ASSUME NEW c \in Callers, HandOut(n, c)
      PROVE  \A m \in Nodes, u \in Threads :
                \/ th'[m][u] = th[m][u]
                \/ m = n /\ th'[m][u].pc \in Blank
  <2>1. CASE th' = [th EXCEPT ![n][c] = At("idle"), ![n][Prefetch] = At("begin")]
    BY <1>0, <2>1 DEF At, Carry, TypeOK, Blank
  <2>2. CASE th' = [th EXCEPT ![n][c] = At("idle")]
    BY <1>0, <2>2 DEF At, Carry, TypeOK, Blank
  <2>. QED
    BY <1>6, <2>1, <2>2 DEF HandOut
<1>7. ASSUME NEW t \in Threads, FailFetch(n, t) \/ AppendSync(n, t)
      PROVE  \E label \in Blank : Goto(n, t, label)
  BY <1>7 DEF FailFetch, AppendSync, Blank
<1>8. ASSUME NEW c \in Callers, Call(n, c) \/ Generate(n, c)
      PROVE  \A m \in Nodes, u \in Threads :
                \/ th'[m][u] = th[m][u]
                \/ m = n /\ th'[m][u].pc \in Blank
  BY <1>0, <1>1, <1>5, <1>6, <1>8 DEF Generate
<1>9. ASSUME NEW t \in Threads, FailFetch(n, t) \/ AppendSync(n, t)
      PROVE  \A m \in Nodes, u \in Threads :
                \/ th'[m][u] = th[m][u]
                \/ m = n /\ th'[m][u].pc \in Blank
  BY <1>1, <1>7, <1>9
<1>. QED
  BY <1>2, <1>3, <1>4, <1>8, <1>9

\* With one initialiser, no step of idgen.go makes a second row.
LEMMA OneRowStep ==
    ASSUME TypeOK, OneRow, RowLock, [Next]_vars
    PROVE  OneRow'
<1>0. /\ Callers \subseteq Threads /\ Main \in Threads /\ Prefetch \in Threads
      /\ Main # Prefetch /\ Main \notin Callers
  BY ConstantsAssumption DEF Threads
<1>1. ASSUME NEW n \in Nodes, Boot(n) PROVE OneRow'
  <2>1. CASE FoundState(n)
    BY <2>1, <1>0 DEF FoundState, Goto, At, Carry, history, TypeOK, OneRow
  <2>2. ASSUME NEW now \in Clock, InsertState(n, now) PROVE OneRow'
    <3>1. th' = [th EXCEPT ![n][Main] =
                    Carry("insert", nextRow, StartTs(now) + SegmentDurationMs, NoSeg)]
          /\ nextRow' = nextRow + 1 /\ UNCHANGED <<rows, segments, issued>>
          /\ DOMAIN rows = {} /\ nextRow \in Nat \ {0} /\ n \in Initialisers
      BY <2>2 DEF InsertState, history, TypeOK
    <3>2. \A id \in issued : id < FirstID(StartTs(now) + SegmentDurationMs + 1)
      <4>1. /\ issued = Legacy /\ SegmentDurationMs \in Nat
            /\ Legacy \subseteq Nat
        BY <3>1, ConstantsAssumption DEF OneRow, TypeOK
      <4>2. StartTs(now) \in Nat /\ \A id \in Legacy : id < FirstID(StartTs(now))
        BY FreshRowAboveLegacy
      <4>3. /\ FirstID(StartTs(now)) \in Nat
            /\ FirstID(StartTs(now) + SegmentDurationMs + 1) \in Nat
            /\ FirstID(StartTs(now)) <= FirstID(StartTs(now) + SegmentDurationMs + 1)
        BY <4>1, <4>2, FirstIDGrows
      <4>. QED
        BY <4>1, <4>2, <4>3
    <3>3. \A m \in Nodes, t \in Threads :
              \/ m = n /\ t = Main /\ th'[m][t].pc = "insert" /\ th'[m][t].row = nextRow
                 /\ th'[m][t].ts = StartTs(now) + SegmentDurationMs
              \/ th'[m][t] = th[m][t]
      BY <3>1 DEF TypeOK, Carry
    <3>. QED
      BY <3>1, <3>2, <3>3 DEF OneRow
  <2>3. CASE CommitInsert(n)
    <3>1. /\ DOMAIN rows = {} /\ DOMAIN rows' = {th[n][Main].row}
          /\ UNCHANGED <<nextRow, issued>>
          /\ n \in Initialisers /\ \A m \in Initialisers : m = n
      BY <2>3, <1>0 DEF CommitInsert, OneRow, history
    <3>2. \A m \in Nodes, t \in Threads : th'[m][t].pc # "insert"
      BY <2>3, <1>0, <3>1 DEF CommitInsert, Goto, At, Carry, OneRow, TypeOK
    <3>. QED
      BY <3>1, <3>2 DEF OneRow
  <2>. QED
    BY <1>1, <2>1, <2>2, <2>3 DEF Boot
<1>2. ASSUME NEW n \in Nodes, NEW c \in Callers, Call(n, c) PROVE OneRow'
  <2>1. DOMAIN rows # {}
    BY <1>2, <1>0 DEF Call, Ready, OneRow
  <2>2. \A m \in Nodes, t \in Threads : th'[m][t].pc = "insert" => th'[m][t] = th[m][t]
    BY <1>0, <1>2 DEF Call, Goto, At, Carry, TypeOK
  <2>. QED
    BY <1>2, <2>1, <2>2 DEF Call, history, OneRow
<1>3. ASSUME NEW n \in Nodes, NEW c \in Callers, Generate(n, c) PROVE OneRow'
  <2>0. th[n][c].pc \in {"try", "check"}
    BY <1>3 DEF Generate, NoSegment, PopExhausted, HandOut, CheckEmpty
  <2>1. DOMAIN rows # {}
    BY <2>0, <1>0 DEF OneRow
  <2>2. \A m \in Nodes, t \in Threads : th'[m][t].pc = "insert" => th'[m][t] = th[m][t]
    BY <1>3, BlankMoves DEF Blank
  <2>3. UNCHANGED <<rows, nextRow>>
    BY <1>3 DEF Generate, NoSegment, PopExhausted, HandOut, CheckEmpty
  <2>4. \A m \in Nodes, t \in Threads : th'[m][t].pc # "insert"
    BY <2>1, <2>2 DEF OneRow
  <2>. QED
    BY <2>1, <2>3, <2>4 DEF OneRow
<1>4. ASSUME NEW n \in Nodes, NEW t \in Threads, Fetch(n, t) PROVE OneRow'
  <2>0. th[n][t].pc \in {"begin", "tx", "have"}
    BY <1>4 DEF Fetch, SelectForUpdate, CommitFetch, FailFetch, AppendSync
  <2>1. DOMAIN rows # {}
    BY <2>0, <1>0 DEF OneRow
  <2>2. \A m \in Nodes, u \in Threads : th'[m][u].pc = "insert" => th'[m][u] = th[m][u]
    <3>1. CASE SelectForUpdate(n, t)
      BY <3>1 DEF SelectForUpdate, Carry, TypeOK
    <3>2. CASE CommitFetch(n, t)
      BY <3>2 DEF CommitFetch, Carry, TypeOK
    <3>3. CASE FailFetch(n, t) \/ AppendSync(n, t)
      BY <3>3, BlankMoves DEF Blank
    <3>. QED
      BY <1>4, <3>1, <3>2, <3>3 DEF Fetch
  <2>3. nextRow' = nextRow /\ DOMAIN rows' = DOMAIN rows
    BY <1>4 DEF Fetch, SelectForUpdate, CommitFetch, FailFetch, AppendSync, Persist, TypeOK
  <2>4. \A m \in Nodes, u \in Threads : th'[m][u].pc # "insert"
    BY <2>1, <2>2 DEF OneRow
  <2>. QED
    BY <2>1, <2>3, <2>4 DEF OneRow
<1>5. ASSUME NEW n \in Nodes, AppendPrefetch(n) \/ ReleaseSlot(n) PROVE OneRow'
  <2>1. DOMAIN rows # {}
    BY <1>5, <1>0 DEF AppendPrefetch, ReleaseSlot, OneRow
  <2>2. \A m \in Nodes, u \in Threads : th'[m][u].pc = "insert" => th'[m][u] = th[m][u]
    BY <1>5, BlankMoves DEF Blank
  <2>3. nextRow' = nextRow /\ DOMAIN rows' = DOMAIN rows
    BY <1>5 DEF AppendPrefetch, ReleaseSlot
  <2>4. \A m \in Nodes, u \in Threads : th'[m][u].pc # "insert"
    BY <2>1, <2>2 DEF OneRow
  <2>. QED
    BY <2>1, <2>3, <2>4 DEF OneRow
<1>6. ASSUME NEW n \in Nodes, Crash(n) PROVE OneRow'
  <2>1. UNCHANGED <<rows, nextRow, issued>> /\ segments' = [segments EXCEPT ![n] = <<>>]
    BY <1>6 DEF Crash, history
  <2>2. \A m \in Nodes, t \in Threads :
            \/ th'[m][t] = th[m][t]
            \/ th'[m][t].pc = IF t = Main THEN "boot" ELSE "idle"
    BY <1>6 DEF Crash, At, Carry, TypeOK
  <2>3. \A m \in Nodes : segments'[m] = <<>> \/ segments'[m] = segments[m]
    BY <2>1 DEF TypeOK
  <2>4. ASSUME NEW m \in Nodes, NEW t \in Threads, th'[m][t].pc = "insert"
        PROVE  th'[m][t] = th[m][t]
    BY <2>2, <2>4
  <2>5. ASSUME DOMAIN rows = {}
        PROVE  /\ \A m \in Nodes : segments'[m] = <<>>
               /\ \A m \in Nodes, t \in Threads :
                     th'[m][t].pc \in IF t = Main THEN {"boot", "insert"} ELSE {"idle"}
    BY <2>2, <2>3, <2>5 DEF OneRow
  <2>. QED
    BY <2>1, <2>4, <2>5 DEF OneRow
<1>7. CASE UNCHANGED vars
  BY <1>7 DEF vars, history, OneRow
<1>. QED
  BY <1>1, <1>2, <1>3, <1>4, <1>5, <1>6, <1>7 DEF Next

\* Only SELECT ... FOR UPDATE enters a transaction, and not while the row is
\* locked; only the transaction's own COMMIT moves last_ts.
LEMMA RowLockStep ==
    ASSUME TypeOK, OneRow, RowLock, [Next]_vars
    PROVE  RowLock'
<1>0. /\ Callers \subseteq Threads /\ Main \in Threads /\ Prefetch \in Threads
  BY DEF Threads
<1>1. ASSUME UNCHANGED rows, \A m \in Nodes, u \in Threads : InTx(m, u)' => th'[m][u] = th[m][u]
      PROVE  RowLock'
  BY <1>1 DEF RowLock, InTx
<1>2. ASSUME NEW n \in Nodes, Boot(n) PROVE RowLock'
  <2>1. \A m \in Nodes, u \in Threads : InTx(m, u)' => th'[m][u] = th[m][u]
    <3>1. CASE FoundState(n) \/ CommitInsert(n)
      BY <3>1, BlankMoves DEF Blank, InTx
    <3>2. ASSUME NEW now \in Clock, InsertState(n, now)
          PROVE  \A m \in Nodes, u \in Threads : InTx(m, u)' => th'[m][u] = th[m][u]
      BY <1>0, <3>2 DEF InsertState, Carry, InTx, TypeOK
    <3>. QED
      BY <1>2, <3>1, <3>2 DEF Boot
  <2>2. CASE UNCHANGED rows
    BY <2>1, <2>2, <1>1
  <2>3. CASE CommitInsert(n)
    <3>1. DOMAIN rows = {}
      BY <2>3, <1>0 DEF CommitInsert, OneRow
    <3>. QED
      BY <3>1, <2>1 DEF RowLock, InTx
  <2>. QED
    BY <1>2, <2>2, <2>3 DEF Boot, FoundState, InsertState
<1>3. ASSUME NEW n \in Nodes, NEW c \in Callers, Call(n, c) \/ Generate(n, c) PROVE RowLock'
  <2>1. \A m \in Nodes, u \in Threads : InTx(m, u)' => th'[m][u] = th[m][u]
    BY <1>3, BlankMoves DEF Blank, InTx
  <2>2. UNCHANGED rows
    BY <1>3 DEF Call, Generate, NoSegment, PopExhausted, HandOut, CheckEmpty
  <2>. QED
    BY <2>1, <2>2, <1>1
<1>4. ASSUME NEW n \in Nodes, NEW t \in Threads, Fetch(n, t) PROVE RowLock'
  <2>1. CASE SelectForUpdate(n, t)
    <3>1. FirstRow \in DOMAIN rows
      <4>1. DOMAIN rows # {}
        BY <2>1 DEF SelectForUpdate, OneRow
      <4>. QED
        BY <4>1, FirstRowExists
    <3>2. \A m \in Nodes, u \in Threads : ~ InTx(m, u)
      BY <2>1, <3>1 DEF SelectForUpdate, Locked, RowLock, OneRow, InTx
    <3>3. /\ rows' = rows
          /\ \A m \in Nodes, u \in Threads :
                \/ th'[m][u] = th[m][u]
                \/ m = n /\ u = t /\ th'[m][u].row = FirstRow
                   /\ th'[m][u].ts = rows[FirstRow] + 1
      BY <2>1 DEF SelectForUpdate, Carry, TypeOK
    <3>. QED
      BY <3>1, <3>2, <3>3 DEF RowLock, InTx
  <2>2. CASE CommitFetch(n, t) \/ (FailFetch(n, t) /\ InTx(n, t))
    <3>1. \A m \in Nodes, u \in Threads : ~ InTx(m, u)'
      <4>1. /\ th'[n][t].pc # "tx" /\ InTx(n, t)
            /\ \A m \in Nodes, u \in Threads : <<m, u>> # <<n, t>> => th'[m][u] = th[m][u]
        BY <2>2 DEF CommitFetch, FailFetch, Goto, At, Carry, InTx, TypeOK
      <4>. QED
        BY <4>1 DEF RowLock, InTx
    <3>. QED
      BY <3>1 DEF RowLock
  <2>3. CASE AppendSync(n, t)
    <3>1. \A m \in Nodes, u \in Threads : InTx(m, u)' => th'[m][u] = th[m][u]
      BY <2>3, BlankMoves DEF Blank, InTx
    <3>. QED
      BY <2>3, <3>1, <1>1 DEF AppendSync
  <2>4. CASE FailFetch(n, t) /\ ~ InTx(n, t)
    <3>1. \A m \in Nodes, u \in Threads : InTx(m, u)' => th'[m][u] = th[m][u]
      BY <2>4, BlankMoves DEF Blank, InTx
    <3>2. UNCHANGED rows
      BY <2>4 DEF FailFetch, InTx
    <3>. QED
      BY <3>1, <3>2, <1>1
  <2>. QED
    BY <1>4, <2>1, <2>2, <2>3, <2>4 DEF Fetch
<1>5. ASSUME NEW n \in Nodes, AppendPrefetch(n) \/ ReleaseSlot(n) \/ Crash(n) PROVE RowLock'
  <2>1. \A m \in Nodes, u \in Threads : InTx(m, u)' => th'[m][u] = th[m][u]
    BY <1>5, BlankMoves DEF Blank, InTx
  <2>2. UNCHANGED rows
    BY <1>5 DEF AppendPrefetch, ReleaseSlot, Crash
  <2>. QED
    BY <2>1, <2>2, <1>1
<1>6. CASE UNCHANGED vars
  BY <1>6, <1>1 DEF vars
<1>. QED
  BY <1>2, <1>3, <1>4, <1>5, <1>6 DEF Next

-----------------------------------------------------------------------------
(***************************************************************************)
(* The stocks: below last_ts, apart, and clear of what was handed out.     *)
(***************************************************************************)
Stocks == BelowState /\ StocksApart /\ StocksClear /\ Unique

\* A segment of a list is a segment.
LEMMA SegmentsTyped ==
    ASSUME TypeOK, NEW n \in Nodes, NEW i \in Places(n)
    PROVE  /\ segments[n][i] \in Segment
           /\ segments[n][i].cur \in Int /\ segments[n][i].end \in Nat
<1>1. segments[n] \in Seq(Segment) /\ i \in 1 .. Len(segments[n])
  BY DEF TypeOK, Places
<1>2. segments[n][i] \in Segment
  BY <1>1
<1>. QED
  BY <1>2 DEF Segment

\* A segment that a goroutine carries is a segment.
LEMMA CarriedTyped ==
    ASSUME TypeOK, NEW n \in Nodes, NEW t \in Threads
    PROVE  /\ th[n][t].seg \in Segment
           /\ th[n][t].seg.cur \in Int /\ th[n][t].seg.end \in Nat
<1>1. th[n][t].seg \in Segment
  BY DEF TypeOK, Goroutine
<1>. QED
  BY <1>1 DEF Segment

\* A step that leaves the lists alone, reserves nothing and hands out nothing.
LEMMA StocksKept ==
    ASSUME TypeOK, OneRow, Stocks, TypeOK',
           UNCHANGED <<segments, issued, handed>>,
           \A m \in Nodes, u \in Threads : Has(m, u)' => th'[m][u] = th[m][u],
           DOMAIN rows' = DOMAIN rows,
           \A r \in DOMAIN rows : rows[r] <= rows'[r]
    PROVE  Stocks'
<1>1. BelowState'
  <2> SUFFICES ASSUME NEW r \in DOMAIN rows PROVE
          /\ \A id \in issued : id < FirstID(rows'[r] + 1)
          /\ \A n \in Nodes : \A i \in Places(n) : segments[n][i].end < FirstID(rows'[r] + 1)
          /\ \A n \in Nodes, t \in Threads :
                Has(n, t) => th[n][t].seg.end < FirstID(rows'[r] + 1)
    BY DEF BelowState, Has, Places
  <2>1. rows[r] + 1 \in Nat /\ rows'[r] + 1 \in Nat /\ rows[r] + 1 <= rows'[r] + 1
    <3>1. rows[r] \in Nat
      BY DEF TypeOK
    <3>2. rows'[r] \in Nat
      BY DEF TypeOK
    <3>. QED
      BY <3>1, <3>2
  <2>2. /\ FirstID(rows[r] + 1) \in Nat /\ FirstID(rows'[r] + 1) \in Nat
        /\ FirstID(rows[r] + 1) <= FirstID(rows'[r] + 1)
    BY <2>1, FirstIDGrows
  <2>3. \A id \in issued : id \in Nat
    BY DEF TypeOK
  <2>4. \A n \in Nodes : \A i \in Places(n) : segments[n][i].end \in Nat
    BY SegmentsTyped
  <2>5. \A n \in Nodes, t \in Threads : th[n][t].seg.end \in Nat
    BY DEF TypeOK, Goroutine, Segment
  <2>. QED
    BY <2>2, <2>3, <2>4, <2>5 DEF Stocks, BelowState
<1>2. StocksApart'
  BY DEF Stocks, StocksApart, Has, Places, Apart
<1>3. StocksClear'
  BY DEF Stocks, StocksClear, Has, Places, Clear
<1>4. Unique'
  BY DEF Stocks, Unique
<1>. QED
  BY <1>1, <1>2, <1>3, <1>4 DEF Stocks

\* The first row: until it is there, there is no stock at all.
LEMMA StocksFirstRow ==
    ASSUME TypeOK, OneRow, Stocks, NEW n \in Nodes, CommitInsert(n)
    PROVE  Stocks'
<1>0. Main \in Threads
  BY DEF Threads
<1>1. /\ DOMAIN rows = {} /\ DOMAIN rows' = {th[n][Main].row}
      /\ rows'[th[n][Main].row] = th[n][Main].ts
      /\ UNCHANGED <<segments, issued, handed>>
      /\ \A id \in issued : id < FirstID(th[n][Main].ts + 1)
  BY <1>0 DEF CommitInsert, OneRow, history
<1>2. /\ \A m \in Nodes : segments[m] = <<>>
      /\ \A m \in Nodes : segments'[m] = <<>>
  BY <1>1 DEF OneRow
<1>3. \A m \in Nodes, u \in Threads : ~ Has(m, u)'
  BY <1>1, BlankMoves DEF Has, Blank, OneRow
<1>. QED
  BY <1>1, <1>2, <1>3 DEF Stocks, BelowState, StocksApart, StocksClear, Unique, Places

\* The lists lose their head, or everything.
LEMMA StocksShrink ==
    ASSUME TypeOK, Stocks, NEW n \in Nodes,
           UNCHANGED <<rows, issued, handed>>,
           \A m \in Nodes, u \in Threads : Has(m, u)' => Has(m, u) /\ th'[m][u] = th[m][u],
           \/ segments[n] # <<>> /\ segments' = [segments EXCEPT ![n] = Tail(@)]
           \/ segments' = [segments EXCEPT ![n] = <<>>]
    PROVE  Stocks'
<1>1. PICK shift \in [Nodes -> {0, 1}] :
          \A m \in Nodes : \A i \in Places(m)' :
             i + shift[m] \in Places(m) /\ segments'[m][i] = segments[m][i + shift[m]]
  <2>0. segments \in [Nodes -> Seq(Segment)]
    BY DEF TypeOK
  <2>1. CASE segments[n] # <<>> /\ segments' = [segments EXCEPT ![n] = Tail(@)]
    <3> DEFINE shift == [m \in Nodes |-> IF m = n THEN 1 ELSE 0]
    <3>1. ASSUME NEW m \in Nodes, NEW i \in Places(m)'
          PROVE  i + shift[m] \in Places(m) /\ segments'[m][i] = segments[m][i + shift[m]]
      <4>1. CASE m = n
        <5>1. segments'[n] = Tail(segments[n]) /\ Len(segments[n]) \in Nat \ {0}
          BY <2>0, <2>1
        <5>2. Len(segments'[n]) = Len(segments[n]) - 1
          BY <2>0, <2>1, <5>1
        <5>3. i + 1 \in 1 .. Len(segments[n]) /\ i \in 1 .. Len(segments[n]) - 1
          BY <3>1, <4>1, <5>1, <5>2 DEF Places
        <5>4. segments'[n][i] = segments[n][i + 1]
          BY <2>0, <2>1, <5>1, <5>3
        <5>. QED
          BY <4>1, <5>3, <5>4 DEF Places
      <4>2. CASE m # n
        BY <2>0, <2>1, <4>2 DEF Places
      <4>. QED
        BY <4>1, <4>2
    <3>. QED
      BY <3>1
  <2>2. CASE segments' = [segments EXCEPT ![n] = <<>>]
    <3> DEFINE shift == [m \in Nodes |-> 0]
    <3>1. ASSUME NEW m \in Nodes, NEW i \in Places(m)'
          PROVE  i + shift[m] \in Places(m) /\ segments'[m][i] = segments[m][i + shift[m]]
      BY <2>0, <2>2 DEF Places
    <3>. QED
      BY <3>1
  <2>. QED
    BY <2>1, <2>2
<1>2. BelowState'
  BY <1>1 DEF Stocks, BelowState, Has
<1>3. StocksApart'
  <2>1. ASSUME NEW m \in Nodes, NEW k \in Nodes, NEW i \in Places(m)', NEW j \in Places(k)',
               <<m, i>> # <<k, j>>
        PROVE  Apart(segments'[m][i], segments'[k][j])
    <3>1. /\ i + shift[m] \in Places(m) /\ segments'[m][i] = segments[m][i + shift[m]]
          /\ j + shift[k] \in Places(k) /\ segments'[k][j] = segments[k][j + shift[k]]
          /\ i \in Int /\ j \in Int /\ shift[m] \in Int /\ shift[k] \in Int
      BY <1>1 DEF Places
    <3>2. <<m, i + shift[m]>> # <<k, j + shift[k]>>
      <4>1. CASE m = k
        BY <2>1, <3>1, <4>1
      <4>2. CASE m # k
        BY <4>2
      <4>. QED
        BY <4>1, <4>2
    <3>. QED
      BY <3>1, <3>2 DEF Stocks, StocksApart
  <2>2. ASSUME NEW m \in Nodes, NEW k \in Nodes, NEW i \in Places(m)', NEW t \in Threads,
               Has(k, t)'
        PROVE  Apart(segments'[m][i], th'[k][t].seg)
    BY <1>1, <2>2 DEF Stocks, StocksApart
  <2>3. ASSUME NEW m \in Nodes, NEW k \in Nodes, NEW t \in Threads, NEW u \in Threads,
               Has(m, t)', Has(k, u)', <<m, t>> # <<k, u>>
        PROVE  Apart(th'[m][t].seg, th'[k][u].seg)
    BY <2>3 DEF Stocks, StocksApart
  <2>. QED
    BY <2>1, <2>2, <2>3 DEF StocksApart, Apart
<1>4. StocksClear'
  BY <1>1 DEF Stocks, StocksClear, Clear
<1>5. Unique'
  BY DEF Stocks, Unique
<1>. QED
  BY <1>2, <1>3, <1>4, <1>5 DEF Stocks

\* Handing out the next identifier of the first segment's stock.
LEMMA StocksHandOut ==
    ASSUME TypeOK, OneRow, Stocks, NEW n \in Nodes, NEW c \in Callers, HandOut(n, c)
    PROVE  /\ Stocks'
           /\ \E id \in issued' \ issued : issued' = issued \cup {id}
           /\ handed' = handed + 1
<1> DEFINE seg == segments[n][1]
           id == seg.cur + 1
<1>0. /\ c \in Threads /\ Prefetch \in Threads /\ segments \in [Nodes -> Seq(Segment)]
  BY DEF Threads, TypeOK
<1>1. /\ 1 \in Places(n) /\ Head(segments[n]) = seg
      /\ id <= seg.end /\ id \in Int /\ seg.cur \in Int /\ seg.end \in Nat
  <2>1. segments[n] # <<>> /\ segments[n] \in Seq(Segment)
    BY <1>0 DEF HandOut
  <2>2. 1 \in Places(n) /\ Head(segments[n]) = seg
    BY <2>1 DEF Places
  <2>3. seg.cur \in Int /\ seg.end \in Nat
    BY <2>2, SegmentsTyped
  <2>. QED
    BY <2>2, <2>3 DEF HandOut
<1>2. /\ issued' = issued \cup {id} /\ handed' = handed + 1 /\ rows' = rows
      /\ segments' = [segments EXCEPT ![n][1] = [cur |-> id, end |-> seg.end]]
  BY <1>1 DEF HandOut
<1>3. \A m \in Nodes : Places(m)' = Places(m)
  BY <1>0, <1>1, <1>2 DEF Places
<1>4. \A m \in Nodes : \A i \in Places(m) :
          IF m = n /\ i = 1
          THEN segments'[m][i].cur = id /\ segments'[m][i].end = seg.end
          ELSE segments'[m][i] = segments[m][i]
  BY <1>0, <1>1, <1>2 DEF Places
<1>5. \A m \in Nodes, u \in Threads : Has(m, u)' => Has(m, u) /\ th'[m][u] = th[m][u]
  <2>1. \A m \in Nodes, u \in Threads :
            th'[m][u] = th[m][u] \/ (m = n /\ th'[m][u].pc \in Blank)
    <3>1. Generate(n, c)
      BY DEF Generate
    <3>. HIDE DEF id, seg
    <3>. QED
      BY <3>1, BlankMoves
  <2>. QED
    BY <2>1 DEF Has, Blank
<1>6. id \notin issued
  BY <1>1 DEF Stocks, StocksClear, Clear
<1>. HIDE DEF id, seg
<1>7. BelowState'
  <2>1. \A r \in DOMAIN rows : FirstID(rows[r] + 1) \in Int
    <3>1. \A r \in DOMAIN rows : rows[r] + 1 \in Nat
      BY DEF TypeOK
    <3>. QED
      BY <3>1, FirstIDGrows
  <2>2. \A r \in DOMAIN rows : id < FirstID(rows[r] + 1)
    BY <1>1, <2>1 DEF Stocks, BelowState, seg
  <2>3. \A r \in DOMAIN rows : \A m \in Nodes : \A i \in Places(m) :
            segments'[m][i].end < FirstID(rows[r] + 1)
    BY <1>4 DEF Stocks, BelowState, seg
  <2>. QED
    BY <1>2, <1>3, <1>5, <2>2, <2>3 DEF Stocks, BelowState
<1>8. StocksApart'
  <2>1. ASSUME NEW m \in Nodes, NEW k \in Nodes, NEW i \in Places(m), NEW j \in Places(k),
               <<m, i>> # <<k, j>>
        PROVE  Apart(segments'[m][i], segments'[k][j])
    <3>1. /\ segments[m][i].cur \in Int /\ segments[m][i].end \in Nat
          /\ segments[k][j].cur \in Int /\ segments[k][j].end \in Nat
      BY SegmentsTyped
    <3>2. Apart(segments[m][i], segments[k][j])
      BY <2>1 DEF Stocks, StocksApart
    <3>3. /\ segments'[m][i].cur >= segments[m][i].cur /\ segments'[m][i].cur \in Int
          /\ segments'[m][i].end = segments[m][i].end
          /\ segments'[k][j].cur >= segments[k][j].cur /\ segments'[k][j].cur \in Int
          /\ segments'[k][j].end = segments[k][j].end
      BY <1>1, <1>4, <3>1 DEF id, seg
    <3>. QED
      BY <3>1, <3>2, <3>3 DEF Apart
  <2>2. ASSUME NEW m \in Nodes, NEW k \in Nodes, NEW i \in Places(m), NEW t \in Threads,
               Has(k, t)'
        PROVE  Apart(segments'[m][i], th'[k][t].seg)
    <3>1. /\ segments[m][i].cur \in Int /\ segments[m][i].end \in Nat
          /\ th[k][t].seg.cur \in Int /\ th[k][t].seg.end \in Nat
      BY SegmentsTyped, CarriedTyped
    <3>2. Apart(segments[m][i], th[k][t].seg) /\ th'[k][t] = th[k][t]
      BY <1>5, <2>2 DEF Stocks, StocksApart
    <3>3. /\ segments'[m][i].cur >= segments[m][i].cur /\ segments'[m][i].cur \in Int
          /\ segments'[m][i].end = segments[m][i].end
      BY <1>1, <1>4, <3>1 DEF id, seg
    <3>. QED
      BY <3>1, <3>2, <3>3 DEF Apart
  <2>3. ASSUME NEW m \in Nodes, NEW k \in Nodes, NEW t \in Threads, NEW u \in Threads,
               Has(m, t)', Has(k, u)', <<m, t>> # <<k, u>>
        PROVE  Apart(th'[m][t].seg, th'[k][u].seg)
    BY <1>5, <2>3 DEF Stocks, StocksApart
  <2>. QED
    BY <1>3, <2>1, <2>2, <2>3 DEF StocksApart, Apart
<1>9. StocksClear'
  <2>1. \A x \in issued : x \in Int
    BY DEF TypeOK
  <2>2. ASSUME NEW m \in Nodes, NEW i \in Places(m), NEW x \in issued \cup {id}
        PROVE  x <= segments'[m][i].cur \/ segments'[m][i].end < x
    <3>1. segments[m][i].cur \in Int /\ segments[m][i].end \in Nat
      BY SegmentsTyped
    <3>2. CASE m = n /\ i = 1
      <4>1. segments'[m][i].cur = id /\ segments'[m][i].end = seg.end
        BY <1>4, <3>2
      <4>2. x = id \/ x <= seg.cur \/ seg.end < x
        BY <1>1, <3>2 DEF Stocks, StocksClear, Clear, seg
      <4>. QED
        BY <1>1, <2>1, <4>1, <4>2 DEF id
    <3>3. CASE ~(m = n /\ i = 1)
      <4>1. segments'[m][i] = segments[m][i]
        BY <1>4, <3>3
      <4>2. CASE x \in issued
        BY <4>1, <4>2 DEF Stocks, StocksClear, Clear
      <4>3. CASE x = id
        <5>1. Apart(seg, segments[m][i])
          BY <1>1, <3>3 DEF Stocks, StocksApart, seg, Places
        <5>. QED
          BY <1>1, <3>1, <4>1, <4>3, <5>1 DEF Apart, id
      <4>. QED
        BY <4>2, <4>3
    <3>. QED
      BY <3>2, <3>3
  <2>3. ASSUME NEW m \in Nodes, NEW t \in Threads, Has(m, t)', NEW x \in issued \cup {id}
        PROVE  x <= th'[m][t].seg.cur \/ th'[m][t].seg.end < x
    <3>1. /\ th'[m][t] = th[m][t] /\ Has(m, t)
          /\ th[m][t].seg.cur \in Int /\ th[m][t].seg.end \in Nat
      BY <1>5, <2>3, CarriedTyped
    <3>2. CASE x \in issued
      BY <3>1, <3>2 DEF Stocks, StocksClear, Clear
    <3>3. CASE x = id
      <4>1. Apart(seg, th[m][t].seg)
        BY <1>1, <3>1 DEF Stocks, StocksApart, seg
      <4>. QED
        BY <1>1, <3>1, <3>3, <4>1 DEF Apart, id
    <3>. QED
      BY <3>2, <3>3
  <2>. QED
    BY <1>2, <1>3, <2>2, <2>3 DEF StocksClear, Clear
<1>10. Unique'
  <2>1. Cardinality(issued \cup {id}) = Cardinality(issued) + 1
    BY <1>6, FS_AddElement DEF TypeOK
  <2>2. Cardinality(Legacy) \in Nat
    BY ConstantsAssumption, FS_CardinalityType
  <2>. QED
    BY <1>2, <2>1, <2>2 DEF Stocks, Unique, TypeOK
<1>. QED
  BY <1>2, <1>6, <1>7, <1>8, <1>9, <1>10 DEF Stocks

\* A COMMIT reserves the segment that starts right above last_ts.
LEMMA StocksReserve ==
    ASSUME TypeOK, OneRow, RowLock, Stocks, NEW n \in Nodes, NEW t \in Threads, CommitFetch(n, t)
    PROVE  /\ Stocks'
           /\ th'[n][t].pc = "have" /\ \A id \in issued : id <= th'[n][t].seg.cur
           /\ \A m \in Nodes, u \in Threads : <<m, u>> # <<n, t>> => th'[m][u] = th[m][u]
<1> DEFINE row == th[n][t].row
           ts == th[n][t].ts
           seg == NewSegment(n, ts)
<1>1. /\ row \in DOMAIN rows /\ ts = rows[row] + 1 /\ ts \in Nat
      /\ \A r \in DOMAIN rows : r = row
  BY DEF CommitFetch, RowLock, InTx, OneRow, TypeOK, Goroutine
<1>2. /\ rows' = [rows EXCEPT ![row] = ts + SegmentDurationMs]
      /\ UNCHANGED <<segments, issued, handed>>
      /\ th' = [th EXCEPT ![n][t] = Carry("have", 0, 0, seg)]
  BY DEF CommitFetch, Persist, history
<1>3. /\ \A m \in Nodes, u \in Threads :
             IF m = n /\ u = t THEN th'[m][u].pc = "have" /\ th'[m][u].seg = seg
                               ELSE th'[m][u] = th[m][u]
      /\ \A r \in DOMAIN rows' : r = row /\ rows'[r] = ts + SegmentDurationMs
  BY <1>1, <1>2 DEF Carry, TypeOK
<1>4. /\ seg.cur \in Int /\ seg.end \in Nat
      /\ FirstID(ts) - 1 <= seg.cur
      /\ seg.end < FirstID(ts + SegmentDurationMs + 1)
      /\ FirstID(ts) <= FirstID(ts + SegmentDurationMs + 1)
  <2>1. seg \in Segment
    BY <1>1, SegmentSpan
  <2>. QED
    BY <1>1, <2>1, SegmentSpan DEF Segment
<1>5. FirstID(ts) \in Nat /\ FirstID(ts + SegmentDurationMs + 1) \in Nat
  <2>1. ts + SegmentDurationMs + 1 \in Nat
    BY <1>1, ConstantsAssumption
  <2>. QED
    BY <1>1, <2>1, FirstIDGrows
<1>. HIDE DEF seg, row, ts
<1>6. \A id \in issued : id \in Nat /\ id < FirstID(ts) /\ id <= seg.cur
  <2>1. \A id \in issued : id \in Nat /\ id < FirstID(ts)
    BY <1>1 DEF Stocks, BelowState, TypeOK
  <2>. QED
    BY <1>4, <1>5, <2>1
<1>7. \A m \in Nodes : \A i \in Places(m) :
          /\ segments[m][i].end \in Nat /\ segments[m][i].end < FirstID(ts)
          /\ segments[m][i].end <= seg.cur
  <2>1. \A m \in Nodes : \A i \in Places(m) :
            segments[m][i].end \in Nat /\ segments[m][i].end < FirstID(ts)
    BY <1>1, SegmentsTyped DEF Stocks, BelowState
  <2>. QED
    BY <1>4, <1>5, <2>1
<1>8. \A m \in Nodes, u \in Threads :
          Has(m, u) => /\ th[m][u].seg.end \in Nat /\ th[m][u].seg.end < FirstID(ts)
                       /\ th[m][u].seg.end <= seg.cur
  <2>1. \A m \in Nodes, u \in Threads :
            Has(m, u) => th[m][u].seg.end \in Nat /\ th[m][u].seg.end < FirstID(ts)
    BY <1>1, CarriedTyped DEF Stocks, BelowState
  <2>. QED
    BY <1>4, <1>5, <2>1
<1>9. BelowState'
  <2> SUFFICES ASSUME NEW r \in DOMAIN rows' PROVE
          /\ \A id \in issued : id < FirstID(rows'[r] + 1)
          /\ \A m \in Nodes : \A i \in Places(m) : segments[m][i].end < FirstID(rows'[r] + 1)
          /\ \A m \in Nodes, u \in Threads :
                Has(m, u)' => th'[m][u].seg.end < FirstID(rows'[r] + 1)
    BY <1>2 DEF BelowState, Places
  <2>1. FirstID(rows'[r] + 1) = FirstID(ts + SegmentDurationMs + 1)
    BY <1>3
  <2>. QED
    BY <1>3, <1>4, <1>5, <1>6, <1>7, <1>8, <2>1 DEF Has
<1>10. StocksApart'
  <2>1. ASSUME NEW m \in Nodes, NEW k \in Nodes, NEW i \in Places(m), NEW u \in Threads,
               Has(k, u)'
        PROVE  Apart(segments[m][i], th'[k][u].seg)
    BY <1>3, <1>7, <2>1 DEF Stocks, StocksApart, Apart, Has
  <2>2. ASSUME NEW m \in Nodes, NEW k \in Nodes, NEW u \in Threads, NEW v \in Threads,
               Has(m, u)', Has(k, v)', <<m, u>> # <<k, v>>
        PROVE  Apart(th'[m][u].seg, th'[k][v].seg)
    BY <1>3, <1>8, <2>2 DEF Stocks, StocksApart, Apart, Has
  <2>. QED
    BY <1>2, <2>1, <2>2 DEF Stocks, StocksApart, Apart, Places
<1>11. StocksClear'
  BY <1>2, <1>3, <1>6 DEF Stocks, StocksClear, Clear, Has, Places
<1>12. Unique'
  BY <1>2 DEF Stocks, Unique
<1>. QED
  BY <1>3, <1>6, <1>9, <1>10, <1>11, <1>12 DEF Stocks

\* A goroutine moves the segment it carries to the end of its server's list,
\* or drops it.
LEMMA StocksAppend ==
    ASSUME TypeOK, Stocks, NEW n \in Nodes, NEW t \in Threads, Has(n, t), ~ Has(n, t)',
           UNCHANGED <<rows, issued, handed>>,
           \A m \in Nodes, u \in Threads : Has(m, u)' => Has(m, u) /\ th'[m][u] = th[m][u],
           \/ segments' = [segments EXCEPT ![n] = Append(@, th[n][t].seg)]
           \/ segments' = segments
    PROVE  Stocks'
<1> DEFINE seg == th[n][t].seg
           Mine(m, i) == m = n /\ i = Len(segments[n]) + 1
<1>0. segments \in [Nodes -> Seq(Segment)] /\ seg \in Segment
  BY CarriedTyped DEF TypeOK
<1>1. \A m \in Nodes : \A i \in Places(m)' :
          IF Mine(m, i) THEN segments'[m][i] = seg
                        ELSE i \in Places(m) /\ segments'[m][i] = segments[m][i]
  <2>1. CASE segments' = segments
    BY <1>0, <2>1 DEF Places
  <2>2. CASE segments' = [segments EXCEPT ![n] = Append(@, seg)]
    <3> SUFFICES ASSUME NEW m \in Nodes, NEW i \in Places(m)'
                 PROVE  IF Mine(m, i) THEN segments'[m][i] = seg
                        ELSE i \in Places(m) /\ segments'[m][i] = segments[m][i]
      OBVIOUS
    <3>1. CASE m = n
      <4>1. segments'[m] = Append(segments[n], seg) /\ segments[n] \in Seq(Segment)
        BY <1>0, <2>2, <3>1
      <4>2. i \in 1 .. Len(segments[n]) + 1
        BY <1>0, <4>1 DEF Places
      <4>. QED
        BY <1>0, <3>1, <4>1, <4>2 DEF Places
    <3>2. CASE m # n
      BY <1>0, <2>2, <3>2 DEF Places
    <3>. QED
      BY <3>1, <3>2
  <2>. QED
    BY <2>1, <2>2
<1>. HIDE DEF seg, Mine
<1>2. BelowState'
  BY <1>1 DEF Stocks, BelowState, seg
<1>3. StocksApart'
  <2>1. ASSUME NEW m \in Nodes, NEW k \in Nodes, NEW i \in Places(m)', NEW j \in Places(k)',
               <<m, i>> # <<k, j>>
        PROVE  Apart(segments'[m][i], segments'[k][j])
    <3>1. ~(Mine(m, i) /\ Mine(k, j))
      BY <2>1 DEF Mine
    <3>. QED
      BY <1>1, <2>1, <3>1 DEF Stocks, StocksApart, Apart, seg
  <2>2. ASSUME NEW m \in Nodes, NEW k \in Nodes, NEW i \in Places(m)', NEW u \in Threads,
               Has(k, u)'
        PROVE  Apart(segments'[m][i], th'[k][u].seg)
    <3>1. Has(k, u) /\ th'[k][u] = th[k][u] /\ <<k, u>> # <<n, t>>
      BY <2>2
    <3>2. CASE Mine(m, i)
      BY <1>1, <3>1, <3>2 DEF Stocks, StocksApart, seg
    <3>3. CASE ~ Mine(m, i)
      BY <1>1, <3>1, <3>3 DEF Stocks, StocksApart
    <3>. QED
      BY <3>2, <3>3
  <2>3. ASSUME NEW m \in Nodes, NEW k \in Nodes, NEW u \in Threads, NEW v \in Threads,
               Has(m, u)', Has(k, v)', <<m, u>> # <<k, v>>
        PROVE  Apart(th'[m][u].seg, th'[k][v].seg)
    BY <2>3 DEF Stocks, StocksApart
  <2>. QED
    BY <2>1, <2>2, <2>3 DEF StocksApart, Apart
<1>4. StocksClear'
  BY <1>1 DEF Stocks, StocksClear, Clear, seg
<1>5. Unique'
  BY DEF Stocks, Unique
<1>. QED
  BY <1>2, <1>3, <1>4, <1>5 DEF Stocks

\* No stock, at the start, and the stored messages lie below last_ts.
LEMMA StocksInit == Init => Stocks
<1>. SUFFICES ASSUME Init PROVE Stocks
  OBVIOUS
<1>1. /\ \A n \in Nodes : segments[n] = <<>>
      /\ \A n \in Nodes, t \in Threads : ~ Has(n, t)
      /\ issued = Legacy /\ handed = 0 /\ \A r \in DOMAIN rows : rows[r] = LastTs0
  BY DEF Init, Has, At, Carry
<1>2. \A id \in Legacy : id < FirstID(LastTs0 + 1)
  <2>1. LastTs0 + 1 \in Nat /\ Legacy \subseteq 1 .. FirstID(LastTs0 + 1) - 1
    BY ConstantsAssumption
  <2>2. FirstID(LastTs0 + 1) \in Nat
    BY <2>1, FirstIDGrows
  <2>. QED
    BY <2>1, <2>2
<1>3. BelowState
  BY <1>1, <1>2 DEF BelowState, Places
<1>4. StocksApart /\ StocksClear
  BY <1>1 DEF StocksApart, StocksClear, Places
<1>5. Unique
  <2>1. Cardinality(Legacy) \in Nat
    BY ConstantsAssumption, FS_CardinalityType
  <2>. QED
    BY <1>1, <2>1 DEF Unique
<1>. QED
  BY <1>3, <1>4, <1>5 DEF Stocks

\* At most one row at the start, and no transaction.
LEMMA OneRowInit == SingleInitialiser /\ Init => OneRow /\ RowLock
<1>. SUFFICES ASSUME SingleInitialiser, Init PROVE OneRow /\ RowLock
  OBVIOUS
<1>1. /\ \A n \in Nodes : segments[n] = <<>>
      /\ \A n \in Nodes, t \in Threads : th[n][t].pc = IF t = Main THEN "boot" ELSE "idle"
      /\ issued = Legacy
      /\ DOMAIN rows = IF FreshDB THEN {} ELSE {1}
  BY DEF Init, At, Carry
<1>2. OneRow
  BY <1>1 DEF OneRow, SingleInitialiser
<1>3. RowLock
  BY <1>1 DEF RowLock, InTx
<1>. QED
  BY <1>2, <1>3

\* Every step keeps the stocks apart, clear and below last_ts.
LEMMA StocksStep ==
    ASSUME TypeOK, OneRow, RowLock, Stocks, TypeOK', [Next]_vars
    PROVE  Stocks'
<1>0. /\ Callers \subseteq Threads /\ Main \in Threads /\ Prefetch \in Threads
  BY DEF Threads
<1>1. ASSUME NEW n \in Nodes, FoundState(n) \/ ReleaseSlot(n) \/ (\E c \in Callers : Call(n, c))
      PROVE  Stocks'
  <2>1. UNCHANGED <<rows, segments, issued, handed>>
    BY <1>1 DEF FoundState, ReleaseSlot, Call, history
  <2>2. \A m \in Nodes, u \in Threads : Has(m, u)' => th'[m][u] = th[m][u]
    BY <1>1, BlankMoves DEF Has, Blank
  <2>3. \A r \in DOMAIN rows : rows[r] <= rows'[r]
    BY <2>1 DEF TypeOK
  <2>. QED
    BY <2>1, <2>2, <2>3, StocksKept
<1>2. ASSUME NEW n \in Nodes, NEW now \in Clock, InsertState(n, now) PROVE Stocks'
  <2>1. UNCHANGED <<rows, segments, issued, handed>>
    BY <1>2 DEF InsertState, history
  <2>2. \A m \in Nodes, u \in Threads : Has(m, u)' => th'[m][u] = th[m][u]
    BY <1>0, <1>2 DEF InsertState, Carry, Has, TypeOK
  <2>3. \A r \in DOMAIN rows : rows[r] <= rows'[r]
    BY <2>1 DEF TypeOK
  <2>. QED
    BY <2>1, <2>2, <2>3, StocksKept
<1>3. ASSUME NEW n \in Nodes, CommitInsert(n) PROVE Stocks'
  BY <1>3, StocksFirstRow
<1>4. ASSUME NEW n \in Nodes, NEW c \in Callers, NoSegment(n, c) \/ CheckEmpty(n, c)
      PROVE  Stocks'
  <2>1. UNCHANGED <<rows, segments, issued, handed>>
    BY <1>4 DEF NoSegment, CheckEmpty, history
  <2>2. \A m \in Nodes, u \in Threads : Has(m, u)' => th'[m][u] = th[m][u]
    BY <1>4, BlankMoves DEF Generate, Has, Blank
  <2>3. \A r \in DOMAIN rows : rows[r] <= rows'[r]
    BY <2>1 DEF TypeOK
  <2>. QED
    BY <2>1, <2>2, <2>3, StocksKept
<1>5. ASSUME NEW n \in Nodes, NEW c \in Callers, PopExhausted(n, c) PROVE Stocks'
  <2>1. UNCHANGED <<rows, issued, handed>> /\ segments[n] # <<>>
        /\ segments' = [segments EXCEPT ![n] = Tail(@)]
    BY <1>5 DEF PopExhausted, history
  <2>2. \A m \in Nodes, u \in Threads : Has(m, u)' => Has(m, u) /\ th'[m][u] = th[m][u]
    BY <1>5, BlankMoves DEF Generate, Has, Blank
  <2>. QED
    BY <2>1, <2>2, StocksShrink
<1>6. ASSUME NEW n \in Nodes, NEW c \in Callers, HandOut(n, c) PROVE Stocks'
  BY <1>6, StocksHandOut
<1>7. ASSUME NEW n \in Nodes, NEW t \in Threads, SelectForUpdate(n, t) PROVE Stocks'
  <2>1. UNCHANGED <<rows, segments, issued, handed>>
    BY <1>7 DEF SelectForUpdate, history
  <2>2. \A m \in Nodes, u \in Threads : Has(m, u)' => th'[m][u] = th[m][u]
    BY <1>7 DEF SelectForUpdate, Carry, Has, TypeOK
  <2>3. \A r \in DOMAIN rows : rows[r] <= rows'[r]
    BY <2>1 DEF TypeOK
  <2>. QED
    BY <2>1, <2>2, <2>3, StocksKept
<1>8. ASSUME NEW n \in Nodes, NEW t \in Threads, CommitFetch(n, t) PROVE Stocks'
  BY <1>8, StocksReserve
<1>9. ASSUME NEW n \in Nodes, NEW t \in Threads, FailFetch(n, t) PROVE Stocks'
  <2>1. UNCHANGED <<segments, issued, handed>>
    BY <1>9 DEF FailFetch, history
  <2>2. \A m \in Nodes, u \in Threads : Has(m, u)' => th'[m][u] = th[m][u]
    BY <1>9, BlankMoves DEF Has, Blank
  <2>3. InTx(n, t) => /\ th[n][t].row \in DOMAIN rows
                      /\ th[n][t].ts = rows[th[n][t].row] + 1
    BY DEF RowLock
  <2>4. DOMAIN rows' = DOMAIN rows /\ \A r \in DOMAIN rows : rows[r] <= rows'[r]
    <3>0. SegmentDurationMs \in Nat /\ \A r \in DOMAIN rows : rows[r] \in Nat
      BY ConstantsAssumption DEF TypeOK
    <3>1. CASE UNCHANGED rows
      BY <3>0, <3>1
    <3>2. CASE InTx(n, t) /\ Persist(th[n][t])
      <4>1. rows' = [rows EXCEPT ![th[n][t].row] = th[n][t].ts + SegmentDurationMs]
        BY <3>2 DEF Persist
      <4>2. rows[th[n][t].row] <= th[n][t].ts + SegmentDurationMs
        BY <3>0, <3>2, <2>3
      <4>3. DOMAIN rows' = DOMAIN rows
        BY <4>1
      <4>4. ASSUME NEW r \in DOMAIN rows PROVE rows[r] <= rows'[r]
        <5>1. CASE r = th[n][t].row
          <6>1. rows'[r] = th[n][t].ts + SegmentDurationMs
            BY <4>1, <5>1 DEF TypeOK
          <6>. QED
            BY <4>2, <5>1, <6>1
        <5>2. CASE r # th[n][t].row
          <6>1. rows'[r] = rows[r]
            BY <4>1, <5>2 DEF TypeOK
          <6>. QED
            BY <3>0, <6>1
        <5>. QED
          BY <5>1, <5>2
      <4>. QED
        BY <4>3, <4>4
    <3>. QED
      BY <1>9, <3>1, <3>2 DEF FailFetch, InTx
  <2>. QED
    BY <2>1, <2>2, <2>4, StocksKept
<1>10. ASSUME NEW n \in Nodes, NEW t \in Threads,
              AppendSync(n, t) \/ (t = Prefetch /\ AppendPrefetch(n))
       PROVE  Stocks'
  <2>1. /\ UNCHANGED <<rows, issued, handed>> /\ Has(n, t)
        /\ \/ segments' = [segments EXCEPT ![n] = Append(@, th[n][t].seg)]
           \/ segments' = segments
    BY <1>10 DEF AppendSync, AppendPrefetch, history, Has
  <2>2. \A m \in Nodes, u \in Threads : Has(m, u)' => Has(m, u) /\ th'[m][u] = th[m][u]
    BY <1>10, BlankMoves DEF Has, Blank
  <2>3. ~ Has(n, t)'
    BY <1>10 DEF AppendSync, AppendPrefetch, Goto, At, Carry, Has, TypeOK
  <2>. QED
    BY <2>1, <2>2, <2>3, StocksAppend
<1>11. ASSUME NEW n \in Nodes, Crash(n) PROVE Stocks'
  <2>1. UNCHANGED <<rows, issued, handed>> /\ segments' = [segments EXCEPT ![n] = <<>>]
    BY <1>11 DEF Crash, history
  <2>2. \A m \in Nodes, u \in Threads : Has(m, u)' => Has(m, u) /\ th'[m][u] = th[m][u]
    BY <1>11, BlankMoves DEF Has, Blank
  <2>. QED
    BY <2>1, <2>2, StocksShrink
<1>12. CASE UNCHANGED vars
  <2>1. /\ UNCHANGED <<rows, segments, issued, handed>>
        /\ \A m \in Nodes, u \in Threads : Has(m, u)' => th'[m][u] = th[m][u]
    BY <1>12 DEF vars, history
  <2>2. \A r \in DOMAIN rows : rows[r] <= rows'[r]
    BY <2>1 DEF TypeOK
  <2>. QED
    BY <2>1, <2>2, StocksKept
<1>. QED
  BY <1>0, <1>1, <1>2, <1>3, <1>4, <1>5, <1>6, <1>7, <1>8, <1>9, <1>10, <1>11, <1>12
     DEF Next, Boot, Generate, Fetch

-----------------------------------------------------------------------------
(***************************************************************************)
(* The theorems.                                                           *)
(***************************************************************************)
\* The inductive invariant holds: the stocks behind the identifiers of idgen.go
\* stay apart, clear of what was handed out, and at or below last_ts.
THEOREM Invariance == SingleInitialiser => (Spec => []IInv)
<1>. SUFFICES ASSUME SingleInitialiser PROVE Spec => []IInv
  OBVIOUS
<1>1. Init => IInv
  BY TypeInit, OneRowInit, StocksInit DEF IInv, Stocks
<1>2. IInv /\ [Next]_vars => IInv'
  <2> SUFFICES ASSUME IInv, [Next]_vars PROVE IInv'
    OBVIOUS
  <2>1. TypeOK /\ OneRow /\ RowLock /\ Stocks
    BY DEF IInv, Stocks
  <2>2. TypeOK' /\ OneRow' /\ RowLock'
    BY <2>1, TypeStep, OneRowStep, RowLockStep
  <2>3. Stocks'
    BY <2>1, <2>2, StocksStep
  <2>. QED
    BY <2>2, <2>3 DEF IInv, Stocks
<1>. QED
  BY <1>1, <1>2, PTL DEF Spec

\* Every variable of the generator keeps its type.
THEOREM TypeCorrect == SingleInitialiser => (Spec => []TypeOK)
<1>. SUFFICES ASSUME SingleInitialiser PROVE Spec => []TypeOK
  OBVIOUS
<1>1. IInv => TypeOK
  BY DEF IInv
<1>. QED
  BY <1>1, Invariance, PTL

\* No identifier is handed out twice (idgen.go:49), by GenerateID of any server.
THEOREM Uniqueness == SingleInitialiser => (Spec => []Unique)
<1>. SUFFICES ASSUME SingleInitialiser PROVE Spec => []Unique
  OBVIOUS
<1>1. IInv => Unique
  BY DEF IInv
<1>. QED
  BY <1>1, Invariance, PTL

\* What is handed out is covered by last_ts in the database, so that a restart,
\* which starts above last_ts (idgen.go:247), cannot hand it out again.
THEOREM Covered == SingleInitialiser => (Spec => []CoveredByState)
<1>. SUFFICES ASSUME SingleInitialiser PROVE Spec => []CoveredByState
  OBVIOUS
<1>1. IInv => CoveredByState
  <2> SUFFICES ASSUME IInv, NEW id \in issued \ Legacy
               PROVE  \E r \in DOMAIN rows : id < FirstID(rows[r] + 1)
    BY DEF CoveredByState
  <2>1. DOMAIN rows # {}
    BY DEF IInv, OneRow
  <2>. QED
    BY <2>1 DEF IInv, BelowState
<1>. QED
  BY <1>1, Invariance, PTL

\* A segment is reserved above everything any server handed out (idgen.go:257).
THEOREM ReservesAbove == SingleInitialiser => (Spec => ReservedAbove)
<1>. SUFFICES ASSUME SingleInitialiser PROVE Spec => ReservedAbove
  OBVIOUS
<1> DEFINE Above == \A n \in Nodes, t \in Threads :
                       (th[n][t].pc = "tx" /\ th'[n][t].pc = "have")
                          => \A id \in issued : id <= th'[n][t].seg.cur
<1>1. IInv /\ [Next]_vars => [Above]_vars
  <2> SUFFICES ASSUME IInv, Next,
                      NEW n \in Nodes, NEW t \in Threads,
                      th[n][t].pc = "tx", th'[n][t].pc = "have"
               PROVE  \A id \in issued : id <= th'[n][t].seg.cur
    OBVIOUS
  <2>0. TypeOK /\ OneRow /\ RowLock /\ Stocks
    BY DEF IInv, Stocks
  <2>1. ASSUME NEW m \in Nodes,
               \A k \in Nodes, u \in Threads :
                  th'[k][u] = th[k][u] \/ (k = m /\ th'[k][u].pc \in Blank)
        PROVE  FALSE
    BY <2>1 DEF Blank
  <2>2. ASSUME NEW m \in Nodes, NEW now \in Clock, InsertState(m, now) PROVE FALSE
    BY <2>0, <2>2 DEF InsertState, Carry, TypeOK, Threads
  <2>3. ASSUME NEW m \in Nodes, NEW u \in Threads, SelectForUpdate(m, u) PROVE FALSE
    BY <2>0, <2>3 DEF SelectForUpdate, Carry, TypeOK
  <2>4. ASSUME NEW m \in Nodes, NEW u \in Threads, CommitFetch(m, u)
        PROVE  \A id \in issued : id <= th'[n][t].seg.cur
    <3>1. /\ \A id \in issued : id <= th'[m][u].seg.cur
          /\ \A k \in Nodes, v \in Threads : <<k, v>> # <<m, u>> => th'[k][v] = th[k][v]
      BY <2>0, <2>4, StocksReserve
    <3>. QED
      BY <3>1
  <2>5. ASSUME NEW m \in Nodes,
               \/ FoundState(m) \/ CommitInsert(m)
               \/ AppendPrefetch(m) \/ ReleaseSlot(m) \/ Crash(m)
               \/ \E c \in Callers : Call(m, c) \/ Generate(m, c)
               \/ \E u \in Threads : FailFetch(m, u) \/ AppendSync(m, u)
        PROVE  FALSE
    BY <2>0, <2>1, <2>5, BlankMoves
  <2>. QED
    BY <2>2, <2>3, <2>4, <2>5 DEF Next, Boot, Fetch
<1>. QED
  BY <1>1, Invariance, PTL DEF Spec, ReservedAbove

\* The generator implements IdService: each answered GenerateID is one step of
\* the abstract service, every other step leaves the service as it is.
THEOREM Refinement == SingleInitialiser => (Spec => Implements)
<1>. SUFFICES ASSUME SingleInitialiser PROVE Spec => Implements
  OBVIOUS
<1>1. Init => Service!Init
  BY DEF Init, Service!Init
<1>2. IInv /\ [Next]_vars => [Service!Next]_(Service!vars)
  <2> SUFFICES ASSUME IInv, [Next]_vars PROVE Service!Next \/ UNCHANGED <<issued, handed>>
    BY DEF Service!vars
  <2>0. TypeOK /\ OneRow /\ RowLock /\ Stocks
    BY DEF IInv, Stocks
  <2>1. ASSUME NEW n \in Nodes, NEW c \in Callers, HandOut(n, c) PROVE Service!Next
    <3>1. /\ \E id \in issued' \ issued : issued' = issued \cup {id}
          /\ handed' = handed + 1
      BY <2>0, <2>1, StocksHandOut
    <3>. QED
      BY <3>1 DEF Service!Next, Service!Issue
  <2>2. ASSUME NEW n \in Nodes, Boot(n) PROVE UNCHANGED <<issued, handed>>
    BY <2>2 DEF Boot, FoundState, InsertState, CommitInsert, history
  <2>3. ASSUME NEW n \in Nodes, NEW t \in Threads, Fetch(n, t) PROVE UNCHANGED <<issued, handed>>
    BY <2>3 DEF Fetch, SelectForUpdate, CommitFetch, FailFetch, AppendSync, history
  <2>4. ASSUME NEW n \in Nodes, NEW c \in Callers,
               Call(n, c) \/ NoSegment(n, c) \/ PopExhausted(n, c) \/ CheckEmpty(n, c)
        PROVE  UNCHANGED <<issued, handed>>
    BY <2>4 DEF Call, NoSegment, PopExhausted, CheckEmpty, history
  <2>5. ASSUME NEW n \in Nodes, AppendPrefetch(n) \/ ReleaseSlot(n) \/ Crash(n)
        PROVE  UNCHANGED <<issued, handed>>
    BY <2>5 DEF AppendPrefetch, ReleaseSlot, Crash, history
  <2>6. CASE UNCHANGED vars
    BY <2>6 DEF vars, history
  <2>. QED
    BY <2>1, <2>2, <2>3, <2>4, <2>5, <2>6 DEF Next, Generate
<1>. QED
  BY <1>1, <1>2, Invariance, PTL DEF Spec, Implements, Service!Spec

\* At most two segments are kept (idgen.go:220).
THEOREM TwoSegments == SingleInitialiser => (Spec => []AtMostTwoSegments)
<1>. SUFFICES ASSUME SingleInitialiser PROVE Spec => []AtMostTwoSegments
  OBVIOUS
<1>1. Init => AtMostTwoSegments
  BY DEF Init, AtMostTwoSegments
<1>2. IInv /\ AtMostTwoSegments /\ [Next]_vars => AtMostTwoSegments'
  <2> SUFFICES ASSUME IInv, AtMostTwoSegments, [Next]_vars, NEW m \in Nodes
               PROVE  Len(segments'[m]) <= 2
    BY DEF AtMostTwoSegments
  <2>0. /\ segments \in [Nodes -> Seq(Segment)] /\ segments[m] \in Seq(Segment)
        /\ Len(segments[m]) <= 2 /\ Len(segments[m]) \in Nat
    BY DEF IInv, TypeOK, AtMostTwoSegments
  <2>1. CASE UNCHANGED segments
    BY <2>0, <2>1
  <2>2. ASSUME NEW n \in Nodes, NEW t \in Threads, AppendSync(n, t) PROVE Len(segments'[m]) <= 2
    BY <2>0, <2>2 DEF AppendSync
  <2>3. ASSUME NEW n \in Nodes, AppendPrefetch(n) PROVE Len(segments'[m]) <= 2
    BY <2>0, <2>3 DEF AppendPrefetch
  <2>4. ASSUME NEW n \in Nodes, NEW c \in Callers, PopExhausted(n, c)
        PROVE  Len(segments'[m]) <= 2
    BY <2>0, <2>4 DEF PopExhausted
  <2>5. ASSUME NEW n \in Nodes, NEW c \in Callers, HandOut(n, c) PROVE Len(segments'[m]) <= 2
    BY <2>0, <2>5 DEF HandOut
  <2>6. ASSUME NEW n \in Nodes, Crash(n) PROVE Len(segments'[m]) <= 2
    BY <2>0, <2>6 DEF Crash
  <2>7. ASSUME NEW n \in Nodes, Boot(n) \/ ReleaseSlot(n) PROVE UNCHANGED segments
    BY <2>7 DEF Boot, FoundState, InsertState, CommitInsert, ReleaseSlot
  <2>8. ASSUME NEW n \in Nodes, NEW t \in Threads,
               SelectForUpdate(n, t) \/ CommitFetch(n, t) \/ FailFetch(n, t)
        PROVE  UNCHANGED segments
    BY <2>8 DEF SelectForUpdate, CommitFetch, FailFetch
  <2>9. ASSUME NEW n \in Nodes, NEW c \in Callers,
               Call(n, c) \/ NoSegment(n, c) \/ CheckEmpty(n, c)
        PROVE  UNCHANGED segments
    BY <2>9 DEF Call, NoSegment, CheckEmpty
  <2>10. CASE UNCHANGED vars
    BY <2>1, <2>10 DEF vars
  <2>. QED
    BY <2>1, <2>2, <2>3, <2>4, <2>5, <2>6, <2>7, <2>8, <2>9, <2>10 DEF Next, Generate, Fetch
<1>. QED
  BY <1>1, <1>2, Invariance, PTL DEF Spec
==============================================================================
