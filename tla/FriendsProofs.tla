----------------------------- MODULE FriendsProofs -----------------------------
(***************************************************************************)
(* Proofs about Friends, for any number of users, calls and failures.      *)
(***************************************************************************)
EXTENDS Friends, TLAPS

USE FriendsAssumption

\* IInv holds at the start.
LEMMA InitInv == Init => IInv
<1> SUFFICES ASSUME Init PROVE IInv
  OBVIOUS
<1>1. requests = [i \in {} |-> {}] /\ DOMAIN requests = {}
  BY DEF Init
<1>2. \A p \in Calls : call[p] = NewCall
  BY DEF Init
<1>3. TypeOK
  BY <1>1, FriendsAssumption DEF Init, TypeOK, NewCall, CallType, IDs
<1>4. \A u, v : Pending(u, v) = {}
  BY <1>1 DEF Pending, Abstract!Pending
<1>5. OnlyHeld /\ HeldRows /\ HeldApart /\ InsertsApart /\ Unknown /\ PassedBy
  BY <1>2, <1>4 DEF NewCall, OnlyHeld, HeldRows, HeldApart, InsertsApart, Unknown, PassedBy, Holds
<1>6. AskedBy /\ BothWanted /\ OnePending
  BY <1>1, <1>4 DEF AskedBy, BothWanted, OnePending
<1>7. AnswersHold
  BY <1>2 DEF NewCall, AnswersHold
<1>8. NoticesTrue
  BY DEF Init, NoticesTrue
<1>. QED
  BY <1>3, <1>5, <1>6, <1>7, <1>8 DEF IInv

\* What a step of one call does to the calls.
LEMMA BecomesTyped ==
  ASSUME TypeOK, NEW p \in Calls, NEW step \in {"insert", "answer", "commit", "done"},
         NEW does \in {"none", "insert", "accepted", "rejected", "delete"},
         NEW rows \in SUBSET Nat,
         NEW answer \in {"none", "ok", "conflict", "notfound", "forbidden", "error"},
         Becomes(p, step, does, rows, answer)
  PROVE  call' \in [Calls -> CallType]
<1> DEFINE new == [step |-> step, kind |-> call[p].kind, user |-> call[p].user,
                   other |-> call[p].other, id |-> call[p].id, does |-> does, rows |-> rows,
                   answer |-> answer, seen |-> call[p].seen]
<1>1. call' = [call EXCEPT ![p] = new] /\ call \in [Calls -> CallType]
  BY DEF Becomes, TypeOK
<1>2. new \in CallType
  BY <1>1 DEF CallType
<1>. QED
  BY <1>1, <1>2

\* The call's record after a write.
LEMMA WritesCall ==
  ASSUME TypeOK, NEW p \in Calls, NEW does \in {"insert", "accepted", "rejected", "delete"},
         NEW rows \in SUBSET Nat, Writes(p, does, rows)
  PROVE  /\ call'[p].does = does /\ call'[p].rows = rows /\ call'[p].kind = call[p].kind
         /\ call'[p].user = call[p].user /\ call'[p].other = call[p].other
  BY DEF Writes, Becomes, TypeOK

\* What Begins does to the calls.
LEMMA BeginsCall ==
  ASSUME TypeOK, NEW p \in Calls, NEW kind \in {"send", "accept", "reject", "cancel", "forget"},
         NEW u \in Users, NEW v \in Users, NEW id \in Nat,
         NEW step \in {"reverse", "exists", "answer", "forget"},
         Begins(p, kind, u, v, id, step)
  PROVE  /\ call[p].step = "idle"
         /\ call' \in [Calls -> CallType]
         /\ \A q \in Calls \ {p} : call'[q] = call[q]
         /\ call'[p].step = step /\ call'[p].kind = kind /\ call'[p].user = u
         /\ call'[p].other = v /\ call'[p].does = "none" /\ call'[p].rows = {}
         /\ call'[p].answer = "none" /\ call'[p].seen = DOMAIN requests
         /\ UNCHANGED <<accounts, requests, nextID, outbox, notices, failures>>
  BY DEF TypeOK, Begins, NewCall, CallType, IDs

-----------------------------------------------------------------------------
(***************************************************************************)
(* IInv is kept by the four kinds of steps: a call that holds nothing      *)
(* afterwards, one that takes hold of rows, one that commits, and the      *)
(* goroutine that stores a notification.                                   *)
(***************************************************************************)
\* A call begins, looks without finding anything, or is rolled back.
LEMMA QuietKeeps ==
  ASSUME IInv, NEW p \in Calls, call[p].step # "done",
         call' \in [Calls -> CallType], \A q \in Calls \ {p} : call'[q] = call[q],
         call'[p].does = "none", call'[p].rows = {}, call'[p].step \notin {"idle", "commit"},
         call'[p].answer # "ok", call'[p].answer # "none" => call'[p].step = "done",
         call'[p].seen \in {call[p].seen, DOMAIN requests},
         call'[p].user \in Users, call'[p].other \in Users,
         call'[p].kind = "send" => call'[p].user # call'[p].other,
         call'[p].step \in {"reverse", "insert"} => call'[p].kind = "send",
         call'[p].step \in {"exists", "answer"} => call'[p].kind \in {"accept", "reject", "cancel"},
         call'[p].step = "forget" => call'[p].kind = "forget",
         call'[p].step = "insert" =>
            Pending(call'[p].other, call'[p].user) \cap call'[p].seen = {},
         requests' = requests, accounts' = accounts, outbox' = outbox, notices' = notices,
         nextID' \in {nextID, nextID + 1}, failures' \in 0 .. MaxFailures
  PROVE  IInv'
<1>1. \A q \in Calls : Holds(q)' => q # p /\ Holds(q) /\ call'[q] = call[q]
  BY DEF Holds
<1>2. \A u, v : Pending(u, v)' = Pending(u, v)
  BY DEF Pending, Abstract!Pending
<1>3. IDs \subseteq IDs' /\ nextID' \in Nat \ {0}
  BY DEF IInv, TypeOK, IDs
<1>4. TypeOK'
  BY <1>3 DEF IInv, TypeOK
<1>5. OnlyHeld'
  BY DEF IInv, OnlyHeld
<1>6. HeldRows'
  <2> SUFFICES ASSUME NEW q \in Calls, Holds(q)'
               PROVE  HeldRows!(q)'
    BY DEF HeldRows
  <2>. QED
    BY <1>1, <1>2, <1>3 DEF IInv, HeldRows
<1>7. HeldApart' /\ InsertsApart'
  BY <1>1 DEF IInv, HeldApart, InsertsApart
<1>8. Unknown'
  BY <1>1 DEF IInv, Unknown, HeldRows
<1>9. \A i \in DOMAIN requests :
         ~ (call[p].does = "insert" /\ i \in call[p].rows)
  BY DEF IInv, OnlyHeld, HeldRows, Holds
<1>10. AskedBy'
  BY <1>9 DEF IInv, AskedBy
<1>11. PassedBy'
  BY <1>2 DEF IInv, PassedBy
<1>12. \A i \in DOMAIN requests : requests[i].status = "accepted" =>
         ~ (call[p].does = "accepted" /\ i \in call[p].rows)
  BY DEF IInv, OnlyHeld, HeldRows, Holds
<1>13. BothWanted'
  BY <1>9, <1>12 DEF IInv, BothWanted
<1>14. OnePending'
  BY <1>2 DEF IInv, OnePending
<1>15. AnswersHold'
  BY DEF IInv, AnswersHold
<1>16. NoticesTrue'
  BY DEF IInv, NoticesTrue
<1>. QED
  BY <1>4, <1>5, <1>6, <1>7, <1>8, <1>10, <1>11, <1>13, <1>14, <1>15, <1>16 DEF IInv

\* A statement inserts a row, or finds rows that nobody holds and changes them.
LEMMA HoldKeeps ==
  ASSUME IInv, NEW p \in Calls, call[p].step \notin {"idle", "commit", "done"},
         NEW effect \in {"insert", "accepted", "rejected", "delete"}, NEW ids \in SUBSET Nat,
         Writes(p, effect, ids), HeldRows!(p)',
         \/ /\ effect = "insert" /\ call[p].step = "insert"
            /\ ids = {nextID} /\ nextID' = nextID + 1
            /\ KeyFree(p, call[p].user, call[p].other)
         \/ /\ effect # "insert"
            /\ nextID' = nextID /\ ids \subseteq DOMAIN requests /\ Free(p, ids),
         UNCHANGED <<accounts, requests, outbox, notices, failures>>
  PROVE  IInv'
<1>1. /\ \A q \in Calls \ {p} : call'[q] = call[q]
      /\ call'[p].step = "commit" /\ call'[p].kind = call[p].kind
      /\ call'[p].user = call[p].user /\ call'[p].other = call[p].other
      /\ call'[p].does = effect /\ call'[p].rows = ids
      /\ call'[p].answer = "none" /\ call'[p].seen = call[p].seen
      /\ call' \in [Calls -> CallType]
  <2>1. call \in [Calls -> CallType]
    BY DEF IInv, TypeOK
  <2>2. call' \in [Calls -> CallType]
    BY BecomesTyped DEF IInv, Writes
  <2>. QED
    BY <2>1, <2>2 DEF IInv, Writes, Becomes
<1>2. call[p].does = "none" /\ call[p].rows = {}
  BY DEF IInv, OnlyHeld
<1>3. \A q \in Calls \ {p} : Holds(q)' <=> Holds(q)
  BY <1>1 DEF Holds
<1>4. \A u, v : Pending(u, v)' = Pending(u, v)
  BY DEF Pending, Abstract!Pending
<1>5. IDs \subseteq IDs' /\ nextID' \in Nat \ {0} /\ ids \subseteq IDs' /\ nextID \notin IDs
  BY DEF IInv, TypeOK, IDs
<1>6. TypeOK'
  BY <1>1, <1>5 DEF IInv, TypeOK
<1>7. OnlyHeld'
  BY <1>1 DEF IInv, OnlyHeld
<1>8. HeldRows'
  <2> SUFFICES ASSUME NEW q \in Calls \ {p}, Holds(q)'
               PROVE  HeldRows!(q)'
    BY DEF HeldRows
  <2>. QED
    BY <1>1, <1>3, <1>4, <1>5 DEF IInv, HeldRows
<1>9. \A q \in Calls \ {p} : Holds(q) => call[q].rows \cap ids = {}
  <2>1. CASE effect = "insert"
    BY <2>1, <1>5 DEF IInv, TypeOK
  <2>2. CASE effect # "insert"
    BY <2>2 DEF Free
  <2>. QED
    BY <2>1, <2>2
<1>10. HeldApart'
  BY <1>1, <1>3, <1>9 DEF IInv, HeldApart
<1>11. InsertsApart'
  <2>1. CASE effect = "insert"
    BY <2>1, <1>1, <1>3 DEF IInv, InsertsApart, KeyFree
  <2>2. CASE effect # "insert"
    BY <2>2, <1>1, <1>3 DEF IInv, InsertsApart
  <2>. QED
    BY <2>1, <2>2
<1>12. Unknown'
  <2> SUFFICES ASSUME NEW q \in Calls, Holds(q)', call'[q].does = "insert"
               PROVE  Unknown!(q)'
    BY DEF Unknown
  <2>1. CASE q = p
    BY <2>1, <1>1, <1>5 DEF IInv, TypeOK
  <2>2. CASE q # p
    BY <2>2, <1>1, <1>3, <1>9 DEF IInv, Unknown
  <2>. QED
    BY <2>1, <2>2
<1>13. AskedBy'
  BY <1>1, <1>2 DEF IInv, AskedBy
<1>14. PassedBy'
  BY <1>1, <1>4 DEF IInv, PassedBy
<1>15. BothWanted'
  BY <1>1, <1>2 DEF IInv, BothWanted
<1>16. OnePending'
  BY <1>4 DEF IInv, OnePending
<1>17. AnswersHold'
  BY <1>1 DEF IInv, AnswersHold
<1>18. NoticesTrue'
  BY DEF IInv, NoticesTrue
<1>. QED
  BY <1>6, <1>7, <1>8, <1>10, <1>11, <1>12, <1>13, <1>14, <1>15, <1>16, <1>17, <1>18 DEF IInv

\* The notification goroutine moves a notification, or loses it.
LEMMA NoticeKeeps ==
  ASSUME IInv, outbox' \cup notices' \subseteq outbox \cup notices,
         UNCHANGED <<accounts, requests, nextID, call>>, failures' \in 0 .. MaxFailures
  PROVE  IInv'
<1>1. \A p \in Calls : Holds(p)' <=> Holds(p)
  BY DEF Holds
<1>2. \A u, v : Pending(u, v)' = Pending(u, v)
  BY DEF Pending, Abstract!Pending
<1>3. TypeOK' /\ NoticesTrue'
  BY DEF IInv, TypeOK, NoticesTrue, IDs
<1>4. OnlyHeld' /\ HeldApart' /\ InsertsApart' /\ Unknown' /\ AskedBy' /\ PassedBy'
  BY <1>1, <1>2 DEF IInv, OnlyHeld, HeldApart, InsertsApart, Unknown, AskedBy, PassedBy
<1>5. HeldRows'
  BY <1>1, <1>2 DEF IInv, HeldRows, IDs
<1>6. BothWanted' /\ OnePending' /\ AnswersHold'
  BY <1>2 DEF IInv, BothWanted, OnePending, AnswersHold
<1>. QED
  BY <1>3, <1>4, <1>5, <1>6 DEF IInv

\* A transaction commits, and perhaps announces it.
LEMMA CommitKeeps ==
  ASSUME IInv, NEW p \in Calls, NEW answer \in {"ok", "error"}, Commits(p, answer),
         outbox' \subseteq outbox \cup Announced(p), notices' = notices, nextID' = nextID,
         failures' \in 0 .. MaxFailures
  PROVE  IInv'
<1> DEFINE does == call[p].does
           rows == call[p].rows
           u == call[p].user
           v == call[p].other
<1>1. TypeOK /\ Holds(p) /\ does \in {"insert", "accepted", "rejected", "delete"}
      /\ rows \in SUBSET Nat /\ u \in Users /\ v \in Users
  BY DEF IInv, TypeOK, CallType, Commits, Holds, OnlyHeld
<1>2. /\ \A q \in Calls \ {p} : call'[q] = call[q]
      /\ call'[p].step = "done" /\ call'[p].kind = call[p].kind
      /\ call'[p].user = u /\ call'[p].other = v
      /\ call'[p].does = does /\ call'[p].rows = rows
      /\ call'[p].answer = answer /\ call'[p].seen = call[p].seen
      /\ call' \in [Calls -> CallType]
  <2>1. call \in [Calls -> CallType]
    BY <1>1 DEF TypeOK
  <2>2. Becomes(p, "done", does, rows, answer)
    BY DEF Commits
  <2>3. call' \in [Calls -> CallType]
    BY <1>1, <2>2, BecomesTyped
  <2>. QED
    BY <1>1, <2>1, <2>2, <2>3 DEF Becomes
<1>3. \A q \in Calls : Holds(q)' <=> (q # p /\ Holds(q))
  BY <1>2 DEF Holds
<1>4. IDs' = IDs
  BY DEF IDs
<1>5. HeldRows!(p)
  BY <1>1 DEF IInv, HeldRows
\* What becomes of the table.
<1>6. /\ requests' \in [DOMAIN requests' -> Requests]
      /\ \A j \in DOMAIN requests' \ rows : j \in DOMAIN requests /\ requests'[j] = requests[j]
      /\ \A j \in DOMAIN requests \ rows : j \in DOMAIN requests'
      /\ does = "insert" => \A j \in rows :
            /\ j \in DOMAIN requests' /\ j \notin DOMAIN requests
            /\ requests'[j] = [from |-> u, to |-> v, status |-> "pending"]
      /\ does = "delete" => rows \cap DOMAIN requests' = {}
      /\ does \in {"accepted", "rejected"} => \A j \in rows :
            /\ j \in DOMAIN requests' /\ j \in DOMAIN requests
            /\ requests'[j].from = requests[j].from /\ requests'[j].to = requests[j].to
            /\ requests'[j].status = does
  <2>1. requests' = Changed(p) /\ requests \in [DOMAIN requests -> Requests]
    BY <1>1 DEF Commits, TypeOK
  <2>2. CASE does = "insert"
    BY <2>1, <2>2, <1>1, <1>5 DEF Changed, Requests, Status
  <2>3. CASE does = "delete"
    BY <2>1, <2>3 DEF Changed
  <2>4. CASE does \in {"accepted", "rejected"}
    BY <2>1, <2>4, <1>1, <1>5 DEF Changed, Requests, Status
  <2>. QED
    BY <1>1, <2>2, <2>3, <2>4
<1>7. \A j \in rows : does # "insert" => j \in DOMAIN requests
  BY <1>1, <1>5
<1>8. \A j \in rows : does # "insert" /\ call[p].kind # "forget" =>
         requests[j].status = "pending"
  BY <1>1, <1>5
<1>9. \A a, b : Pending(a, b)' \subseteq
         Pending(a, b) \cup (IF does = "insert" /\ a = u /\ b = v THEN rows ELSE {})
  BY <1>1, <1>6 DEF Pending, Abstract!Pending
<1>10. TypeOK'
  <2>1. DOMAIN requests' \subseteq IDs
    BY <1>1, <1>5, <1>6 DEF TypeOK
  <2>2. Announced(p) \subseteq NoticeType /\ \A n \in Announced(p) : n.about \in IDs
    BY <1>1, <1>5 DEF Announced, Notice, NoticeType, TypeOK, Requests
  <2>3. accounts' \subseteq Users
    BY <1>1 DEF Commits, TypeOK
  <2>. QED
    BY <1>1, <1>2, <1>4, <1>6, <2>1, <2>2, <2>3 DEF TypeOK
<1>11. OnlyHeld'
  BY <1>1, <1>2 DEF IInv, OnlyHeld
<1>12. HeldRows'
  <2> SUFFICES ASSUME NEW q \in Calls, q # p, Holds(q)
               PROVE  HeldRows!(q)'
    BY <1>3 DEF HeldRows
  <2>1. call[q].rows \cap rows = {}
    BY <1>1 DEF IInv, HeldApart
  <2>2. HeldRows!(q)
    BY DEF IInv, HeldRows
  <2>3. CASE call[q].does = "insert"
    <3>1. <<call[q].user, call[q].other>> # <<u, v>> \/ does # "insert"
      BY <1>1, <2>3 DEF IInv, InsertsApart
    <3>2. \A a, b : a = call[q].user /\ b = call[q].other => Pending(a, b)' = {}
      BY <3>1, <1>9, <2>2, <2>3
    <3>3. PICK i \in IDs : call[q].rows = {i} /\ i \notin DOMAIN requests
      BY <2>2, <2>3
    <3>4. i \notin DOMAIN requests'
      BY <3>3, <1>6, <2>1
    <3>. QED
      BY <3>2, <3>3, <3>4, <1>2, <1>4, <2>2, <2>3
  <2>4. CASE call[q].does # "insert"
    BY <1>2, <1>6, <2>1, <2>2, <2>4
  <2>. QED
    BY <2>3, <2>4
<1>13. HeldApart' /\ InsertsApart'
  BY <1>2, <1>3 DEF IInv, HeldApart, InsertsApart
<1>14. \A n \in Announced(p) : n.about \in rows
  BY DEF Announced, Notice
<1>15. Unknown'
  BY <1>1, <1>2, <1>3, <1>14 DEF IInv, Unknown, HeldApart
<1>16. AskedBy'
  <2> SUFFICES ASSUME NEW i \in DOMAIN requests'
               PROVE  AskedBy!(i)'
    BY DEF AskedBy
  <2>1. CASE does = "insert" /\ i \in rows
    BY <2>1, <1>2, <1>6
  <2>2. CASE ~ (does = "insert" /\ i \in rows)
    <3>1. i \in DOMAIN requests /\ requests'[i].from = requests[i].from
          /\ requests'[i].to = requests[i].to
      BY <2>2, <1>1, <1>6
    <3>. QED
      BY <3>1, <1>2 DEF IInv, AskedBy
  <2>. QED
    BY <2>1, <2>2
<1>17. PassedBy'
  BY <1>1, <1>2, <1>9 DEF IInv, PassedBy, Unknown
<1>18. BothWanted'
  <2> SUFFICES ASSUME NEW i \in DOMAIN requests', requests'[i].status = "accepted"
               PROVE  BothWanted!(i)!2'
    BY DEF BothWanted
  <2>1. i \in DOMAIN requests /\ requests'[i].from = requests[i].from
        /\ requests'[i].to = requests[i].to
    BY <1>1, <1>6
  <2>2. CASE i \in rows
    <3>1. does = "accepted" /\ requests[i].to = u
      BY <2>2, <1>1, <1>5, <1>6
    <3>. QED
      BY <2>1, <2>2, <3>1, <1>2 DEF IInv, AskedBy
  <2>3. CASE i \notin rows
    BY <2>1, <2>3, <1>2, <1>6 DEF IInv, BothWanted
  <2>. QED
    BY <2>2, <2>3
<1>19. OnePending'
  BY <1>1, <1>5, <1>9 DEF IInv, OnePending
<1>20. AnswersHold'
  <2>1. \A q \in Calls \ {p} : call[q].answer = "ok" /\ call[q].kind # "forget" =>
           /\ call[q].does \in {"accepted", "rejected"} =>
                \A i \in call[q].rows \cap DOMAIN requests' : requests'[i].status = call[q].does
           /\ call[q].does = "delete" => call[q].rows \cap DOMAIN requests' = {}
           /\ call[p].kind # "forget" /\ call[q].rows \cap rows # {} =>
                "insert" \in {does, call[q].does}
    <3> SUFFICES ASSUME NEW q \in Calls \ {p}, call[q].answer = "ok", call[q].kind # "forget"
                 PROVE  /\ call[q].does \in {"accepted", "rejected"} =>
                             \A i \in call[q].rows \cap DOMAIN requests' :
                                requests'[i].status = call[q].does
                        /\ call[q].does = "delete" => call[q].rows \cap DOMAIN requests' = {}
                        /\ call[p].kind # "forget" /\ call[q].rows \cap rows # {} =>
                             "insert" \in {does, call[q].does}
      OBVIOUS
    <3>1. does = "insert" => call[q].rows \cap rows = {}
      BY <1>1 DEF IInv, Unknown
    <3>2. /\ call[q].does \in {"accepted", "rejected"} =>
               \A i \in call[q].rows \cap DOMAIN requests : requests[i].status = call[q].does
          /\ call[q].does = "delete" => call[q].rows \cap DOMAIN requests = {}
      BY DEF IInv, AnswersHold
    <3>3. call[q].does = "delete" => call[q].rows \cap DOMAIN requests' = {}
      BY <3>1, <3>2, <1>1, <1>6
    <3>4. ASSUME call[q].does \in {"accepted", "rejected"},
                 NEW i \in call[q].rows \cap DOMAIN requests'
          PROVE  requests'[i].status = call[q].does
      <4>1. CASE i \notin rows
        BY <4>1, <3>2, <3>4, <1>6
      <4>2. CASE i \in rows
        <5>1. does \in {"accepted", "rejected"}
          BY <4>2, <3>1, <3>4, <1>1, <1>6
        <5>2. requests[i].status = "pending" /\ i \in DOMAIN requests
          BY <5>1, <4>2, <1>1, <1>5, <1>7, <1>8
        <5>. QED
          BY <5>2, <3>2, <3>4
      <4>. QED
        BY <4>1, <4>2
    <3>5. ASSUME call[p].kind # "forget", does # "insert", call[q].does # "insert",
                 NEW i \in call[q].rows \cap rows
          PROVE  FALSE
      <4>1. i \in DOMAIN requests /\ requests[i].status = "pending"
        BY <3>5, <1>7, <1>8
      <4>2. call[q].does \in {"none", "accepted", "rejected", "delete"}
        BY <3>5, <1>1 DEF TypeOK, CallType
      <4>3. call[q].does # "none"
        BY <3>5 DEF IInv, OnlyHeld
      <4>. QED
        BY <4>1, <4>2, <4>3, <3>2, <3>5
    <3>. QED
      BY <3>3, <3>4, <3>5
  <2>2. does \in {"accepted", "rejected"} =>
           \A i \in rows \cap DOMAIN requests' : requests'[i].status = does
    BY <1>6
  <2>3. does = "delete" => rows \cap DOMAIN requests' = {}
    BY <1>6
  <2> SUFFICES ASSUME NEW q \in Calls, call'[q].answer = "ok", call'[q].kind # "forget"
               PROVE  AnswersHold!(q)!2'
    BY DEF AnswersHold
  <2>4. CASE q = p
    BY <2>1, <2>2, <2>3, <2>4, <1>2
  <2>5. CASE q # p
    BY <2>1, <2>5, <1>2 DEF IInv, AnswersHold
  <2>. QED
    BY <2>4, <2>5
<1>21. NoticesTrue'
  <2> SUFFICES ASSUME NEW n \in outbox' \cup notices', n.about \in DOMAIN requests'
               PROVE  NoticesTrue!(n)!2'
    BY DEF NoticesTrue
  <2>1. CASE n \in outbox \cup notices
    <3>1. does = "insert" => n.about \notin rows
      BY <2>1, <1>1 DEF IInv, Unknown
    <3>2. n.about \in DOMAIN requests /\ requests'[n.about].from = requests[n.about].from
          /\ requests'[n.about].to = requests[n.about].to
      BY <3>1, <1>1, <1>6
    <3>3. /\ n.action = "accepted" => requests[n.about].status = "accepted"
          /\ n.to \in {requests[n.about].from, requests[n.about].to}
      BY <2>1, <3>2 DEF IInv, NoticesTrue
    <3>4. CASE n.about \notin rows
      BY <3>2, <3>3, <3>4, <1>6
    <3>5. CASE n.about \in rows
      <4>1. does \in {"accepted", "rejected"}
        BY <3>1, <3>5, <1>1, <1>6
      <4>2. requests[n.about].status = "pending"
        BY <4>1, <3>5, <1>1, <1>5, <1>8
      <4>. QED
        BY <4>2, <3>2, <3>3
    <3>. QED
      BY <3>4, <3>5
  <2>2. CASE n \in Announced(p)
    <3>1. CASE call[p].kind = "send" /\ does = "insert"
      <4>1. n.about \in rows /\ n.to = v /\ n.action = "received"
        BY <2>2, <3>1 DEF Announced, Notice
      <4>. QED
        BY <4>1, <3>1, <1>6
    <3>2. CASE call[p].kind = "send" /\ does = "accepted"
      <4>1. n.about \in rows /\ n.to = u
        BY <2>2, <3>2 DEF Announced, Notice
      <4>2. requests[n.about].to = u
        BY <4>1, <3>2, <1>1, <1>5
      <4>. QED
        BY <4>1, <4>2, <3>2, <1>6
    <3>3. CASE call[p].kind = "accept"
      <4>1. n.about \in rows /\ n.to = requests[n.about].from
        BY <2>2, <3>3 DEF Announced, Notice
      <4>2. does = "accepted"
        BY <3>3, <1>1, <1>5
      <4>. QED
        BY <4>1, <4>2, <1>6
    <3>. QED
      BY <2>2, <3>1, <3>2, <3>3 DEF Announced
  <2>. QED
    BY <2>1, <2>2
<1>. QED
  BY <1>10, <1>11, <1>12, <1>13, <1>15, <1>16, <1>17, <1>18, <1>19, <1>20, <1>21 DEF IInv

-----------------------------------------------------------------------------
(***************************************************************************)
(* One lemma per kind of call.                                             *)
(***************************************************************************)
\* A call begins.
LEMMA BeginInv == ASSUME IInv, NEW p \in Calls, Begin(p) PROVE IInv'
<1>0. TypeOK /\ failures \in 0 .. MaxFailures
  BY DEF IInv, TypeOK
<1>1. ASSUME NEW u \in Users, NEW v \in Users, BeginSend(p, u, v)
      PROVE  IInv'
  <2>1. u # v /\ Begins(p, "send", u, v, 0, "reverse")
    BY <1>1 DEF BeginSend
  <2>. QED
    BY <2>1, <1>0, BeginsCall, QuietKeeps
<1>2. ASSUME NEW kind \in {"accept", "reject", "cancel"}, NEW u \in Users,
             NEW id \in 1 .. nextID - 1, BeginAnswer(p, kind, u, id)
      PROVE  IInv'
  <2> DEFINE step == IF kind = "accept" THEN "exists" ELSE "answer"
  <2>1. Begins(p, kind, u, u, id, step) /\ id \in Nat
    BY <1>0, <1>2 DEF BeginAnswer, TypeOK
  <2>. QED
    BY <2>1, <1>0, BeginsCall, QuietKeeps
<1>3. ASSUME NEW u \in Users, BeginForget(p, u)
      PROVE  IInv'
  <2>1. Begins(p, "forget", u, u, 0, "forget")
    BY <1>3 DEF BeginForget
  <2>. QED
    BY <2>1, <1>0, BeginsCall, QuietKeeps
<1>. QED
  BY <1>1, <1>2, <1>3 DEF Begin

\* A call is refused or fails: it ends without effect.
LEMMA EndsInv ==
  ASSUME IInv, NEW p \in Calls, call[p].step \notin {"idle", "done"},
         NEW answer \in {"conflict", "notfound", "forbidden", "error"}, EndsWith(p, answer),
         UNCHANGED <<accounts, requests, outbox, notices>>,
         nextID' \in {nextID, nextID + 1}, failures' \in 0 .. MaxFailures
  PROVE  IInv'
<1>1. TypeOK
  BY DEF IInv
<1>2. /\ \A q \in Calls \ {p} : call'[q] = call[q]
      /\ call'[p].step = "done" /\ call'[p].kind = call[p].kind
      /\ call'[p].user = call[p].user /\ call'[p].other = call[p].other
      /\ call'[p].does = "none" /\ call'[p].rows = {}
      /\ call'[p].answer = answer /\ call'[p].seen = call[p].seen
      /\ call' \in [Calls -> CallType]
  <2>1. call \in [Calls -> CallType]
    BY <1>1 DEF TypeOK
  <2>2. call' \in [Calls -> CallType]
    BY <1>1, BecomesTyped DEF EndsWith
  <2>. QED
    BY <1>1, <2>1, <2>2 DEF EndsWith, Becomes
<1>3. call[p].user \in Users /\ call[p].other \in Users
      /\ (call[p].kind = "send" => call[p].user # call[p].other)
  BY DEF IInv, TypeOK, OnlyHeld
<1>. QED
  BY <1>2, <1>3, QuietKeeps

\* A call goes on to its next statement.
LEMMA GoesInv ==
  ASSUME IInv, NEW p \in Calls, NEW step \in {"insert", "answer"}, Goes(p, step),
         \/ step = "insert" /\ call[p].step = "reverse"
            /\ Pending(call[p].other, call[p].user) = {}
         \/ step = "answer" /\ call[p].step = "exists",
         UNCHANGED <<accounts, requests, nextID, outbox, notices, failures>>
  PROVE  IInv'
<1>1. TypeOK /\ failures \in 0 .. MaxFailures
  BY DEF IInv, TypeOK
<1>2. /\ \A q \in Calls \ {p} : call'[q] = call[q]
      /\ call'[p].step = step /\ call'[p].kind = call[p].kind
      /\ call'[p].user = call[p].user /\ call'[p].other = call[p].other
      /\ call'[p].does = "none" /\ call'[p].rows = {}
      /\ call'[p].answer = "none" /\ call'[p].seen = call[p].seen
      /\ call' \in [Calls -> CallType]
  <2>1. call \in [Calls -> CallType]
    BY <1>1 DEF TypeOK
  <2>2. call' \in [Calls -> CallType]
    BY <1>1, BecomesTyped DEF Goes
  <2>. QED
    BY <1>1, <2>1, <2>2 DEF Goes, Becomes
<1>3. /\ call[p].user \in Users /\ call[p].other \in Users
      /\ call[p].kind = "send" => call[p].user # call[p].other
      /\ call[p].step = "reverse" => call[p].kind = "send"
      /\ call[p].step = "exists" => call[p].kind \in {"accept", "reject", "cancel"}
  BY DEF IInv, TypeOK, OnlyHeld
<1>. QED
  BY <1>1, <1>2, <1>3, QuietKeeps

\* AcceptReverse.
LEMMA AcceptReverseInv == ASSUME IInv, NEW p \in Calls, AcceptReverse(p) PROVE IInv'
<1> DEFINE found == Pending(call[p].other, call[p].user)
<1>1. /\ call[p].step = "reverse" /\ Free(p, found)
      /\ IF found = {} THEN Goes(p, "insert") ELSE Writes(p, "accepted", found)
      /\ UNCHANGED <<accounts, requests, nextID, outbox, notices, failures>>
  BY DEF AcceptReverse, AcceptsOrGoesOn
<1>2. CASE found = {}
  BY <1>1, <1>2, GoesInv
<1>3. CASE found # {}
  <2>1. PICK i \in found : TRUE
    BY <1>3
  <2>2. call[p].kind = "send" /\ call[p].user \in Users /\ call[p].other \in Users /\ TypeOK
    BY <1>1 DEF IInv, OnlyHeld, TypeOK
  <2>3. found = {i}
    BY <2>1, <2>2 DEF IInv, OnePending
  <2>4. found \subseteq DOMAIN requests /\ found \in SUBSET Nat
    BY <2>2 DEF Pending, Abstract!Pending, TypeOK, IDs
  <2>5. i \in DOMAIN requests /\ requests[i].status = "pending" /\ requests[i].to = call[p].user
    BY <2>1 DEF Pending, Abstract!Pending
  <2>6. call'[p].does = "accepted" /\ call'[p].rows = {i} /\ call'[p].kind = "send"
        /\ call'[p].user = call[p].user
    BY <1>1, <1>3, <2>2, <2>3, <2>4, WritesCall
  <2>7. HeldRows!(p)'
    BY <1>1, <2>5, <2>6
  <2>. QED
    BY <1>1, <1>3, <2>4, <2>7, HoldKeeps
<1>. QED
  BY <1>2, <1>3

\* InsertRequest.
LEMMA InsertRequestInv == ASSUME IInv, NEW p \in Calls, InsertRequest(p) PROVE IInv'
<1>1. /\ call[p].step = "insert" /\ KeyFree(p, call[p].user, call[p].other)
      /\ IF Pending(call[p].user, call[p].other) # {}
         THEN EndsWith(p, "conflict") ELSE Writes(p, "insert", {nextID})
      /\ nextID' = nextID + 1
      /\ UNCHANGED <<accounts, requests, outbox, notices, failures>>
  BY DEF InsertRequest, Inserts
<1>2. TypeOK /\ failures \in 0 .. MaxFailures /\ nextID \in Nat
  BY DEF IInv, TypeOK
<1>3. CASE Pending(call[p].user, call[p].other) # {}
  BY <1>1, <1>2, <1>3, EndsInv
<1>4. CASE Pending(call[p].user, call[p].other) = {}
  <2>1. call'[p].does = "insert" /\ call'[p].rows = {nextID} /\ call'[p].kind = call[p].kind
        /\ call'[p].user = call[p].user /\ call'[p].other = call[p].other
    BY <1>1, <1>2, <1>4, WritesCall
  <2>2. call[p].kind = "send"
    BY <1>1 DEF IInv, OnlyHeld
  <2>3. nextID \in IDs' /\ nextID \notin DOMAIN requests
    BY <1>1, <1>2 DEF TypeOK, IDs
  <2>4. \A u, v : Pending(u, v)' = Pending(u, v)
    BY <1>1 DEF Pending, Abstract!Pending
  <2>5. HeldRows!(p)'
    BY <1>1, <1>4, <2>1, <2>2, <2>3, <2>4
  <2>. QED
    BY <1>1, <1>2, <1>4, <2>5, HoldKeeps
<1>. QED
  BY <1>3, <1>4

\* Answer.
LEMMA AnswerInv == ASSUME IInv, NEW p \in Calls, Answer(p) PROVE IInv'
<1> DEFINE found == {call[p].id} \cap Answerable(call[p].kind, call[p].user)
           kind == call[p].kind
<1>1. /\ call[p].step = "answer" /\ Free(p, found)
      /\ IF found = {} THEN EndsWith(p, IF kind = "accept" THEN "forbidden" ELSE "notfound")
                       ELSE Writes(p, Effect(kind), found)
      /\ UNCHANGED <<accounts, requests, nextID, outbox, notices, failures>>
  BY DEF Answer, Answers
<1>2. TypeOK /\ failures \in 0 .. MaxFailures /\ kind \in {"accept", "reject", "cancel"}
  BY <1>1 DEF IInv, TypeOK, OnlyHeld
<1>3. CASE found = {}
  BY <1>1, <1>2, <1>3, EndsInv
<1>4. CASE found # {}
  <2> DEFINE i == call[p].id
  <2>1. found = {i} /\ i \in DOMAIN requests /\ requests[i].status = "pending"
        /\ (kind # "cancel" => requests[i].to = call[p].user)
    BY <1>4 DEF Answerable
  <2>2. found \in SUBSET Nat /\ found \subseteq DOMAIN requests
    BY <2>1, <1>2 DEF TypeOK, IDs
  <2>3. Effect(kind) \in {"accepted", "rejected", "delete"}
        /\ (kind = "accept" => Effect(kind) = "accepted")
        /\ (Effect(kind) = "accepted" => kind = "accept")
    BY <1>2 DEF Effect
  <2>4. call'[p].does = Effect(kind) /\ call'[p].rows = {i} /\ call'[p].kind = kind
        /\ call'[p].user = call[p].user
    BY <1>1, <1>2, <1>4, <2>1, <2>2, <2>3, WritesCall
  <2>5. HeldRows!(p)'
    BY <1>1, <1>2, <2>1, <2>3, <2>4
  <2>. QED
    BY <1>1, <1>4, <2>2, <2>3, <2>5, HoldKeeps
<1>. QED
  BY <1>3, <1>4

\* ForgetRequests.
LEMMA ForgetInv == ASSUME IInv, NEW p \in Calls, ForgetRequests(p) PROVE IInv'
<1> DEFINE found == {i \in DOMAIN requests : call[p].user \in {requests[i].from, requests[i].to}}
<1>1. /\ call[p].step = "forget" /\ Free(p, found) /\ Writes(p, "delete", found)
      /\ UNCHANGED <<accounts, requests, nextID, outbox, notices, failures>>
  BY DEF ForgetRequests
<1>2. TypeOK /\ call[p].kind = "forget"
  BY <1>1 DEF IInv, OnlyHeld
<1>3. found \in SUBSET Nat /\ found \subseteq DOMAIN requests
  BY <1>2 DEF TypeOK, IDs
<1>4. \A i \in found : call[p].user \in {requests[i].from, requests[i].to}
  OBVIOUS
<1> HIDE DEF found
<1>5. call'[p].does = "delete" /\ call'[p].rows = found /\ call'[p].kind = "forget"
      /\ call'[p].user = call[p].user
  BY <1>1, <1>2, <1>3, WritesCall
<1>6. HeldRows!(p)'
  BY <1>1, <1>3, <1>4, <1>5
<1>. QED
  BY <1>1, <1>3, <1>6, HoldKeeps

\* Every step keeps IInv.
LEMMA StepInv == IInv /\ [Next]_vars => IInv'
<1> SUFFICES ASSUME IInv, [Next]_vars PROVE IInv'
  OBVIOUS
<1>0. TypeOK /\ failures \in 0 .. MaxFailures /\ nextID \in Nat
  BY DEF IInv, TypeOK
<1>1. ASSUME NEW p \in Calls, Begin(p) PROVE IInv'
  BY <1>1, BeginInv
<1>2. ASSUME NEW p \in Calls, AcceptReverse(p) PROVE IInv'
  BY <1>2, AcceptReverseInv
<1>3. ASSUME NEW p \in Calls, InsertRequest(p) PROVE IInv'
  BY <1>3, InsertRequestInv
<1>4. ASSUME NEW p \in Calls, CheckExists(p) PROVE IInv'
  BY <1>0, <1>4, GoesInv, EndsInv DEF CheckExists
<1>5. ASSUME NEW p \in Calls, Answer(p) PROVE IInv'
  BY <1>5, AnswerInv
<1>6. ASSUME NEW p \in Calls, ForgetRequests(p) PROVE IInv'
  BY <1>6, ForgetInv
<1>7. ASSUME NEW p \in Calls, Commit(p) PROVE IInv'
  BY <1>0, <1>7, CommitKeeps DEF Commit
<1>8. ASSUME NEW p \in Calls, CommitUnheard(p) PROVE IInv'
  <2>1. failures' \in 0 .. MaxFailures
    BY <1>0, <1>8 DEF CommitUnheard
  <2>. QED
    BY <1>8, <2>1, CommitKeeps DEF CommitUnheard
<1>9. ASSUME NEW p \in Calls, Fail(p) PROVE IInv'
  <2>1. failures' \in 0 .. MaxFailures
    BY <1>0, <1>9 DEF Fail
  <2>. QED
    BY <1>9, <2>1, EndsInv DEF Fail, InFlight
<1>10. ASSUME NEW n \in outbox, StoreNotice(n) PROVE IInv'
  BY <1>0, <1>10, NoticeKeeps DEF StoreNotice
<1>11. ASSUME NEW n \in outbox, LoseNotice(n) PROVE IInv'
  BY <1>0, <1>11, NoticeKeeps DEF LoseNotice
<1>12. CASE UNCHANGED vars
  BY <1>0, <1>12, NoticeKeeps DEF vars
<1>. QED
  BY <1>1, <1>2, <1>3, <1>4, <1>5, <1>6, <1>7, <1>8, <1>9, <1>10, <1>11, <1>12 DEF Next, Proceed

-----------------------------------------------------------------------------
\* The inductive invariant: row locks and the unique index keep calls apart.
THEOREM Invariance == Spec => []IInv
  BY InitInv, StepInv, PTL DEF Spec

\* The variables keep their types.
THEOREM TypeCorrect == Spec => []TypeOK
  BY Invariance, PTL DEF IInv

\* At most one request is open from one user to another.
THEOREM OneOpenRequest == Spec => []OnePending
  BY Invariance, PTL DEF IInv

\* What a caller was told of its answer holds for good.
THEOREM AnswersStand == Spec => []AnswersHold
  BY Invariance, PTL DEF IInv

\* Friends both wanted to be.
THEOREM FriendsByConsent == Spec => []BothWanted
  BY Invariance, PTL DEF IInv

\* Notifications are true.
THEOREM NoticesAreTrue == Spec => []NoticesTrue
  BY Invariance, PTL DEF IInv

\* Requests that cross are both open only if the calls overlapped.
THEOREM NoCrossingMissed == Spec => []CrossingAccepted
<1>1. IInv => CrossingAccepted
  <2> SUFFICES ASSUME IInv, NEW p \in Calls, call[p].does = "insert"
               PROVE  Pending(call[p].other, call[p].user) \cap call[p].seen = {}
    BY DEF CrossingAccepted
  <2>. QED
    BY DEF IInv, PassedBy
<1>. QED
  BY <1>1, Invariance, PTL

-----------------------------------------------------------------------------
(***************************************************************************)
(* Friends implements Friendship: a commit is the abstract step.           *)
(***************************************************************************)
\* A commit asks, settles, withdraws or forgets.
LEMMA CommitStep ==
  ASSUME IInv, NEW p \in Calls, NEW answer \in {"ok", "error"}, Commits(p, answer)
  PROVE  [Abstract!Next]_requests
<1> DEFINE rows == call[p].rows
<1>1. /\ TypeOK /\ call[p].step = "commit" /\ requests' = Changed(p)
      /\ call[p].user \in Users /\ call[p].other \in Users
      /\ call[p].does \in {"insert", "accepted", "rejected", "delete"}
      /\ call[p].kind = "send" => call[p].user # call[p].other
  BY DEF IInv, TypeOK, CallType, Commits, OnlyHeld
<1>2. HeldRows!(p) /\ Holds(p)
  BY <1>1 DEF IInv, HeldRows, Holds
<1>3. CASE call[p].does = "insert"
  <2>1. PICK i \in IDs : rows = {i} /\ i \notin DOMAIN requests
    BY <1>2, <1>3
  <2>2. Pending(call[p].user, call[p].other) = {} /\ call[p].kind = "send"
    BY <1>2, <1>3
  <2>3. requests' = [j \in DOMAIN requests \cup {i} |->
            IF j = i THEN [from |-> call[p].user, to |-> call[p].other, status |-> "pending"]
                     ELSE requests[j]]
    BY <1>1, <1>3, <2>1 DEF Changed
  <2>4. Abstract!Ask(call[p].user, call[p].other, i)
    BY <1>1, <2>1, <2>2, <2>3 DEF Abstract!Ask, Pending
  <2>5. i \in DOMAIN requests' \ DOMAIN requests
    BY <2>1, <2>3
  <2>. QED
    BY <1>1, <2>4, <2>5 DEF Abstract!Next
<1>4. CASE call[p].does = "delete" /\ call[p].kind = "forget"
  <2>1. rows \in SUBSET DOMAIN requests /\ Abstract!Forget(call[p].user, rows)
    BY <1>1, <1>2, <1>4 DEF Changed, Abstract!Forget, Abstract!Remove
  <2>. QED
    BY <1>1, <2>1 DEF Abstract!Next
<1>5. CASE call[p].does \in {"accepted", "rejected", "delete"} /\ call[p].kind # "forget"
  <2>1. PICK i \in DOMAIN requests : rows = {i} /\ requests[i].status = "pending"
    BY <1>2, <1>5
  <2>2. CASE call[p].does = "delete"
    <3>1. Abstract!Withdraw(i)
      BY <1>1, <2>1, <2>2 DEF Changed, Abstract!Withdraw, Abstract!Remove
    <3>. QED
      BY <3>1 DEF Abstract!Next
  <2>3. CASE call[p].does \in {"accepted", "rejected"}
    <3>1. requests' = [j \in DOMAIN requests |->
              IF j = i THEN [from |-> requests[j].from, to |-> requests[j].to,
                             status |-> call[p].does]
                       ELSE requests[j]]
      BY <1>1, <2>1, <2>3 DEF Changed
    <3>2. Abstract!Settle(i, call[p].does)
      BY <2>1, <3>1 DEF Abstract!Settle
    <3>. QED
      BY <2>3, <3>2 DEF Abstract!Next
  <2>. QED
    BY <1>5, <2>2, <2>3
<1>6. CASE call[p].kind = "forget" /\ call[p].does # "delete"
  BY <1>2, <1>6, <1>1
<1>. QED
  BY <1>1, <1>3, <1>4, <1>5, <1>6

\* Concurrent calls behave as if each ran by itself.
THEOREM Refinement == Spec => Serialised
<1>1. Init => Abstract!Init
  BY DEF Init, Abstract!Init
<1>2. IInv /\ [Next]_vars => [Abstract!Next]_requests
  <2> SUFFICES ASSUME IInv, [Next]_vars, requests' # requests
               PROVE  [Abstract!Next]_requests
    OBVIOUS
  <2>1. \E p \in Calls : Commits(p, "ok") \/ Commits(p, "error")
    BY DEF Next, vars, Begin, BeginSend, BeginAnswer, BeginForget, Begins, Proceed, AcceptReverse,
       AcceptsOrGoesOn, InsertRequest, Inserts, CheckExists, Answer, Answers, ForgetRequests,
       Commit, CommitUnheard, Fail, StoreNotice, LoseNotice
  <2>. QED
    BY <2>1, CommitStep
<1>. QED
  BY <1>1, <1>2, Invariance, PTL DEF Spec, Serialised, Abstract!Spec
==============================================================================
