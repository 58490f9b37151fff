---------------------------- MODULE MessagingProofs ----------------------------
(***************************************************************************)
(* Proofs about Messaging, for any number of requests, client_msg_ids,     *)
(* identifiers and failures; about its readers (Polling), for pages of any *)
(* size, any number of messages and any interleaving of readers and        *)
(* requests; and about Addressing, for public ids of any length and        *)
(* alphabet.                                                               *)
(***************************************************************************)
EXTENDS Addressing, FiniteSetTheorems, FunctionTheorems, SequenceTheorems, TLAPS

\* A request has an identifier, but has not stored anything yet.
Pending(r) ==
    req[r].pc \in {"permission", "friends", "exists", "join", "joinOther", "idem", "cache",
                   "show", "commit"}

\* The statement a request is at fits what it is and what it carries.
PcFits(r) ==
    /\ r \in Sends => req[r].pc \notin {"blank", "notice", "show"}
    /\ r \in Recalls => req[r].pc \in {"idle", "blank", "notice", "show", "commit", "done"}
    /\ req[r].pc # "idle" => req[r].user \in Users
    /\ req[r].pc \in {"check", "reset"} => Keyed(r)
    /\ req[r].record => Keyed(r) /\ req[r].pc \in {"cache", "commit"}
    /\ req[r].shown => req[r].pc = "commit"
    /\ req[r].pc # "done" => req[r].answer = "none"
    /\ req[r].pc \in {"idle", "check", "generate", "blank", "notice"} => req[r].id = Nothing
    /\ Pending(r) => req[r].id \in used \ DOMAIN messages

\* The identifiers that are pending differ.
IdsDiffer ==
    \A r, s \in Requests : r # s /\ Pending(r) /\ Pending(s) => req[r].id # req[s].id

\* A recall goes for a message of its user, and shows that message in the list if
\* the list has it.
RecallFits(r) ==
    /\ InFlight(r) => /\ req[r].target \in DOMAIN messages
                      /\ messages[req[r].target].from = req[r].user
                      /\ messages[req[r].target].of = Nothing
    /\ req[r].pc = "commit" => (req[r].shown <=> cache.id = req[r].target)

\* Only a recalled message or a notice is shown as recalled; the list names a
\* message that is there; one transaction at a time holds it.
ListFits ==
    /\ \A m \in DOMAIN messages : messages[m].of # Nothing => messages[m].recalled
    /\ \A r, s \in CacheHeld : r = s

\* A send inserts the rows that are missing, and holds the accounts they refer to.
JoinFits(r) ==
    /\ req[r].joins \cap deleted = {}
    /\ req[r].pc = "joinOther" =>
          req[r].user \in req[r].joins \/ participants = Users \ deleted
    /\ req[r].pc \in {"idem", "cache", "commit"} =>
          participants \cup req[r].joins = Users \ deleted

\* A send of u with the key k, which ended or is about to, has stored the message id.
Carries(s, u, k, id) ==
    /\ req[s].pc \in {"reset", "done"} /\ req[s].answer # "duplicate"
    /\ req[s].id = id /\ req[s].user = u /\ req[s].key = k

\* An idempotency record names the message of a send that had its key.
RecordNames(u, k) ==
    /\ idem[<<u, k>>] \in DOMAIN messages /\ messages[idem[<<u, k>>]].from = u
    /\ \E s \in Sends : Carries(s, u, k, idem[<<u, k>>])

\* A record that holds an identifier, as SendMessage's check reads it, was completed by a send
\* that committed its message.
RecordsName == \A u \in Users, k \in Keys : idem[<<u, k>>] > 0 => RecordNames(u, k)

\* While no COMMIT has failed and no record is gone, a key that was answered stays
\* answered, and whoever begins after that does not get past the check.
Undisturbed == commitErrors = 0 /\ expired = 0

\* The record of a request past the check is there and, once its message is committed,
\* completed; who began after that stands at the check or was answered "duplicate".
KeyFits(r) ==
    /\ req[r].pc # "reset"
    /\ Keyed(r) /\ req[r].pc \notin {"idle", "check", "done"} => idem[Key(r)] # Absent
    /\ Keyed(r) /\ req[r].pc \in {"cache", "commit"} => req[r].record
    /\ Keyed(r) /\ Answered(r) => idem[Key(r)] > 0
    /\ Keyed(r) /\ req[r].late =>
          /\ idem[Key(r)] > 0 /\ req[r].pc \in {"check", "done"}
          /\ req[r].pc = "done" /\ req[r].id # Nothing => req[r].answer = "duplicate"

\* The parts of the inductive invariant.
BoundsOK == commitErrors \in Nat /\ expired \in Nat
PcsFit == \A r \in Requests : PcFits(r)
RecallsFit == \A r \in Recalls : RecallFits(r)
JoinsFit == \A r \in Sends : JoinFits(r)
KeysFit == Undisturbed => \A r \in Sends : KeyFits(r)

\* The inductive invariant: what each request carries agrees with its statement and with the
\* tables, and the identifiers that are not committed yet are held by one request each.
IInv ==
    /\ TypeOK /\ BoundsOK /\ JoinTogether /\ IdsDiffer /\ ListFits /\ RecordsName
    /\ PcsFit /\ RecallsFit /\ JoinsFit /\ AnswersNameMessages /\ KeysFit

-----------------------------------------------------------------------------
(***************************************************************************)
(* Users, and what a request carries after a step.                         *)
(***************************************************************************)
\* Each of the two users has another one to write to.
LEMMA OtherUser ==
    ASSUME NEW u \in Users
    PROVE  Other(u) \in Users /\ Other(u) # u /\ Users = {u, Other(u)}
<1>1. PICK v \in Users : v # u /\ Users = {u, v}
   BY MessagingAssumption
<1>2. QED
   BY <1>1 DEF Other

\* Nothing is no identifier.
LEMMA Zero == Nothing = 0 /\ Nothing \notin Ids /\ Ids \subseteq Nat
BY MessagingAssumption DEF Nothing, Conv!Nothing

\* A step of the request r: no other request, and none of its constants, changes.
StepOf(r) ==
    /\ req' \in [Requests -> Request]
    /\ \A s \in Requests : s # r => req'[s] = req[s]

\* It does not touch the tables, except that it may reserve an idempotency record,
\* or set it back after an error; the identifiers used and the errors only grow.
Quiet ==
    /\ UNCHANGED <<messages, cache, participants, blocked, deleted>>
    /\ idem' \in [Users \X Keys -> Ids \cup {Absent, 0}]
    /\ \A uk \in Users \X Keys :
          idem'[uk] = idem[uk] \/ (idem[uk] = Absent /\ idem'[uk] = 0)
             \/ (~ Undisturbed' /\ idem'[uk] \in {Absent, 0})
    /\ used \subseteq used' /\ used' \subseteq Ids
    /\ commitErrors' \in Nat /\ expired' \in Nat
    /\ Undisturbed' => Undisturbed

\* What the request has become fits.
Fits(r) ==
    /\ PcFits(r)
    /\ r \in Recalls => RecallFits(r)
    /\ r \in Sends => JoinFits(r)
    /\ r \in Sends /\ Undisturbed => KeyFits(r)

\* Neither the identifier nor the lock it may have got is another's.
Alone(r) ==
    /\ \A s \in Requests : s # r /\ Pending(s) /\ Pending(r) => req[s].id # req[r].id
    /\ r \in CacheHeld => CacheHeld \ {r} = {}

\* A message that is stored names its sender; so does the record it is in.
Names(r) ==
    r \in Sends /\ Answered(r) =>
        /\ req[r].id \in DOMAIN messages /\ messages[req[r].id].from = req[r].user
        /\ \E s \in Sends : /\ req[s].id = req[r].id /\ Key(s) = Key(r)
                            /\ req[s].answer # "duplicate"

\* A step of one request that writes no message keeps the invariant, if what the request has
\* become fits and nobody else has its identifier or its lock.
LEMMA LocalStep ==
    ASSUME IInv, NEW r \in Requests, StepOf(r), Quiet, Fits(r)', Alone(r)', Names(r)',
           req[r].pc # "done",
           req[r].pc = "reset" => /\ req'[r].pc = "done" /\ req'[r].answer = "error"
                                  /\ req'[r].id = req[r].id
                                  /\ req'[r].user = req[r].user /\ req'[r].key = req[r].key
    PROVE  IInv'
<1>1. TypeOK'
   BY DEF IInv, TypeOK, StepOf, Quiet
<1>2. BoundsOK' /\ JoinTogether'
   BY DEF IInv, BoundsOK, JoinTogether, Quiet
<1>3. IdsDiffer'
   BY DEF IInv, IdsDiffer, StepOf, Alone, Pending
<1>4. ListFits'
   <2>1. \A m \in DOMAIN messages' : messages'[m].of # Nothing => messages'[m].recalled
      BY DEF IInv, ListFits, Quiet
   <2>2. CacheHeld' \subseteq CacheHeld \cup {r}
      BY DEF CacheHeld, StepOf, Requests
   <2>3. ASSUME NEW s \in CacheHeld', NEW t \in CacheHeld'
         PROVE  s = t
      BY <2>2 DEF IInv, ListFits, Alone
   <2>4. QED
      BY <2>1, <2>3 DEF ListFits
<1>5. RecordsName'
   <2>1. messages' = messages
      BY DEF Quiet
   <2>2. ASSUME NEW u \in Users, NEW k \in Keys, idem'[<<u, k>>] > 0
         PROVE  RecordNames(u, k)'
      <3>0. idem'[<<u, k>>] = idem[<<u, k>>]
         BY <2>2 DEF Quiet, Absent
      <3>1. RecordNames(u, k)
         BY <3>0, <2>2 DEF IInv, RecordsName
      <3>2. PICK s \in Sends : Carries(s, u, k, idem[<<u, k>>])
         BY <3>1 DEF RecordNames
      <3>3. Carries(s, u, k, idem[<<u, k>>])'
         BY <3>0, <3>2 DEF StepOf, Requests, Carries
      <3>4. QED
         BY <2>1, <3>0, <3>1, <3>3 DEF RecordNames
   <2>3. QED
      BY <2>2 DEF RecordsName
<1>6. PcsFit'
   BY DEF IInv, PcsFit, Fits, PcFits, StepOf, Quiet, Pending, Keyed
<1>7. RecallsFit'
   BY DEF IInv, RecallsFit, Fits, RecallFits, StepOf, Quiet, InFlight, Requests
<1>8. JoinsFit'
   BY DEF IInv, JoinsFit, Fits, JoinFits, StepOf, Quiet, Requests
<1>9. AnswersNameMessages'
   <2>1. ASSUME NEW s \in Sends, s # r, Answered(s)'
         PROVE  /\ req'[s].id \in DOMAIN messages /\ messages[req'[s].id].from = req'[s].user
                /\ \E t \in Sends : /\ req'[t].id = req'[s].id
                                    /\ req'[t].user = req'[s].user /\ req'[t].key = req'[s].key
                                    /\ req'[t].answer # "duplicate"
      <3>1. req'[s] = req[s] /\ Answered(s)
         BY <2>1 DEF StepOf, Requests, Answered
      <3>2. PICK t \in Sends : /\ req[t].id = req[s].id /\ Key(t) = Key(s)
                               /\ req[t].answer # "duplicate"
         BY <3>1 DEF IInv, AnswersNameMessages
      <3>3. req[s].id \in DOMAIN messages /\ messages[req[s].id].from = req[s].user
         BY <3>1 DEF IInv, AnswersNameMessages
      <3>4. req[t].user = req[s].user /\ req[t].key = req[s].key
         BY <3>2 DEF Key
      <3>5. t = r => req[r].pc = "reset"
         BY <3>2, <3>3, Zero DEF IInv, PcsFit, PcFits, TypeOK, Pending,
            Request, Labels
      <3>6. /\ req'[t].id = req[t].id /\ req'[t].user = req[t].user
            /\ req'[t].key = req[t].key /\ req'[t].answer # "duplicate"
         BY <3>2, <3>5 DEF StepOf, Requests
      <3>7. QED
         BY <3>1, <3>2, <3>3, <3>4, <3>6
   <2>2. QED
      BY <2>1 DEF AnswersNameMessages, Names, Quiet, Key
<1>10. KeysFit'
   <2>1. SUFFICES ASSUME Undisturbed', NEW s \in Sends, s # r
                  PROVE  KeyFits(s)'
      BY DEF KeysFit, Fits
   <2>2. req'[s] = req[s] /\ KeyFits(s) /\ PcFits(s)
      BY <2>1 DEF IInv, KeysFit, PcsFit, StepOf, Quiet, Requests
   <2>3. CASE ~ Keyed(s)
      BY <2>2, <2>3 DEF KeyFits, Keyed
   <2>4. CASE req[s].pc = "idle"
      BY <2>2, <2>4 DEF KeyFits, PcFits, Keyed, Answered
   <2>5. CASE Keyed(s) /\ req[s].pc # "idle"
      <3>1. Key(s) \in Users \X Keys
         BY <2>2, <2>5 DEF PcFits, Keyed, Key
      <3>2. /\ idem[Key(s)] > 0 => idem'[Key(s)] > 0
            /\ idem[Key(s)] # Absent => idem'[Key(s)] # Absent
         BY <2>1, <3>1 DEF Quiet, Absent
      <3>3. QED
         BY <2>2, <3>2 DEF KeyFits, Keyed, Key, Answered
   <2>6. QED
      BY <2>3, <2>4, <2>5
<1>11. QED
   BY <1>1, <1>2, <1>3, <1>4, <1>5, <1>6, <1>7, <1>8, <1>9, <1>10 DEF IInv

\* A step that leaves the tables and the bounds alone is quiet.
LEMMA QuietSteps ==
    ASSUME IInv, UNCHANGED <<table, bounds>>, used \subseteq used', used' \subseteq Ids
    PROVE  Quiet
<1>1. /\ UNCHANGED <<messages, cache, participants, blocked, deleted>>
      /\ idem' = idem /\ commitErrors' = commitErrors /\ expired' = expired
   BY DEF table, bounds
<1>2. idem \in [Users \X Keys -> Ids \cup {Absent, 0}]
   BY DEF IInv, TypeOK
<1>3. commitErrors \in Nat /\ expired \in Nat
   BY DEF IInv, BoundsOK
<1>4. Undisturbed' => Undisturbed
   BY <1>1 DEF Undisturbed
<1>5. QED
   BY <1>1, <1>2, <1>3, <1>4 DEF Quiet

-----------------------------------------------------------------------------
(***************************************************************************)
(* The statements of a send that leave its transaction open, or end it     *)
(* without a write.                                                        *)
(***************************************************************************)
\* SendMessage begins: with a client_msg_id it goes to the check, and remembers whether the key
\* was answered already.
LEMMA BeginSendKeeps ==
    ASSUME IInv, NEW r \in Sends, NEW u \in Users, NEW k \in Keys \cup {NoKey},
           BeginSend(r, u, k)
    PROVE  IInv'
<1>0. r \in Requests /\ r \notin Recalls
   BY MessagingAssumption DEF Requests
<1>1. /\ StepOf(r)
      /\ req'[r].pc = (IF k = NoKey THEN "generate" ELSE "check")
      /\ req'[r].user = u /\ req'[r].key = k /\ req'[r].id = Nothing
      /\ req'[r].answer = "none" /\ req'[r].joins = {}
      /\ req'[r].record = FALSE /\ req'[r].shown = FALSE
      /\ req'[r].late = (\E s \in Sends : Key(s) = <<u, k>> /\ Answered(s))
   BY <1>0 DEF BeginSend, Begins, StepOf, IInv, TypeOK, Request, Labels, Answers
<1>2. Quiet
   BY QuietSteps DEF BeginSend, IInv, TypeOK
<1>3. PcFits(r)'
   BY <1>1, MessagingAssumption DEF PcFits, Keyed, Pending
<1>4. JoinFits(r)'
   BY <1>1 DEF JoinFits
<1>5. ASSUME Undisturbed'
      PROVE  KeyFits(r)'
   <2>1. Key(r)' = <<u, k>>
      BY <1>1 DEF Key
   <2>2. idem' = idem
      BY DEF BeginSend, table
   <2>3. ASSUME k \in Keys, req'[r].late
         PROVE  idem[<<u, k>>] > 0
      <3>1. PICK s \in Sends : Key(s) = <<u, k>> /\ Answered(s)
         BY <1>1, <2>3
      <3>2. Keyed(s) /\ KeyFits(s)
         BY <1>2, <1>5, <2>3, <3>1 DEF Key, Keyed, Quiet, IInv, KeysFit
      <3>3. QED
         BY <3>1, <3>2 DEF KeyFits
   <2>4. k \in Keys => req'[r].pc = "check"
      BY <1>1, MessagingAssumption
   <2>5. QED
      BY <1>1, <2>1, <2>2, <2>3, <2>4 DEF KeyFits, Keyed, Answered
<1>6. Alone(r)' /\ Names(r)'
   BY <1>1 DEF Alone, Names, Pending, CacheHeld, Answered
<1>7. req[r].pc = "idle"
   BY DEF BeginSend
<1>8. Fits(r)'
   BY <1>0, <1>3, <1>4, <1>5 DEF Fits
<1>9. QED
   BY <1>0, <1>1, <1>2, <1>6, <1>7, <1>8, LocalStep

\* The check finds a completed record: the answer names its message, which the send that
\* completed the record has committed.
LEMMA CheckDuplicateKeeps ==
    ASSUME IInv, NEW r \in Sends, CheckDuplicate(r)
    PROVE  IInv'
<1>0. /\ r \in Requests /\ r \notin Recalls
      /\ req[r].pc = "check" /\ Keyed(r) /\ req[r].user \in Users
   BY DEF Requests, CheckDuplicate, IInv, PcsFit, PcFits
<1>1. PICK u \in Users, k \in Keys : u = req[r].user /\ k = req[r].key
   BY <1>0 DEF Keyed
<1>2. /\ idem[<<u, k>>] > 0 /\ idem[<<u, k>>] \in Ids
   BY <1>1 DEF CheckDuplicate, Key, IInv, TypeOK, Absent
<1>3. PICK id \in Ids : id = idem[<<u, k>>]
   BY <1>2
<1>4. /\ StepOf(r)
      /\ req'[r].pc = "done" /\ req'[r].user = u /\ req'[r].key = k /\ req'[r].id = id
      /\ req'[r].answer = "duplicate" /\ req'[r].joins = {}
      /\ req'[r].record = FALSE /\ req'[r].shown = FALSE
   BY <1>0, <1>1, <1>3 DEF CheckDuplicate, Becomes, StepOf, IInv, TypeOK, Request,
      Labels, Answers, Key
<1>5. Quiet
   BY QuietSteps DEF CheckDuplicate, IInv, TypeOK
<1>6. PcFits(r)' /\ JoinFits(r)'
   BY <1>4 DEF PcFits, Pending, JoinFits
<1>7. KeyFits(r)'
   BY <1>2, <1>4 DEF KeyFits, Key, CheckDuplicate, table
<1>8. Alone(r)'
   BY <1>4 DEF Alone, Pending, CacheHeld
<1>9. Names(r)'
   <2>1. RecordNames(u, k)
      BY <1>2 DEF IInv, RecordsName
   <2>2. PICK s \in Sends : Carries(s, u, k, id)
      BY <1>3, <2>1 DEF RecordNames
   <2>3. s # r /\ s \in Requests
      BY <1>0, <2>2 DEF Carries, Requests
   <2>4. req'[s].id = id /\ Key(s)' = <<u, k>> /\ req'[s].answer # "duplicate"
      BY <1>4, <2>2, <2>3 DEF StepOf, Carries, Key
   <2>5. id \in DOMAIN messages /\ messages[id].from = u
      BY <1>3, <2>1 DEF RecordNames
   <2>6. Key(r)' = <<u, k>>
      BY <1>4 DEF Key
   <2>7. QED
      BY <1>4, <1>5, <2>4, <2>5, <2>6 DEF Names, Quiet
<1>10. Fits(r)'
   BY <1>0, <1>6, <1>7 DEF Fits
<1>11. QED
   BY <1>0, <1>4, <1>5, <1>8, <1>9, <1>10, LocalStep

\* The check finds no completed record: the record is reserved with 0, and stays there.
LEMMA CheckNewKeeps ==
    ASSUME IInv, NEW r \in Sends, CheckNew(r)
    PROVE  IInv'
<1>0. /\ r \in Requests /\ r \notin Recalls
      /\ req[r].pc = "check" /\ Keyed(r) /\ req[r].user \in Users
      /\ PcFits(r) /\ JoinFits(r) /\ (Undisturbed => KeyFits(r))
   BY DEF Requests, CheckNew, Step, IInv, PcsFit, PcFits, JoinsFit, KeysFit
<1>1. Key(r) \in Users \X Keys
   BY <1>0 DEF Keyed, Key
<1>2. /\ StepOf(r)
      /\ req'[r].pc = "generate" /\ req'[r].id = req[r].id /\ req'[r].answer = "none"
      /\ req'[r].user = req[r].user /\ req'[r].key = req[r].key
      /\ req'[r].joins = req[r].joins /\ req'[r].record = req[r].record
      /\ req'[r].shown = req[r].shown /\ req'[r].late = req[r].late
   BY <1>0 DEF CheckNew, Step, Becomes, StepOf, IInv, TypeOK, Request, Labels,
      Answers
<1>3. Quiet /\ idem'[Key(r)] = 0
   <2>1. /\ UNCHANGED <<messages, cache, participants, blocked, deleted, used>>
         /\ commitErrors' = commitErrors /\ expired' = expired
         /\ idem' = [idem EXCEPT ![Key(r)] = 0]
      BY DEF CheckNew, bounds
   <2>2. idem \in [Users \X Keys -> Ids \cup {Absent, 0}] /\ used \subseteq Ids
      BY DEF IInv, TypeOK
   <2>3. idem[Key(r)] \in {Absent, 0}
      <3>1. PICK i \in Ids \cup {Absent, 0} : i = idem[Key(r)]
         BY <1>1, <2>2
      <3>2. i <= 0
         BY <3>1 DEF CheckNew
      <3>3. QED
         BY <3>1, <3>2, MessagingAssumption
   <2>4. commitErrors \in Nat /\ expired \in Nat
      BY DEF IInv, BoundsOK
   <2>5. Undisturbed' => Undisturbed
      BY <2>1 DEF Undisturbed
   <2>6. /\ idem' \in [Users \X Keys -> Ids \cup {Absent, 0}]
         /\ idem'[Key(r)] = 0
         /\ \A uk \in Users \X Keys : uk # Key(r) => idem'[uk] = idem[uk]
      BY <1>1, <2>1, <2>2
   <2>7. QED
      BY <2>1, <2>2, <2>3, <2>4, <2>5, <2>6 DEF Quiet
<1>4. PcFits(r)'
   BY <1>0, <1>2 DEF PcFits, Pending
<1>5. JoinFits(r)'
   BY <1>0, <1>2, <1>3 DEF JoinFits, Quiet
<1>6. Undisturbed' => KeyFits(r)'
   BY <1>0, <1>2, <1>3 DEF KeyFits, Answered, Key, CheckNew, Quiet, Absent
<1>7. Alone(r)' /\ Names(r)'
   BY <1>0, <1>2 DEF Alone, Names, Pending, CacheHeld, Answered
<1>8. Fits(r)'
   BY <1>0, <1>4, <1>5, <1>6 DEF Fits
<1>9. QED
   BY <1>0, <1>2, <1>3, <1>7, <1>8, LocalStep

\* The identifier that GenerateID returns is nobody else's.
LEMMA GenerateForSendKeeps ==
    ASSUME IInv, NEW r \in Sends, GenerateForSend(r)
    PROVE  IInv'
<1>0. /\ r \in Requests /\ r \notin Recalls /\ req[r].pc = "generate"
      /\ PcFits(r) /\ JoinFits(r) /\ (Undisturbed => KeyFits(r))
   BY MessagingAssumption DEF Requests, GenerateForSend, Generate, IInv, PcsFit,
      JoinsFit, KeysFit
<1>1. PICK id \in Ids \ used : used' = used \cup {id}
                               /\ Becomes(r, "permission", id, "none", {}, FALSE, FALSE)
   BY DEF GenerateForSend, Generate
<1>2. /\ StepOf(r)
      /\ req'[r].pc = "permission" /\ req'[r].id = id /\ req'[r].answer = "none"
      /\ req'[r].user = req[r].user /\ req'[r].key = req[r].key /\ req'[r].joins = {}
      /\ req'[r].record = FALSE /\ req'[r].shown = FALSE /\ req'[r].late = req[r].late
   BY <1>0, <1>1 DEF Becomes, StepOf, IInv, TypeOK, Request, Labels, Answers
<1>3. Quiet
   BY QuietSteps DEF GenerateForSend, Generate, IInv, TypeOK
<1>4. PcFits(r)'
   BY <1>0, <1>1, <1>2, <1>3 DEF PcFits, Quiet, IInv, TypeOK
<1>5. JoinFits(r)'
   BY <1>2 DEF JoinFits
<1>6. Undisturbed' => KeyFits(r)'
   BY <1>0, <1>2, <1>3 DEF KeyFits, Keyed, Answered, Key, Quiet, GenerateForSend,
      Generate, table
<1>7. Alone(r)' /\ Names(r)'
   BY <1>2 DEF Alone, Names, Pending, CacheHeld, Answered, IInv, PcsFit, PcFits,
      StepOf
<1>8. Fits(r)'
   BY <1>0, <1>4, <1>5, <1>6 DEF Fits
<1>9. QED
   BY <1>0, <1>2, <1>3, <1>7, <1>8, LocalStep

\* A request that is answered "invalid", "refused" or "error" leaves nothing of its own.
LEMMA EndsKeeps ==
    ASSUME IInv, NEW r \in Requests, InFlight(r), Quiet, UNCHANGED idem,
           NEW a \in {"invalid", "refused", "error"}, req[r].pc = "reset" => a = "error", Ends(r, a)
    PROVE  IInv'
<1>1. /\ req[r].pc \notin {"idle", "done"} /\ PcFits(r)
      /\ r \in Sends /\ Undisturbed => KeyFits(r)
   BY DEF InFlight, IInv, PcsFit, KeysFit
<1>2. /\ StepOf(r)
      /\ req'[r].pc = "done" /\ req'[r].id = req[r].id /\ req'[r].answer = a
      /\ req'[r].user = req[r].user /\ req'[r].key = req[r].key /\ req'[r].joins = {}
      /\ req'[r].record = FALSE /\ req'[r].shown = FALSE /\ req'[r].late = req[r].late
   BY DEF Ends, Becomes, StepOf, IInv, TypeOK, Request, Labels, Answers
<1>3. PcFits(r)'
   BY <1>1, <1>2 DEF PcFits, Pending
<1>4. JoinFits(r)' /\ RecallFits(r)'
   BY <1>2 DEF JoinFits, RecallFits, InFlight
<1>5. r \in Sends /\ Undisturbed' => KeyFits(r)'
   BY <1>1, <1>2 DEF KeyFits, Keyed, Answered, Key, Quiet, PcFits
<1>6. Alone(r)' /\ Names(r)'
   BY <1>2 DEF Alone, Names, Pending, CacheHeld, Answered
<1>7. Fits(r)'
   BY <1>3, <1>4, <1>5 DEF Fits
<1>8. QED
   BY <1>1, <1>2, <1>6, <1>7, LocalStep

\* The statements that only read, and UpdateLastMsgCache.
LEMMA SendGoesOn ==
    ASSUME IInv, NEW r \in Sends, UNCHANGED <<table, used, bounds>>,
           NEW from \in {"permission", "friends", "exists", "cache"},
           NEW to \in {"friends", "exists", "join", "idem", "commit"},
           Step(r, from, to), to = "commit" <=> from = "cache",
           to = "commit" => CacheHeld \ {r} = {},
           to = "idem" => participants = Users \ deleted
    PROVE  IInv'
<1>0. /\ r \in Requests /\ r \notin Recalls /\ req[r].pc = from
      /\ PcFits(r) /\ JoinFits(r) /\ (Undisturbed => KeyFits(r))
      /\ req[r].joins \subseteq Users
   BY MessagingAssumption DEF Requests, Step, IInv, PcsFit, JoinsFit, KeysFit,
      TypeOK, Request
<1>1. /\ StepOf(r)
      /\ req'[r].pc = to /\ req'[r].id = req[r].id /\ req'[r].answer = "none"
      /\ req'[r].user = req[r].user /\ req'[r].key = req[r].key
      /\ req'[r].joins = req[r].joins /\ req'[r].record = req[r].record
      /\ req'[r].shown = req[r].shown /\ req'[r].late = req[r].late
   BY <1>0 DEF Step, Becomes, StepOf, IInv, TypeOK, Request, Labels, Answers
<1>2. Quiet /\ UNCHANGED <<messages, participants, deleted, idem, used>>
   BY QuietSteps DEF IInv, TypeOK, table
<1>3. PcFits(r)'
   BY <1>0, <1>1, <1>2 DEF PcFits, Keyed, Pending
<1>4. JoinFits(r)'
   BY <1>0, <1>1, <1>2 DEF JoinFits
<1>5. Undisturbed' => KeyFits(r)'
   BY <1>0, <1>1, <1>2 DEF KeyFits, Keyed, Answered, Key, Quiet
<1>6. Alone(r)'
   <2>1. ASSUME r \in CacheHeld'
         PROVE  CacheHeld' \ {r} = {}
      BY <1>0, <1>1, <2>1 DEF CacheHeld, StepOf, Requests
   <2>2. QED
      BY <1>0, <1>1, <2>1 DEF Alone, Pending, IInv, IdsDiffer, StepOf
<1>7. Names(r)' /\ Fits(r)'
   BY <1>0, <1>1, <1>3, <1>4, <1>5 DEF Names, Answered, Fits
<1>8. QED
   BY <1>0, <1>1, <1>2, <1>6, <1>7, LocalStep

\* insertParticipantRow adds the row that is missing, or ends the request where the account is
\* gone: after the second one, the rows that are there and those to be committed are everybody's.
LEMMA InsertRowKeeps ==
    ASSUME IInv, NEW r \in Sends, NEW u \in Users, NEW from, NEW to, InsertRow(r, u, from, to),
           \/ from = "join" /\ to = "joinOther" /\ u = req[r].user
           \/ from = "joinOther" /\ to = "idem" /\ u = Other(req[r].user)
    PROVE  IInv'
<1>0. /\ r \in Requests /\ r \notin Recalls /\ req[r].pc = from
      /\ PcFits(r) /\ JoinFits(r) /\ (Undisturbed => KeyFits(r))
      /\ req[r].joins \subseteq Users /\ req[r].user \in Users
   BY DEF Requests, InsertRow, IInv, PcsFit, PcFits, JoinsFit, KeysFit, TypeOK,
      Request
<1>1. Quiet /\ UNCHANGED <<messages, participants, deleted, idem, used>>
   BY QuietSteps DEF IInv, TypeOK, table, InsertRow
<1>2. CASE u \in deleted
   BY <1>0, <1>1, <1>2, EndsKeeps DEF InsertRow, InFlight
<1>3. CASE u \notin deleted
   <2>1. PICK joins \in SUBSET Users :
            /\ joins = IF u \in participants THEN req[r].joins ELSE req[r].joins \cup {u}
            /\ Becomes(r, to, req[r].id, "none", joins, FALSE, FALSE)
      BY <1>0, <1>3 DEF InsertRow
   <2>2. /\ StepOf(r)
         /\ req'[r].pc = to /\ req'[r].id = req[r].id /\ req'[r].answer = "none"
         /\ req'[r].user = req[r].user /\ req'[r].key = req[r].key /\ req'[r].joins = joins
         /\ req'[r].record = FALSE /\ req'[r].shown = FALSE /\ req'[r].late = req[r].late
      BY <1>0, <2>1 DEF Becomes, StepOf, IInv, TypeOK, Request, Labels, Answers
   <2>3. PcFits(r)'
      BY <1>0, <1>1, <2>2 DEF PcFits, Pending
   <2>4. JoinFits(r)'
      <3>1. u \in participants => participants = Users \ deleted
         BY DEF IInv, JoinTogether
      <3>2. joins \cap deleted = {} /\ req[r].joins \subseteq joins
         BY <1>0, <1>3, <2>1 DEF JoinFits
      <3>3. CASE to = "joinOther"
         BY <1>1, <2>1, <2>2, <3>1, <3>2, <3>3 DEF JoinFits
      <3>4. CASE to = "idem"
         <4>1. u = Other(req[r].user) /\ Users = {req[r].user, u}
            BY <1>0, <3>4, OtherUser
         <4>2. req[r].user \in req[r].joins \/ participants = Users \ deleted
            BY <1>0, <3>4 DEF JoinFits
         <4>3. participants \cup joins = Users \ deleted
            <5>1. participants \subseteq Users \ deleted
               BY DEF IInv, JoinTogether
            <5>2. CASE participants = Users \ deleted
               BY <3>2, <5>2
            <5>3. CASE u \notin participants /\ req[r].user \in req[r].joins
               <6>1. joins = Users
                  BY <2>1, <4>1, <5>3
               <6>2. QED
                  BY <3>2, <5>1, <6>1
            <5>4. QED
               BY <3>1, <4>2, <5>2, <5>3
         <4>4. QED
            BY <1>1, <2>2, <3>4, <4>3 DEF JoinFits
      <3>5. QED
         BY <3>3, <3>4
   <2>5. Undisturbed' => KeyFits(r)'
      BY <1>0, <1>1, <2>2 DEF KeyFits, Keyed, Answered, Key, Quiet
   <2>6. Alone(r)'
      BY <1>0, <2>2 DEF Alone, Pending, IInv, IdsDiffer, StepOf, CacheHeld
   <2>7. Names(r)' /\ Fits(r)'
      BY <1>0, <2>2, <2>3, <2>4, <2>5 DEF Names, Answered, Fits
   <2>8. QED
      BY <1>0, <1>1, <2>2, <2>6, <2>7, LocalStep
<1>4. QED
   BY <1>2, <1>3

\* The transaction completes the record, if the record is still there.
LEMMA UpdateRecordKeeps ==
    ASSUME IInv, NEW r \in Sends, UpdateRecord(r)
    PROVE  IInv'
<1>0. /\ r \in Requests /\ r \notin Recalls /\ req[r].pc = "idem"
      /\ PcFits(r) /\ JoinFits(r) /\ (Undisturbed => KeyFits(r))
   BY MessagingAssumption DEF Requests, UpdateRecord, IInv, PcsFit, JoinsFit, KeysFit
<1>1. PICK b \in BOOLEAN : /\ b = (Keyed(r) /\ idem[Key(r)] # Absent)
                           /\ Becomes(r, "cache", req[r].id, "none", req[r].joins, b, FALSE)
   BY DEF UpdateRecord
<1>2. /\ StepOf(r)
      /\ req'[r].pc = "cache" /\ req'[r].id = req[r].id /\ req'[r].answer = "none"
      /\ req'[r].user = req[r].user /\ req'[r].key = req[r].key
      /\ req'[r].joins = req[r].joins /\ req'[r].record = b
      /\ req'[r].shown = FALSE /\ req'[r].late = req[r].late
   BY <1>0, <1>1 DEF Becomes, StepOf, IInv, TypeOK, Request, Labels, Answers
<1>3. Quiet /\ UNCHANGED <<messages, participants, deleted, idem, used>>
   BY QuietSteps DEF IInv, TypeOK, table, UpdateRecord
<1>4. PcFits(r)'
   BY <1>0, <1>1, <1>2, <1>3 DEF PcFits, Keyed, Pending
<1>5. JoinFits(r)'
   BY <1>0, <1>2, <1>3 DEF JoinFits
<1>6. Undisturbed' => KeyFits(r)'
   BY <1>0, <1>1, <1>2, <1>3 DEF KeyFits, Keyed, Answered, Key, Quiet
<1>7. Alone(r)' /\ Names(r)'
   BY <1>0, <1>2 DEF Alone, Pending, IInv, IdsDiffer, StepOf, CacheHeld, Names,
      Answered
<1>8. Fits(r)'
   BY <1>0, <1>4, <1>5, <1>6 DEF Fits
<1>9. QED
   BY <1>0, <1>2, <1>3, <1>7, <1>8, LocalStep

\* COMMIT of a send fails without effect: the request answers with an error, and sets its
\* record back first if it has one.
LEMMA SendIsLost ==
    ASSUME IInv, NEW r \in Sends, CommitSendError(r), UNCHANGED table
    PROVE  IInv'
<1>0. /\ r \in Requests /\ r \notin Recalls /\ req[r].pc = "commit"
      /\ PcFits(r) /\ commitErrors \in Nat /\ expired \in Nat
   BY MessagingAssumption DEF Requests, CommitSendError, IInv, PcsFit, BoundsOK
<1>1. Quiet /\ UNCHANGED idem /\ ~ Undisturbed'
   <2>1. commitErrors' = commitErrors + 1 /\ expired' = expired /\ used' = used
      BY DEF CommitSendError
   <2>2. /\ commitErrors' \in Nat /\ expired' \in Nat /\ ~ Undisturbed'
      BY <1>0, <2>1 DEF Undisturbed
   <2>3. /\ UNCHANGED <<messages, cache, participants, blocked, deleted, idem>>
      BY DEF table
   <2>4. QED
      BY <2>1, <2>2, <2>3 DEF Quiet, IInv, TypeOK
<1>2. CASE ~ Keyed(r)
   BY <1>0, <1>1, <1>2, EndsKeeps DEF CommitSendError, InFlight
<1>3. CASE Keyed(r)
   <2>0. Becomes(r, "reset", req[r].id, "none", {}, FALSE, FALSE)
      BY <1>3 DEF CommitSendError
   <2>1. /\ StepOf(r)
         /\ req'[r].pc = "reset" /\ req'[r].id = req[r].id /\ req'[r].answer = "none"
         /\ req'[r].user = req[r].user /\ req'[r].key = req[r].key /\ req'[r].joins = {}
         /\ req'[r].record = FALSE /\ req'[r].shown = FALSE
      BY <1>0, <2>0 DEF Becomes, StepOf, IInv, TypeOK, Request, Labels, Answers
   <2>2. PcFits(r)' /\ JoinFits(r)'
      BY <1>0, <1>3, <2>1 DEF PcFits, Keyed, Pending, JoinFits
   <2>3. Alone(r)' /\ Names(r)' /\ Fits(r)'
      BY <1>0, <1>1, <2>1, <2>2 DEF Alone, Pending, CacheHeld, Names, Answered,
         Fits
   <2>4. QED
      BY <1>0, <1>1, <2>1, <2>3, LocalStep
<1>4. QED
   BY <1>2, <1>3

-----------------------------------------------------------------------------
(***************************************************************************)
(* The statements of a recall.                                             *)
(***************************************************************************)
\* RecallMessage has read a message of its user, which is no notice.
LEMMA BeginRecallKeeps ==
    ASSUME IInv, NEW r \in Recalls, NEW u \in Users, NEW m \in DOMAIN messages,
           BeginRecall(r, u, m)
    PROVE  IInv'
<1>0. /\ r \in Requests /\ r \notin Sends /\ m \in Ids
      /\ messages[m].from = u /\ messages[m].of = Nothing
   BY MessagingAssumption DEF Requests, BeginRecall, IInv, ListFits, TypeOK
<1>1. /\ StepOf(r)
      /\ req'[r].pc = "blank" /\ req'[r].id = Nothing /\ req'[r].answer = "none"
      /\ req'[r].user = u /\ req'[r].target = m /\ req'[r].joins = {}
      /\ req'[r].record = FALSE /\ req'[r].shown = FALSE
   BY <1>0 DEF BeginRecall, Begins, StepOf, IInv, TypeOK, Request, Labels, Answers
<1>2. Quiet /\ UNCHANGED messages
   BY QuietSteps DEF IInv, TypeOK, table, BeginRecall
<1>3. PcFits(r)' /\ RecallFits(r)'
   BY <1>0, <1>1, <1>2 DEF PcFits, Pending, RecallFits
<1>4. Alone(r)' /\ Names(r)' /\ Fits(r)' /\ req[r].pc = "idle"
   BY <1>0, <1>1, <1>3 DEF Alone, Pending, CacheHeld, Names, Fits, BeginRecall
<1>5. QED
   BY <1>0, <1>1, <1>2, <1>4, LocalStep

\* The recall blanks its message: still inside of its transaction.
LEMMA BlankMessageKeeps ==
    ASSUME IInv, NEW r \in Recalls, BlankMessage(r)
    PROVE  IInv'
<1>0. /\ r \in Requests /\ r \notin Sends /\ req[r].pc = "blank"
      /\ PcFits(r) /\ RecallFits(r)
   BY MessagingAssumption DEF Requests, BlankMessage, Step, IInv, PcsFit, RecallsFit
<1>1. /\ StepOf(r)
      /\ req'[r].pc = "notice" /\ req'[r].id = req[r].id /\ req'[r].answer = "none"
      /\ req'[r].user = req[r].user /\ req'[r].target = req[r].target
      /\ req'[r].record = req[r].record /\ req'[r].shown = req[r].shown
   BY <1>0 DEF BlankMessage, Step, Becomes, StepOf, IInv, TypeOK, Request, Labels,
      Answers
<1>2. Quiet /\ UNCHANGED messages
   BY QuietSteps DEF IInv, TypeOK, table, BlankMessage
<1>3. PcFits(r)' /\ RecallFits(r)'
   BY <1>0, <1>1, <1>2 DEF PcFits, Pending, RecallFits, InFlight
<1>4. Alone(r)' /\ Names(r)' /\ Fits(r)'
   BY <1>1, <1>3 DEF Alone, Pending, CacheHeld, Names, Fits, PcFits
<1>5. QED
   BY <1>0, <1>1, <1>2, <1>4, LocalStep

\* The recall inserts its notice, with an identifier nobody else has.
LEMMA InsertNoticeKeeps ==
    ASSUME IInv, NEW r \in Recalls, InsertNotice(r)
    PROVE  IInv'
<1>0. /\ r \in Requests /\ r \notin Sends /\ req[r].pc = "notice"
      /\ PcFits(r) /\ RecallFits(r)
   BY MessagingAssumption DEF Requests, InsertNotice, Generate, IInv, PcsFit,
      RecallsFit
<1>1. PICK id \in Ids \ used : used' = used \cup {id}
                               /\ Becomes(r, "show", id, "none", {}, FALSE, FALSE)
   BY DEF InsertNotice, Generate
<1>2. /\ StepOf(r)
      /\ req'[r].pc = "show" /\ req'[r].id = id /\ req'[r].answer = "none"
      /\ req'[r].user = req[r].user /\ req'[r].target = req[r].target
      /\ req'[r].record = FALSE /\ req'[r].shown = FALSE
   BY <1>0, <1>1 DEF Becomes, StepOf, IInv, TypeOK, Request, Labels, Answers
<1>3. Quiet /\ UNCHANGED messages
   BY QuietSteps DEF IInv, TypeOK, table, InsertNotice, Generate
<1>4. PcFits(r)' /\ RecallFits(r)'
   BY <1>0, <1>1, <1>2, <1>3 DEF PcFits, RecallFits, InFlight, IInv, TypeOK
<1>5. Alone(r)' /\ Names(r)' /\ Fits(r)'
   BY <1>2, <1>4 DEF Alone, Pending, CacheHeld, Names, Fits, IInv, PcsFit, PcFits,
      StepOf
<1>6. QED
   BY <1>0, <1>2, <1>3, <1>5, LocalStep

\* The recall marks the entry of the list if the entry is its message, and then nobody else
\* holds the entry: it stays so until the commit.
LEMMA ShowRecallKeeps ==
    ASSUME IInv, NEW r \in Recalls, ShowRecall(r)
    PROVE  IInv'
<1>0. /\ r \in Requests /\ r \notin Sends /\ req[r].pc = "show"
      /\ PcFits(r) /\ RecallFits(r)
   BY MessagingAssumption DEF Requests, ShowRecall, IInv, PcsFit, RecallsFit
<1>1. PICK b \in BOOLEAN : /\ b = (cache.id = req[r].target)
                           /\ Becomes(r, "commit", req[r].id, "none", {}, FALSE, b)
   BY DEF ShowRecall
<1>2. /\ StepOf(r)
      /\ req'[r].pc = "commit" /\ req'[r].id = req[r].id /\ req'[r].answer = "none"
      /\ req'[r].user = req[r].user /\ req'[r].target = req[r].target
      /\ req'[r].record = FALSE /\ req'[r].shown = b
   BY <1>0, <1>1 DEF Becomes, StepOf, IInv, TypeOK, Request, Labels, Answers
<1>3. Quiet /\ UNCHANGED <<messages, cache, used>>
   BY QuietSteps DEF IInv, TypeOK, table, ShowRecall
<1>4. PcFits(r)' /\ RecallFits(r)'
   BY <1>0, <1>1, <1>2, <1>3 DEF PcFits, Pending, RecallFits, InFlight
<1>5. Alone(r)'
   <2>1. b => CacheHeld \ {r} = {}
      BY <1>1 DEF ShowRecall, Free, WaitsFor
   <2>2. r \in CacheHeld' => b
      BY <1>0, <1>2 DEF CacheHeld
   <2>3. CacheHeld' \ {r} \subseteq CacheHeld \ {r}
      BY <1>2 DEF CacheHeld, StepOf, Requests
   <2>4. \A s \in Requests : s # r /\ Pending(s)' => req'[s].id # req'[r].id
      BY <1>0, <1>2 DEF Pending, IInv, IdsDiffer, StepOf
   <2>5. QED
      BY <2>1, <2>2, <2>3, <2>4 DEF Alone
<1>6. Names(r)' /\ Fits(r)'
   BY <1>0, <1>4 DEF Names, Fits
<1>7. QED
   BY <1>0, <1>2, <1>3, <1>5, <1>6, LocalStep

\* COMMIT of a recall fails without effect.
LEMMA RecallIsLost ==
    ASSUME IInv, NEW r \in Recalls, CommitRecallError(r), UNCHANGED table
    PROVE  IInv'
<1>0. /\ r \in Requests /\ req[r].pc = "commit" /\ commitErrors \in Nat /\ expired \in Nat
   BY DEF Requests, CommitRecallError, IInv, BoundsOK
<1>1. commitErrors' = commitErrors + 1 /\ expired' = expired /\ used' = used
   BY DEF CommitRecallError
<1>2. commitErrors' \in Nat /\ expired' \in Nat /\ ~ Undisturbed'
   BY <1>0, <1>1 DEF Undisturbed
<1>3. UNCHANGED <<messages, cache, participants, blocked, deleted, idem>>
   BY DEF table
<1>4. Quiet
   BY <1>1, <1>2, <1>3 DEF Quiet, IInv, TypeOK
<1>5. QED
   BY <1>0, <1>3, <1>4, EndsKeeps DEF CommitRecallError, InFlight

\* After a failed COMMIT the record is set back to 0, even if the message is there.
LEMMA ResetRecordKeeps ==
    ASSUME IInv, NEW r \in Sends, ResetRecord(r)
    PROVE  IInv'
<1>0. /\ r \in Requests /\ r \notin Recalls /\ req[r].pc = "reset" /\ PcFits(r)
      /\ Keyed(r) /\ req[r].user \in Users /\ ~ Undisturbed
   BY DEF Requests, ResetRecord, IInv, PcsFit, PcFits, KeysFit, KeyFits
<1>1. Key(r) \in Users \X Keys
   BY <1>0 DEF Keyed, Key
<1>2. /\ UNCHANGED <<messages, cache, participants, blocked, deleted, used>>
      /\ commitErrors' = commitErrors /\ expired' = expired
      /\ idem' = [idem EXCEPT ![Key(r)] = IF idem[Key(r)] = Absent THEN Absent ELSE 0]
   BY DEF ResetRecord, bounds
<1>3. Quiet
   <2>1. idem \in [Users \X Keys -> Ids \cup {Absent, 0}] /\ used \subseteq Ids
      BY DEF IInv, TypeOK
   <2>2. /\ commitErrors \in Nat /\ expired \in Nat /\ ~ Undisturbed'
      BY <1>0, <1>2 DEF IInv, BoundsOK, Undisturbed
   <2>3. /\ idem' \in [Users \X Keys -> Ids \cup {Absent, 0}]
         /\ idem'[Key(r)] \in {Absent, 0}
         /\ \A uk \in Users \X Keys : uk # Key(r) => idem'[uk] = idem[uk]
      BY <1>1, <1>2, <2>1
   <2>4. QED
      BY <1>2, <2>1, <2>2, <2>3 DEF Quiet
<1>4. /\ StepOf(r)
      /\ req'[r].pc = "done" /\ req'[r].id = req[r].id /\ req'[r].answer = "error"
      /\ req'[r].user = req[r].user /\ req'[r].key = req[r].key /\ req'[r].joins = {}
      /\ req'[r].record = FALSE /\ req'[r].shown = FALSE
   BY <1>0 DEF ResetRecord, Ends, Becomes, StepOf, IInv, TypeOK, Request, Labels,
      Answers
<1>5. PcFits(r)' /\ JoinFits(r)'
   BY <1>0, <1>4 DEF PcFits, Pending, JoinFits
<1>6. ~ Undisturbed'
   BY <1>0, <1>2 DEF Undisturbed
<1>7. Alone(r)' /\ Names(r)' /\ Fits(r)'
   BY <1>0, <1>4, <1>5, <1>6 DEF Alone, Pending, CacheHeld, Names, Answered, Fits
<1>8. QED
   BY <1>0, <1>3, <1>4, <1>7, LocalStep

-----------------------------------------------------------------------------
(***************************************************************************)
(* Commits: what a transaction wrote appears.                              *)
(***************************************************************************)
\* What a step that ends a transaction does to its request and to the bounds.
CommitOf(r) ==
    /\ StepOf(r) /\ UNCHANGED used
    /\ commitErrors' \in Nat /\ expired' = expired /\ (Undisturbed' => Undisturbed)
    /\ req[r].pc = "commit"
    /\ req'[r].id = req[r].id /\ req'[r].user = req[r].user /\ req'[r].key = req[r].key
    /\ req'[r].joins = {} /\ req'[r].record = FALSE /\ req'[r].shown = FALSE
    /\ req'[r].late = req[r].late

\* What a send has written appears with its COMMIT: the message, the rows, the entry of the
\* list and the record.
LEMMA SendWrites ==
    ASSUME IInv, NEW r \in Sends, WriteSend(r), CommitOf(r),
           \/ req'[r].pc = "reset" /\ req'[r].answer = "none" /\ Keyed(r) /\ ~ Undisturbed'
           \/ req'[r].pc = "done" /\ req'[r].answer = "error" /\ ~ Undisturbed'
           \/ req'[r].pc = "done" /\ req'[r].answer = "sent"
    PROVE  IInv'
<1>0. /\ r \in Requests /\ r \notin Recalls /\ req[r].pc = "commit"
      /\ PcFits(r) /\ JoinFits(r) /\ (Undisturbed => KeyFits(r))
      /\ req[r].joins \subseteq Users /\ StepOf(r)
   BY MessagingAssumption DEF Requests, CommitOf, IInv, PcsFit, JoinsFit, KeysFit,
      TypeOK, Request
<1>1. PICK id \in Ids, u \in Users :
         id = req[r].id /\ u = req[r].user /\ id \in used /\ id \notin DOMAIN messages
   BY <1>0 DEF PcFits, Pending, IInv, TypeOK
<1>2. /\ DOMAIN messages' = DOMAIN messages \cup {id}
      /\ messages'[id] = [from |-> u, recalled |-> FALSE, of |-> Nothing]
      /\ \A m \in DOMAIN messages : messages'[m] = messages[m]
      /\ messages' \in [DOMAIN messages' -> Message]
   <2>1. messages' = [i \in DOMAIN messages \cup {id} |->
            IF i = id THEN [from |-> u, recalled |-> FALSE, of |-> Nothing] ELSE messages[i]]
      BY <1>1 DEF WriteSend, Conv!With, Conv!Posted, Nothing
   <2>2. [from |-> u, recalled |-> FALSE, of |-> Nothing] \in Message
      BY DEF Message
   <2>3. messages \in [DOMAIN messages -> Message]
      BY DEF IInv, TypeOK
   <2>4. QED
      BY <1>1, <2>1, <2>2, <2>3
<1>3. /\ cache' = [id |-> id, recalled |-> FALSE]
      /\ participants' = Users \ deleted /\ deleted' = deleted /\ blocked' = blocked
   BY <1>0, <1>1 DEF WriteSend, JoinFits
<1>4. /\ idem' \in [Users \X Keys -> Ids \cup {Absent, 0}]
      /\ req[r].record => idem'[Key(r)] = id
      /\ \A uk \in Users \X Keys :
            idem'[uk] = idem[uk] \/ (req[r].record /\ uk = Key(r) /\ idem'[uk] = id)
   <2>1. idem \in [Users \X Keys -> Ids \cup {Absent, 0}]
      BY DEF IInv, TypeOK
   <2>2. req[r].record => Key(r) \in Users \X Keys
      BY <1>0 DEF PcFits, Keyed, Key
   <2>3. CASE req[r].record
      <3>1. idem' = [idem EXCEPT ![Key(r)] = id]
         BY <1>1, <2>3 DEF WriteSend
      <3>2. QED
         BY <2>1, <2>2, <2>3, <3>1
   <2>4. CASE ~ req[r].record
      BY <2>1, <2>4 DEF WriteSend
   <2>5. QED
      BY <2>3, <2>4
<1>5. TypeOK' /\ BoundsOK'
   <2>1. used' = used /\ commitErrors' \in Nat /\ expired' \in Nat
      BY DEF CommitOf, IInv, BoundsOK
   <2>2. req' \in [Requests -> Request]
      BY <1>0 DEF StepOf
   <2>3. cache' \in [id : Ids \cup {Nothing}, recalled : BOOLEAN]
      BY <1>3
   <2>4. DOMAIN messages' \subseteq used'
      BY <1>1, <1>2, <2>1 DEF IInv, TypeOK
   <2>5. /\ participants' \in SUBSET Users /\ blocked' \in SUBSET participants'
         /\ deleted' \subseteq Users
      BY <1>3 DEF IInv, TypeOK, JoinTogether
   <2>6. used' \subseteq Ids
      BY <2>1 DEF IInv, TypeOK
   <2>7. QED
      BY <1>2, <1>4, <2>1, <2>2, <2>3, <2>4, <2>5, <2>6 DEF TypeOK, BoundsOK
<1>6. JoinTogether'
   BY <1>3 DEF JoinTogether
<1>7. IdsDiffer'
   BY <1>0 DEF IInv, IdsDiffer, StepOf, Pending
<1>8. ListFits'
   <2>1. \A m \in DOMAIN messages' : messages'[m].of # Nothing => messages'[m].recalled
      BY <1>2 DEF IInv, ListFits
   <2>2. CacheHeld' \subseteq CacheHeld
      BY <1>0 DEF CacheHeld, StepOf, Requests
   <2>3. QED
      BY <2>1, <2>2 DEF ListFits, IInv
<1>9. RecordsName'
   <2>1. ASSUME NEW v \in Users, NEW k \in Keys, idem'[<<v, k>>] > 0
         PROVE  RecordNames(v, k)'
      <3>1. CASE req[r].record /\ <<v, k>> = Key(r) /\ idem'[<<v, k>>] = id
         <4>1. v = u /\ k = req[r].key
            BY <1>1, <3>1 DEF Key
         <4>2. Carries(r, v, k, idem[<<v, k>>])'
            BY <1>1, <3>1, <4>1 DEF Carries, CommitOf
         <4>3. QED
            BY <1>2, <3>1, <4>1, <4>2 DEF RecordNames
      <3>2. CASE idem'[<<v, k>>] = idem[<<v, k>>]
         <4>1. RecordNames(v, k)
            BY <2>1, <3>2 DEF IInv, RecordsName
         <4>2. PICK s \in Sends : Carries(s, v, k, idem[<<v, k>>])
            BY <4>1 DEF RecordNames
         <4>3. Carries(s, v, k, idem[<<v, k>>])'
            BY <1>0, <3>2, <4>2 DEF StepOf, Requests, Carries
         <4>4. QED
            BY <1>2, <3>2, <4>1, <4>3 DEF RecordNames
      <3>3. QED
         BY <1>4, <3>1, <3>2
   <2>2. QED
      BY <2>1 DEF RecordsName
<1>10. PcsFit'
   <2>1. PcFits(r)'
      BY <1>0 DEF PcFits, Keyed, Pending, CommitOf
   <2>2. ASSUME NEW s \in Requests, s # r
         PROVE  PcFits(s)'
      <3>1. req'[s] = req[s] /\ PcFits(s)
         BY <1>0, <2>2 DEF StepOf, IInv, PcsFit
      <3>2. Pending(s) => req[s].id # id
         BY <1>0, <1>1, <2>2 DEF IInv, IdsDiffer, Pending
      <3>3. Pending(s)' => req'[s].id \in used' \ DOMAIN messages'
         BY <1>2, <3>1, <3>2 DEF PcFits, CommitOf, Pending
      <3>4. QED
         BY <3>1, <3>3 DEF PcFits, Keyed
   <2>3. QED
      BY <2>1, <2>2 DEF PcsFit
<1>11. RecallsFit'
   <2>1. ASSUME NEW s \in Recalls
         PROVE  RecallFits(s)'
      <3>1. s \in Requests /\ s # r /\ req'[s] = req[s] /\ RecallFits(s)
         BY <1>0 DEF StepOf, IInv, RecallsFit, Requests
      <3>2. ~ req[s].shown
         BY <1>0 DEF IInv, ListFits, CacheHeld
      <3>3. cache'.id = id
         BY <1>3
      <3>4. QED
         BY <1>1, <1>2, <3>1, <3>2, <3>3 DEF RecallFits, InFlight
   <2>2. QED
      BY <2>1 DEF RecallsFit
<1>12. JoinsFit'
   <2>1. ASSUME NEW s \in Sends
         PROVE  JoinFits(s)'
      <3>1. req'[s].joins \cap deleted = {} /\ req'[s].joins \subseteq Users
         BY DEF StepOf, CommitOf, IInv, JoinsFit, JoinFits, Requests, Request
      <3>2. QED
         BY <1>3, <3>1 DEF JoinFits
   <2>2. QED
      BY <2>1 DEF JoinsFit
<1>13. AnswersNameMessages'
   <2>1. ASSUME NEW s \in Sends, Answered(s)', s # r
         PROVE  /\ req'[s].id \in DOMAIN messages'
                /\ messages'[req'[s].id].from = req'[s].user
                /\ \E t \in Sends : /\ req'[t].id = req'[s].id /\ Key(t)' = Key(s)'
                                    /\ req'[t].answer # "duplicate"
      <3>1. req'[s] = req[s] /\ Answered(s)
         BY <1>0, <2>1 DEF StepOf, Requests, Answered
      <3>2. PICK t \in Sends : /\ req[t].id = req[s].id /\ Key(t) = Key(s)
                               /\ req[t].answer # "duplicate"
         BY <3>1 DEF IInv, AnswersNameMessages
      <3>3. req[s].id \in DOMAIN messages /\ messages[req[s].id].from = req[s].user
         BY <3>1 DEF IInv, AnswersNameMessages
      <3>4. t # r /\ t \in Requests
         BY <1>1, <3>2, <3>3 DEF Requests
      <3>5. req'[t] = req[t]
         BY <1>0, <3>4 DEF StepOf
      <3>6. Key(t)' = Key(s)'
         BY <3>1, <3>2, <3>5 DEF Key
      <3>7. QED
         BY <1>2, <3>1, <3>2, <3>3, <3>5, <3>6
   <2>2. Answered(r)' => /\ req'[r].id \in DOMAIN messages'
                         /\ messages'[req'[r].id].from = req'[r].user
                         /\ req'[r].answer # "duplicate"
      BY <1>1, <1>2 DEF CommitOf
   <2>3. QED
      BY <2>1, <2>2 DEF AnswersNameMessages
<1>14. KeysFit'
   <2>1. SUFFICES ASSUME Undisturbed', NEW s \in Sends
                  PROVE  KeyFits(s)'
      BY DEF KeysFit
   <2>2. CASE s = r
      <3>1. KeyFits(r)
         BY <1>0, <2>1 DEF CommitOf
      <3>2. Keyed(r) => idem'[Key(r)] > 0
         BY <1>0, <1>4, <3>1, MessagingAssumption DEF KeyFits
      <3>3. Key(r)' = Key(r) /\ Keyed(r)' = Keyed(r)
         BY DEF CommitOf, Key, Keyed
      <3>4. QED
         BY <2>1, <2>2, <3>1, <3>2, <3>3 DEF KeyFits, CommitOf
   <2>3. CASE s # r
      <3>1. req'[s] = req[s] /\ KeyFits(s) /\ PcFits(s)
         BY <2>1, <2>3 DEF IInv, KeysFit, PcsFit, StepOf, CommitOf, Requests
      <3>2. CASE ~ Keyed(s)
         BY <3>1, <3>2 DEF KeyFits, Keyed
      <3>3. CASE req[s].pc = "idle"
         BY <3>1, <3>3 DEF KeyFits, PcFits, Keyed, Answered
      <3>4. CASE Keyed(s) /\ req[s].pc # "idle"
         <4>1. Key(s) \in Users \X Keys
            BY <3>1, <3>4 DEF PcFits, Keyed, Key
         <4>2. /\ idem[Key(s)] > 0 => idem'[Key(s)] > 0
               /\ idem[Key(s)] # Absent => idem'[Key(s)] # Absent
            BY <1>4, <4>1, MessagingAssumption DEF Absent
         <4>3. QED
            BY <3>1, <4>2 DEF KeyFits, Keyed, Key, Answered
      <3>5. QED
         BY <3>2, <3>3, <3>4
   <2>4. QED
      BY <2>2, <2>3
<1>15. QED
   BY <1>5, <1>6, <1>7, <1>8, <1>9, <1>10, <1>11, <1>12, <1>13, <1>14 DEF IInv

\* What a recall writes: the notice, the mark on its message, and the list.
Recalled(u, m, id) ==
    /\ messages[m].from = u /\ messages[m].of = Nothing
    /\ DOMAIN messages' = DOMAIN messages \cup {id}
    /\ messages'[id] = [from |-> u, recalled |-> TRUE, of |-> m]
    /\ messages'[m] = [messages[m] EXCEPT !.recalled = TRUE]
    /\ \A i \in DOMAIN messages : i # m => messages'[i] = messages[i]
    /\ messages' \in [DOMAIN messages' -> Message]
    /\ cache' = IF cache.id = m THEN [cache EXCEPT !.recalled = TRUE] ELSE cache

\* What the commit of a recall does to the tables, with its constants named.
LEMMA RecallTables ==
    ASSUME IInv, NEW r \in Recalls, req[r].pc = "commit", WriteRecall(r),
           NEW id \in Ids, NEW u \in Users, NEW m \in Ids,
           id = req[r].id, u = req[r].user, m = req[r].target
    PROVE  Recalled(u, m, id)
<1>1. /\ id \in used /\ id \in Ids /\ id \notin DOMAIN messages /\ u \in Users
      /\ m \in DOMAIN messages /\ messages[m].from = u /\ messages[m].of = Nothing
      /\ req[r].shown <=> cache.id = m
   BY DEF IInv, PcsFit, PcFits, Pending, RecallsFit, RecallFits, InFlight, Requests
<1>2. m \in Ids /\ messages \in [DOMAIN messages -> Message]
   BY DEF IInv, TypeOK
<1>3. DEFINE f == [i \in DOMAIN messages \cup {id} |->
                     IF i = id THEN [from |-> u, recalled |-> TRUE, of |-> m] ELSE messages[i]]
<1>4. messages' = [f EXCEPT ![m].recalled = TRUE]
   BY DEF WriteRecall, Conv!With, Conv!Notice
<1>5. /\ DOMAIN f = DOMAIN messages \cup {id}
      /\ f[id] = [from |-> u, recalled |-> TRUE, of |-> m]
      /\ \A i \in DOMAIN messages : f[i] = messages[i]
   BY <1>1
<1>7. HIDE DEF f
<1>8. /\ DOMAIN messages' = DOMAIN messages \cup {id}
      /\ messages'[id] = [from |-> u, recalled |-> TRUE, of |-> m]
      /\ messages'[m] = [messages[m] EXCEPT !.recalled = TRUE]
      /\ \A i \in DOMAIN messages : i # m => messages'[i] = messages[i]
   BY <1>1, <1>4, <1>5
<1>9. /\ [from |-> u, recalled |-> TRUE, of |-> m] \in Message
      /\ [messages[m] EXCEPT !.recalled = TRUE] \in Message
   BY <1>1, <1>2 DEF Message
<1>10. messages' \in [DOMAIN messages' -> Message]
   <2>1. messages' = [i \in DOMAIN messages' |-> messages'[i]]
      BY <1>4
   <2>2. \A i \in DOMAIN messages' : messages'[i] \in Message
      BY <1>2, <1>8, <1>9
   <2>3. QED
      BY <2>1, <2>2
<1>11. cache' = IF cache.id = m THEN [cache EXCEPT !.recalled = TRUE] ELSE cache
   BY <1>1 DEF WriteRecall
<1>12. QED
   BY <1>1, <1>8, <1>10, <1>11 DEF Recalled

\* What a recall has written appears with its COMMIT.
LEMMA RecallWrites ==
    ASSUME IInv, NEW r \in Recalls, WriteRecall(r), CommitOf(r), req'[r].pc = "done",
           \/ req'[r].answer = "recalled"
           \/ req'[r].answer = "error" /\ ~ Undisturbed'
    PROVE  IInv'
<1>0. /\ r \in Requests /\ r \notin Sends /\ req[r].pc = "commit" /\ StepOf(r)
      /\ PcFits(r)
   BY MessagingAssumption DEF Requests, CommitOf, IInv, PcsFit
<1>1. PICK id \in Ids, u \in Users, m \in DOMAIN messages :
         /\ id = req[r].id /\ u = req[r].user /\ m = req[r].target
         /\ id \in used /\ id \notin DOMAIN messages
   BY <1>0 DEF PcFits, Pending, IInv, TypeOK, RecallsFit, RecallFits, InFlight
<1>. m \in Ids
   BY DEF IInv, TypeOK
<1>2. Recalled(u, m, id)
   BY <1>0, <1>1, RecallTables
<1>3. \A i \in DOMAIN messages :
         /\ messages'[i].from = messages[i].from /\ messages'[i].of = messages[i].of
         /\ messages[i].recalled => messages'[i].recalled
   <2>2. QED
      BY <1>2 DEF Message, Recalled
<1>4. UNCHANGED <<participants, blocked, deleted, idem, used, expired>>
   BY DEF WriteRecall, CommitOf
<1>5. cache' \in [id : Ids \cup {Nothing}, recalled : BOOLEAN] /\ cache'.id = cache.id
   <2>1. cache \in [id : Ids \cup {Nothing}, recalled : BOOLEAN]
      BY DEF IInv, TypeOK
   <2>2. QED
      BY <1>2, <2>1 DEF Recalled
<1>6. TypeOK' /\ BoundsOK'
   <2>1. commitErrors' \in Nat /\ expired' \in Nat
      BY DEF CommitOf, IInv, BoundsOK
   <2>2. req' \in [Requests -> Request]
      BY <1>0 DEF StepOf
   <2>3. DOMAIN messages' \subseteq used'
      BY <1>1, <1>2, <1>4 DEF IInv, TypeOK, Recalled
   <2>4. QED
      BY <1>2, <1>4, <1>5, <2>1, <2>2, <2>3 DEF TypeOK, BoundsOK, IInv, Recalled
<1>7. JoinTogether'
   BY <1>4 DEF IInv, JoinTogether
<1>8. IdsDiffer'
   BY <1>0 DEF IInv, IdsDiffer, StepOf, Pending
<1>9. ListFits'
   <2>1. \A i \in DOMAIN messages' : messages'[i].of # Nothing => messages'[i].recalled
      BY <1>2, <1>3 DEF IInv, ListFits, Recalled
   <2>2. CacheHeld' \subseteq CacheHeld
      BY DEF CacheHeld, StepOf, Requests, CommitOf
   <2>3. QED
      BY <2>1, <2>2 DEF ListFits, IInv
<1>10. RecordsName'
   <2>1. ASSUME NEW v \in Users, NEW k \in Keys, idem'[<<v, k>>] > 0
         PROVE  RecordNames(v, k)'
      <3>1. RecordNames(v, k)
         BY <1>4, <2>1 DEF IInv, RecordsName
      <3>2. PICK s \in Sends : Carries(s, v, k, idem[<<v, k>>])
         BY <3>1 DEF RecordNames
      <3>3. Carries(s, v, k, idem[<<v, k>>])'
         BY <1>0, <1>4, <3>2 DEF StepOf, Requests, Carries
      <3>4. QED
         BY <1>2, <1>3, <1>4, <3>1, <3>3 DEF RecordNames, Recalled
   <2>2. QED
      BY <2>1 DEF RecordsName
<1>11. PcsFit'
   <2>1. PcFits(r)'
      BY <1>0 DEF PcFits, Pending, CommitOf
   <2>2. ASSUME NEW s \in Requests, s # r
         PROVE  PcFits(s)'
      <3>1. req'[s] = req[s] /\ PcFits(s)
         BY <1>0, <2>2 DEF StepOf, IInv, PcsFit
      <3>2. Pending(s) => req[s].id # id
         BY <1>0, <1>1, <2>2 DEF IInv, IdsDiffer, Pending
      <3>3. Pending(s)' => req'[s].id \in used' \ DOMAIN messages'
         BY <1>2, <1>4, <3>1, <3>2 DEF PcFits, Pending, Recalled
      <3>4. QED
         BY <3>1, <3>3 DEF PcFits, Keyed
   <2>3. QED
      BY <2>1, <2>2 DEF PcsFit
<1>12. RecallsFit'
   <2>1. RecallFits(r)'
      BY DEF RecallFits, InFlight
   <2>2. ASSUME NEW s \in Recalls, s # r
         PROVE  RecallFits(s)'
      <3>1. req'[s] = req[s] /\ RecallFits(s)
         BY <1>0, <2>2 DEF StepOf, IInv, RecallsFit, Requests
      <3>2. QED
         BY <1>2, <1>3, <3>1 DEF RecallFits, InFlight, Recalled
   <2>3. QED
      BY <2>1, <2>2 DEF RecallsFit
<1>13. JoinsFit'
   BY <1>0, <1>4 DEF IInv, JoinsFit, JoinFits, StepOf, Requests
<1>14. AnswersNameMessages'
   <2>1. ASSUME NEW s \in Sends, Answered(s)'
         PROVE  /\ req'[s].id \in DOMAIN messages'
                /\ messages'[req'[s].id].from = req'[s].user
                /\ \E t \in Sends : /\ req'[t].id = req'[s].id /\ Key(t)' = Key(s)'
                                    /\ req'[t].answer # "duplicate"
      <3>1. req'[s] = req[s] /\ Answered(s)
         BY <1>0, <2>1 DEF StepOf, Requests, Answered
      <3>2. PICK t \in Sends : /\ req[t].id = req[s].id /\ Key(t) = Key(s)
                               /\ req[t].answer # "duplicate"
         BY <3>1 DEF IInv, AnswersNameMessages
      <3>3. req[s].id \in DOMAIN messages /\ messages[req[s].id].from = req[s].user
         BY <3>1 DEF IInv, AnswersNameMessages
      <3>4. req'[t] = req[t] /\ Key(t)' = Key(s)'
         BY <1>0, <3>2 DEF StepOf, Requests, Key
      <3>5. QED
         BY <1>2, <1>3, <3>1, <3>2, <3>3, <3>4 DEF Recalled
   <2>2. QED
      BY <2>1 DEF AnswersNameMessages
<1>15. KeysFit'
   BY <1>4 DEF IInv, KeysFit, KeyFits, StepOf, CommitOf, Requests, Key, Keyed,
      Answered
<1>16. QED
   BY <1>6, <1>7, <1>8, <1>9, <1>10, <1>11, <1>12, <1>13, <1>14, <1>15 DEF IInv

\* COMMIT of a send, which answers "sent".
LEMMA CommitSendKeeps ==
    ASSUME IInv, NEW r \in Sends, CommitSend(r)
    PROVE  IInv'
<1>1. r \in Requests /\ WriteSend(r) /\ Ends(r, "sent") /\ req[r].pc = "commit"
   BY DEF CommitSend, Requests
<1>2. CommitOf(r) /\ req'[r].pc = "done" /\ req'[r].answer = "sent"
   BY <1>1 DEF CommitSend, CommitOf, StepOf, Ends, Becomes, bounds, Undisturbed,
      IInv, BoundsOK, TypeOK, Request, Labels, Answers
<1>3. QED
   BY <1>1, <1>2, SendWrites

\* COMMIT of a send answers with an error, with or without effect.
LEMMA CommitSendErrorKeeps ==
    ASSUME IInv, NEW r \in Sends, CommitSendError(r)
    PROVE  IInv'
<1>1. CASE UNCHANGED table
   BY <1>1, SendIsLost
<1>2. CASE WriteSend(r)
   <2>1. r \in Requests /\ req[r].pc = "commit"
      BY DEF CommitSendError, Requests
   <2>2. UNCHANGED <<used, expired>> /\ commitErrors' \in Nat /\ ~ Undisturbed'
      BY DEF CommitSendError, Undisturbed, IInv, BoundsOK
   <2>3. CASE Keyed(r)
      <3>1. Becomes(r, "reset", req[r].id, "none", {}, FALSE, FALSE)
         BY <2>3 DEF CommitSendError
      <3>2. CommitOf(r) /\ req'[r].pc = "reset" /\ req'[r].answer = "none"
         BY <2>1, <2>2, <3>1 DEF CommitOf, StepOf, Becomes, IInv, TypeOK,
            Request, Labels, Answers
      <3>3. QED
         BY <1>2, <2>2, <2>3, <3>2, SendWrites
   <2>4. CASE ~ Keyed(r)
      <3>1. Becomes(r, "done", req[r].id, "error", {}, FALSE, FALSE)
         BY <2>4 DEF CommitSendError, Ends
      <3>2. CommitOf(r) /\ req'[r].pc = "done" /\ req'[r].answer = "error"
         BY <2>1, <2>2, <3>1 DEF CommitOf, StepOf, Becomes, IInv, TypeOK,
            Request, Labels, Answers
      <3>3. QED
         BY <1>2, <2>2, <3>2, SendWrites
   <2>5. QED
      BY <2>3, <2>4
<1>3. QED
   BY <1>1, <1>2 DEF CommitSendError

\* COMMIT of a recall, which answers "recalled".
LEMMA CommitRecallKeeps ==
    ASSUME IInv, NEW r \in Recalls, CommitRecall(r)
    PROVE  IInv'
<1>1. r \in Requests /\ WriteRecall(r) /\ Ends(r, "recalled") /\ req[r].pc = "commit"
   BY DEF CommitRecall, Requests
<1>2. CommitOf(r) /\ req'[r].pc = "done" /\ req'[r].answer = "recalled"
   BY <1>1 DEF CommitRecall, CommitOf, StepOf, Ends, Becomes, bounds, Undisturbed,
      IInv, BoundsOK, TypeOK, Request, Labels, Answers
<1>3. QED
   BY <1>1, <1>2, RecallWrites

\* COMMIT of a recall answers with an error, with or without effect.
LEMMA CommitRecallErrorKeeps ==
    ASSUME IInv, NEW r \in Recalls, CommitRecallError(r)
    PROVE  IInv'
<1>1. CASE UNCHANGED table
   BY <1>1, RecallIsLost
<1>2. CASE WriteRecall(r)
   <2>1. r \in Requests /\ req[r].pc = "commit" /\ Ends(r, "error")
      BY DEF CommitRecallError, Requests
   <2>2. UNCHANGED <<used, expired>> /\ commitErrors' \in Nat /\ ~ Undisturbed'
      BY DEF CommitRecallError, Undisturbed, IInv, BoundsOK
   <2>3. CommitOf(r) /\ req'[r].pc = "done" /\ req'[r].answer = "error"
      BY <2>1, <2>2 DEF CommitOf, StepOf, Ends, Becomes, IInv, TypeOK, Request,
         Labels, Answers
   <2>4. QED
      BY <1>2, <2>2, <2>3, RecallWrites
<1>3. QED
   BY <1>1, <1>2 DEF CommitRecallError

-----------------------------------------------------------------------------
(***************************************************************************)
(* The rest of the system.                                                 *)
(***************************************************************************)
\* The recipient blocks the sender or takes the block back.
LEMMA SetBlockedKeeps ==
    ASSUME IInv, NEW u \in Users, SetBlocked(u)
    PROVE  IInv'
<1>1. UNCHANGED <<messages, cache, participants, deleted, idem, used, req, commitErrors, expired>>
   BY DEF SetBlocked
<1>2. blocked' \in SUBSET participants
   BY DEF SetBlocked, IInv, TypeOK
<1>3. TypeOK' /\ BoundsOK'
   BY <1>1, <1>2 DEF IInv, TypeOK, BoundsOK
<1>4. QED
   BY <1>1, <1>3
      DEF IInv, JoinTogether, IdsDiffer, Pending, ListFits, CacheHeld, RecordsName, RecordNames,
          Carries, PcsFit, PcFits, Keyed, RecallsFit, RecallFits, InFlight, JoinsFit, JoinFits,
          AnswersNameMessages, Answered, Key, KeysFit, KeyFits, Undisturbed

\* An account is deleted with its participant row: no transaction refers to it then.
LEMMA DeleteUserKeeps ==
    ASSUME IInv, NEW u \in Users, DeleteUser(u)
    PROVE  IInv'
<1>1. /\ UNCHANGED <<messages, cache, idem, used, req, commitErrors, expired>>
      /\ deleted' = deleted \cup {u} /\ participants' = participants \ {u}
      /\ blocked' = blocked \ {u}
   BY DEF DeleteUser
<1>2. TypeOK' /\ BoundsOK'
   BY <1>1 DEF IInv, TypeOK, BoundsOK
<1>3. JoinTogether'
   BY <1>1 DEF IInv, JoinTogether
<1>4. JoinsFit'
   <2>1. \A r \in Sends : u \notin req[r].joins
      BY DEF DeleteUser, RowHeld
   <2>2. QED
      BY <1>1, <2>1 DEF IInv, JoinsFit, JoinFits
<1>5. QED
   BY <1>1, <1>2, <1>3, <1>4
      DEF IInv, IdsDiffer, Pending, ListFits, CacheHeld, RecordsName, RecordNames,
          Carries, PcsFit, PcFits, Keyed, RecallsFit, RecallFits, InFlight,
          AnswersNameMessages, Answered, Key, KeysFit, KeyFits, Undisturbed

\* The cleanup deletes an old record: the key is free again.
LEMMA ExpireRecordKeeps ==
    ASSUME IInv, NEW uk \in Users \X Keys, ExpireRecord(uk)
    PROVE  IInv'
<1>1. /\ UNCHANGED <<messages, cache, participants, blocked, deleted, used, req, commitErrors>>
      /\ expired' = expired + 1 /\ idem' = [idem EXCEPT ![uk] = Absent]
   BY DEF ExpireRecord
<1>2. TypeOK' /\ BoundsOK' /\ ~ Undisturbed'
   BY <1>1 DEF IInv, TypeOK, BoundsOK, Undisturbed
<1>3. RecordsName'
   <2>1. ASSUME NEW v \in Users, NEW k \in Keys, idem'[<<v, k>>] > 0
         PROVE  RecordNames(v, k)'
      <3>2. idem'[<<v, k>>] = idem[<<v, k>>]
         BY <1>1, <2>1 DEF Absent
      <3>3. QED
         BY <1>1, <2>1, <3>2 DEF IInv, RecordsName, RecordNames, Carries
   <2>2. QED
      BY <2>1 DEF RecordsName
<1>4. QED
   BY <1>1, <1>2, <1>3 DEF IInv, JoinTogether, IdsDiffer, Pending, ListFits,
      CacheHeld, PcsFit, PcFits, Keyed, RecallsFit, RecallFits, InFlight, JoinsFit,
      JoinFits, AnswersNameMessages, Answered, Key, KeysFit

\* Nothing happens.
LEMMA StutterKeeps ==
    ASSUME IInv, UNCHANGED vars
    PROVE  IInv'
BY DEF vars, table, bounds, IInv, TypeOK, BoundsOK, JoinTogether, IdsDiffer, Pending, ListFits,
   CacheHeld, RecordsName, RecordNames, Carries, PcsFit, PcFits, Keyed, RecallsFit, RecallFits,
   InFlight, JoinsFit, JoinFits, AnswersNameMessages, Answered, Key, KeysFit, KeyFits,
   Undisturbed

\* Every statement of a send keeps the invariant.
LEMMA SendStepKeeps ==
    ASSUME IInv, NEW r \in Sends, SendStep(r)
    PROVE  IInv'
<1>1. ASSUME ReadBlocked(r)
      PROVE  IInv'
   BY <1>1, SendGoesOn DEF ReadBlocked
<1>2. ASSUME ReadFriends(r)
      PROVE  IInv'
   BY <1>2, SendGoesOn DEF ReadFriends
<1>3. ASSUME Refuse(r)
      PROVE  IInv'
   <2>1. req[r].pc \in {"permission", "friends"} /\ Ends(r, "refused") /\ r \in Requests
      BY <1>3 DEF Refuse, Requests
   <2>2. UNCHANGED <<table, used, bounds>>
      BY <1>3 DEF Refuse
   <2>3. Quiet /\ UNCHANGED idem
      BY <2>2, QuietSteps DEF IInv, TypeOK, table
   <2>4. QED
      BY <2>1, <2>3, EndsKeeps DEF InFlight
<1>4. ASSUME ReadExists(r)
      PROVE  IInv'
   <2>1. UNCHANGED <<table, used, bounds>>
      BY <1>4 DEF ReadExists
   <2>2. CASE req[r].user \in participants
      <3>1. participants = Users \ deleted
         BY <2>2 DEF IInv, JoinTogether
      <3>2. Step(r, "exists", "idem")
         BY <1>4, <2>2 DEF ReadExists
      <3>3. QED
         BY <2>1, <3>1, <3>2, SendGoesOn
   <2>3. CASE req[r].user \notin participants
      <3>1. Step(r, "exists", "join")
         BY <1>4, <2>3 DEF ReadExists
      <3>2. QED
         BY <2>1, <3>1, SendGoesOn
   <2>4. QED
      BY <2>2, <2>3
<1>5. ASSUME InsertRows(r)
      PROVE  IInv'
   <2>1. req[r].pc \in {"join", "joinOther"} /\ r \in Requests
      BY <1>5 DEF InsertRows, InsertRow, Requests
   <2>2. PICK u \in Users : u = req[r].user
      BY <2>1 DEF IInv, PcsFit, PcFits
   <2>3. PICK v \in Users : v = Other(req[r].user)
      BY <2>2, OtherUser
   <2>4. InsertRow(r, u, "join", "joinOther") \/ InsertRow(r, v, "joinOther", "idem")
      BY <1>5, <2>2, <2>3 DEF InsertRows
   <2>5. QED
      BY <2>2, <2>3, <2>4, InsertRowKeeps
<1>6. ASSUME UpdateLastMsgCache(r)
      PROVE  IInv'
   <2>1. CacheHeld \ {r} = {}
      BY <1>6 DEF UpdateLastMsgCache, Free, WaitsFor, Step
   <2>2. QED
      BY <1>6, <2>1, SendGoesOn DEF UpdateLastMsgCache
<1>7. QED
   BY <1>1, <1>2, <1>3, <1>4, <1>5, <1>6, CheckDuplicateKeeps, CheckNewKeeps,
      GenerateForSendKeeps, UpdateRecordKeeps, CommitSendKeeps, CommitSendErrorKeeps,
      ResetRecordKeeps DEF SendStep

\* A statement that fails, or the database's choice in a deadlock, ends a request.
LEMMA FailureKeeps ==
    ASSUME IInv, NEW r \in Requests, Fail(r) \/ AbortDeadlock(r)
    PROVE  IInv'
<1>1. InFlight(r) /\ Ends(r, "error") /\ UNCHANGED <<table, used, bounds>>
   BY DEF Fail, AbortDeadlock
<1>2. Quiet /\ UNCHANGED idem
   BY <1>1, QuietSteps DEF IInv, TypeOK, table
<1>3. QED
   BY <1>1, <1>2, EndsKeeps

\* No message, no record, no request: the invariant holds at first.
LEMMA InitInv == Init => IInv
<1> SUFFICES ASSUME Init
             PROVE  IInv
   OBVIOUS
<1>1. /\ DOMAIN messages = {} /\ cache = [id |-> Nothing, recalled |-> FALSE]
      /\ participants \in {{}, Users} /\ blocked = {} /\ deleted = {} /\ used = {}
      /\ idem = [uk \in Users \X Keys |-> Absent]
      /\ commitErrors = 0 /\ expired = 0
   BY DEF Init, Conv!Blank, Nothing
<1>2. NewRequest \in Request
   BY DEF NewRequest, Request, Labels, Answers
<1>3. \A r \in Requests : req[r] = NewRequest
   BY DEF Init
<1>4. TypeOK /\ BoundsOK
   <2>1. req \in [Requests -> Request]
      BY <1>2 DEF Init
   <2>3. QED
      BY <1>1, <2>1 DEF TypeOK, BoundsOK
<1>5. \A r \in Requests : /\ req[r].pc = "idle" /\ req[r].answer = "none"
                          /\ req[r].id = Nothing /\ req[r].key = Nothing /\ req[r].joins = {}
                          /\ req[r].record = FALSE /\ req[r].shown = FALSE
                          /\ req[r].late = FALSE
   BY <1>3 DEF NewRequest
<1>6. JoinTogether /\ ListFits
   BY <1>1, <1>5 DEF JoinTogether, ListFits, CacheHeld, Requests
<1>7. IdsDiffer /\ PcsFit /\ RecallsFit /\ JoinsFit
   BY <1>5 DEF IdsDiffer, Pending, PcsFit, PcFits, RecallsFit, RecallFits, InFlight,
      JoinsFit, JoinFits, Requests
<1>8. RecordsName
   BY <1>1 DEF RecordsName, Absent
<1>9. AnswersNameMessages /\ KeysFit
   BY <1>5 DEF AnswersNameMessages, Answered, KeysFit, KeyFits, Requests
<1>10. QED
   BY <1>4, <1>6, <1>7, <1>8, <1>9 DEF IInv

\* Every step of the system keeps the invariant.
LEMMA StepInv == IInv /\ [Next]_vars => IInv'
<1> SUFFICES ASSUME IInv, [Next]_vars
             PROVE  IInv'
   OBVIOUS
<1>1. ASSUME NEW r \in Sends, SendStep(r)
      PROVE  IInv'
   BY <1>1, SendStepKeeps
<1>2. ASSUME NEW r \in Sends, NEW u \in Users, NEW k \in Keys \cup {NoKey}, BeginSend(r, u, k)
      PROVE  IInv'
   BY <1>2, BeginSendKeeps
<1>3. ASSUME NEW r \in Recalls, RecallStep(r)
      PROVE  IInv'
   BY <1>3, BlankMessageKeeps, InsertNoticeKeeps, ShowRecallKeeps, CommitRecallKeeps,
      CommitRecallErrorKeeps DEF RecallStep
<1>4. ASSUME NEW r \in Recalls, NEW u \in Users, NEW m \in DOMAIN messages, BeginRecall(r, u, m)
      PROVE  IInv'
   BY <1>4, BeginRecallKeeps
<1>5. ASSUME NEW r \in Requests, Fail(r) \/ AbortDeadlock(r)
      PROVE  IInv'
   BY <1>5, FailureKeeps
<1>6. ASSUME NEW u \in Users, SetBlocked(u) \/ DeleteUser(u)
      PROVE  IInv'
   BY <1>6, SetBlockedKeeps, DeleteUserKeeps
<1>7. ASSUME NEW uk \in Users \X Keys, ExpireRecord(uk)
      PROVE  IInv'
   BY <1>7, ExpireRecordKeeps
<1>8. CASE UNCHANGED vars
   BY <1>8, StutterKeeps
<1>9. QED
   BY <1>1, <1>2, <1>3, <1>4, <1>5, <1>6, <1>7, <1>8 DEF Next

\* While no COMMIT failed and no record was deleted, a late request stores nothing.
LEMMA LateStoresNothing == IInv => NoMessageAfterAnswer
<1>1. SUFFICES ASSUME IInv, Undisturbed, NEW r \in Sends, Keyed(r), req[r].late, Sent(r)
               PROVE  req[r].answer = "duplicate"
   BY DEF NoMessageAfterAnswer, Undisturbed
<1>2. KeyFits(r) /\ PcFits(r)
   BY <1>1 DEF IInv, KeysFit, PcsFit, Requests
<1>3. req[r].id \in DOMAIN messages /\ req[r].id # Nothing
   BY <1>1, Zero DEF Sent, IInv, TypeOK
<1>4. QED
   BY <1>1, <1>2, <1>3 DEF KeyFits, PcFits

-----------------------------------------------------------------------------
\* The inductive invariant holds in every reachable state.
THEOREM Invariance == Spec => []IInv
BY InitInv, StepInv, PTL DEF Spec

\* The tables keep their types, and the two participant rows of a conversation appear
\* together, whatever sends, recalls, deletions and errors interleave.
THEOREM InvHolds == Spec => []Inv
<1>1. IInv => Inv
   BY DEF IInv, Inv
<1>2. QED
   BY <1>1, Invariance, PTL

\* Who is answered "sent" or "duplicate" gets the identifier of a stored message of its own,
\* that was sent with its client_msg_id.
THEOREM AnswersAreTrue == Spec => []AnswersNameMessages
<1>1. IInv => AnswersNameMessages
   BY DEF IInv
<1>2. QED
   BY <1>1, Invariance, PTL

\* While no COMMIT failed and no record was deleted, a request that began after its
\* client_msg_id was answered stores no second message.
THEOREM AnsweredOnce == Spec => []NoMessageAfterAnswer
BY LateStoresNothing, Invariance, PTL

-----------------------------------------------------------------------------
(***************************************************************************)
(* Messaging implements Conversation: the commits are the abstract steps.  *)
(***************************************************************************)
\* The commit of a send is a post of the abstract conversation.
LEMMA SendPosts ==
    ASSUME IInv, NEW r \in Sends, req[r].pc = "commit", WriteSend(r)
    PROVE  Conv!Next
<1>1. PcFits(r)
   BY DEF IInv, PcsFit, Requests
<1>2. PICK id \in used, u \in Users :
         id = req[r].id /\ u = req[r].user /\ id \notin DOMAIN messages
   BY <1>1 DEF PcFits, Pending
<1>3. Conv!Post(u, id)
   BY <1>2 DEF WriteSend, Conv!Post
<1>4. id \in DOMAIN messages' \ DOMAIN messages
   BY <1>3 DEF Conv!Post, Conv!With
<1>5. QED
   BY <1>3, <1>4 DEF Conv!Next

\* The commit of a recall is a recall of the abstract conversation: the list shows it exactly
\* if its last message is the recalled one.
LEMMA RecallRecalls ==
    ASSUME IInv, NEW r \in Recalls, req[r].pc = "commit", WriteRecall(r)
    PROVE  Conv!Next
<1>1. PcFits(r) /\ RecallFits(r)
   BY DEF IInv, PcsFit, RecallsFit, Requests
<1>2. PICK id \in used, u \in Users, m \in DOMAIN messages :
         /\ id = req[r].id /\ u = req[r].user /\ m = req[r].target /\ id \notin DOMAIN messages
         /\ messages[m].from = u /\ messages[m].of = Nothing
         /\ req[r].shown <=> cache.id = m
   BY <1>1 DEF PcFits, Pending, RecallFits, InFlight
<1>3. Conv!Recall(u, m, id)
   BY <1>2 DEF WriteRecall, Conv!Recall, Nothing
<1>4. id \in DOMAIN messages' \ DOMAIN messages
   BY <1>3 DEF Conv!Recall, Conv!With
<1>5. QED
   BY <1>3, <1>4 DEF Conv!Next

\* Every other step leaves the messages and the list alone.
LEMMA StepsConverse ==
    ASSUME IInv, [Next]_vars
    PROVE  [Conv!Next]_<<messages, cache>>
<1> SUFFICES ASSUME ~ UNCHANGED <<messages, cache>>
             PROVE  Conv!Next
   OBVIOUS
<1>1. \/ \E r \in Sends : req[r].pc = "commit" /\ WriteSend(r)
      \/ \E r \in Recalls : req[r].pc = "commit" /\ WriteRecall(r)
   BY DEF Next, vars, table, SendStep, RecallStep, BeginSend, CheckDuplicate, CheckNew,
      GenerateForSend, Generate, ReadBlocked, ReadFriends, Refuse, ReadExists, InsertRows,
      InsertRow, UpdateRecord, UpdateLastMsgCache, CommitSend, CommitSendError, ResetRecord,
      BeginRecall, BlankMessage, InsertNotice, ShowRecall, CommitRecall, CommitRecallError,
      Fail, AbortDeadlock, SetBlocked, DeleteUser, ExpireRecord
<1>2. QED
   BY <1>1, SendPosts, RecallRecalls

\* Messaging implements Conversation: the transactions behave as if each post and each recall,
\* with its entry in the list, happened at once.
THEOREM Refinement == Spec => Serialised
<1>1. Init => Conv!Init
   BY DEF Init, Conv!Init
<1>2. IInv /\ [Next]_vars => [Conv!Next]_<<messages, cache>>
   BY StepsConverse
<1>3. QED
   BY <1>1, <1>2, Invariance, PTL DEF Spec, Serialised, Conv!Spec, Conv!vars

\* Messages are never deleted.
LEMMA MessagesStay ==
    ASSUME IInv, [Next]_vars
    PROVE  DOMAIN messages \subseteq DOMAIN messages'
<1>1. CASE UNCHANGED messages
   BY <1>1
<1>2. ASSUME NEW u \in Users, NEW id, Conv!Post(u, id)
      PROVE  DOMAIN messages \subseteq DOMAIN messages'
   BY <1>2 DEF Conv!Post, Conv!With
<1>3. ASSUME NEW u \in Users, NEW m, NEW id, Conv!Recall(u, m, id)
      PROVE  DOMAIN messages \subseteq DOMAIN messages'
   BY <1>3 DEF Conv!Recall, Conv!With
<1>4. QED
   BY <1>2, <1>3, StepsConverse DEF Conv!Next

-----------------------------------------------------------------------------
(***************************************************************************)
(* The readers of the conversation.                                        *)
(***************************************************************************)
\* What a follower holds, or missed, is stored; what it missed is behind its cursor.
FollowerFits(f) ==
    /\ follower[f].cursor \in Nat /\ follower[f].cursor >= 1
    /\ follower[f].held \subseteq Stored /\ follower[f].passed \subseteq Stored
    /\ {i \in Stored : i <= follower[f].cursor} \ follower[f].held = follower[f].passed
    /\ follower[f].caughtUp => \A i \in Stored : i <= follower[f].cursor

\* How many messages have a newer ts.
Newer(i) == Cardinality({j \in Stored : ts[j] > ts[i]})

\* Every stored message has a time.
TimesFit == ts \in [Stored -> Nat]

\* A pager holds what is owed of as many of the newest messages as its pages had,
\* which are fewer of those it is owed the more came since; but for ties.
PagerFits(p) ==
    /\ pager[p].page \in Nat /\ pager[p].page >= 1
    /\ pager[p].owed \subseteq Stored
    /\ \A i \in pager[p].owed :
          ~ Tied(i) /\ Newer(i) < (pager[p].page - 1) * PageSize => i \in pager[p].held
    /\ pager[p].done => \A i \in pager[p].owed : ~ Tied(i) => i \in pager[p].held

\* What every reader carries.
ReadersOK ==
    /\ follower \in [Followers -> [pc : {"check", "fetch"}, cursor : Nat, held : SUBSET Ids,
                                   passed : SUBSET Ids, caughtUp : BOOLEAN]]
    /\ pager \in [Pagers -> [page : Nat, held : SUBSET Ids, done : BOOLEAN, owed : SUBSET Ids]]

\* What holds of the readers: part of the inductive invariant.
ReadersFit ==
    /\ ReadersOK /\ TimesFit
    /\ \A f \in Followers : FollowerFits(f)
    /\ \A p \in Pagers : PagerFits(p)

-----------------------------------------------------------------------------
(***************************************************************************)
(* Finite sets of identifiers.                                             *)
(***************************************************************************)
\* A finite set of numbers that is not empty has a greatest one, which is Max.
LEMMA MaxExists ==
    ASSUME NEW S \in SUBSET Nat, IsFiniteSet(S), S # {}
    PROVE  Max(S) \in S /\ \A i \in S : i <= Max(S)
<1> DEFINE Over(i) == {j \in S : j > i}
<1> DEFINE T == {Over(i) : i \in S}
<1>1. IsWellFoundedOn(StrictSubsetOrdering(S), FiniteSubsetsOf(S))
   BY FS_StrictSubsetOrderingWellFounded
<1>2. T \subseteq FiniteSubsetsOf(S) /\ T # {}
   <2>1. T \subseteq SUBSET S /\ T # {}
      OBVIOUS
   <2>2. QED
      BY <2>1, FS_FiniteSubsetsOfFinite
<1>3. PICK U \in T : \A V \in T : ~ (<<V, U>> \in StrictSubsetOrdering(S))
   <2> HIDE DEF T
   <2>1. QED
      BY <1>1, <1>2, WFMin
<1>4. PICK m \in S : U = Over(m)
   OBVIOUS
<1>5. ASSUME NEW i \in S, ~ (i <= m)
      PROVE  FALSE
   <2>1. /\ Over(i) \subseteq Over(m) /\ i \in Over(m) /\ i \notin Over(i)
      <3>1. i > m /\ ~ (i > i) /\ \A j \in S : j > i => j > m
         BY <1>5
      <3> HIDE DEF T
      <3>2. QED
         BY <3>1
   <2>2. Over(i) \in SUBSET S /\ Over(m) \in SUBSET S
      OBVIOUS
   <2>3. <<Over(i), Over(m)>> \in StrictSubsetOrdering(S)
      <3> HIDE DEF Over, T
      <3>1. QED
         BY <2>1, <2>2 DEF StrictSubsetOrdering
   <2>4. QED
      BY <1>3, <1>4, <2>3
<1>6. m \in S /\ \A i \in S : m >= i
   BY <1>5
<1>7. Max(S) \in S /\ \A i \in S : Max(S) >= i
   BY <1>6 DEF Max
<1>8. QED
   BY <1>7

\* So it has a least one.
LEMMA LeastExists ==
    ASSUME NEW S \in SUBSET Nat, IsFiniteSet(S), S # {}
    PROVE  \E m \in S : \A i \in S : m <= i
<1> DEFINE Under(i) == {j \in S : j < i}
<1> DEFINE T == {Under(i) : i \in S}
<1>1. IsWellFoundedOn(StrictSubsetOrdering(S), FiniteSubsetsOf(S))
   BY FS_StrictSubsetOrderingWellFounded
<1>2. T \subseteq FiniteSubsetsOf(S) /\ T # {}
   <2>1. T \subseteq SUBSET S /\ T # {}
      OBVIOUS
   <2>2. QED
      BY <2>1, FS_FiniteSubsetsOfFinite
<1>3. PICK U \in T : \A V \in T : ~ (<<V, U>> \in StrictSubsetOrdering(S))
   <2> HIDE DEF T
   <2>1. QED
      BY <1>1, <1>2, WFMin
<1>4. PICK m \in S : U = Under(m)
   OBVIOUS
<1>5. ASSUME NEW i \in S, ~ (m <= i)
      PROVE  FALSE
   <2>1. /\ Under(i) \subseteq Under(m) /\ i \in Under(m) /\ i \notin Under(i)
      <3>1. i < m /\ ~ (i < i) /\ \A j \in S : j < i => j < m
         BY <1>5
      <3> HIDE DEF T
      <3>2. QED
         BY <3>1
   <2>2. Under(i) \in SUBSET S /\ Under(m) \in SUBSET S
      OBVIOUS
   <2>3. <<Under(i), Under(m)>> \in StrictSubsetOrdering(S)
      <3> HIDE DEF Under, T
      <3>1. QED
         BY <2>1, <2>2 DEF StrictSubsetOrdering
   <2>4. QED
      BY <1>3, <1>4, <2>3
<1>6. QED
   BY <1>5

\* Those that an order gives a number from a on and below b.
Between(S, order, a, b) == {i \in S : a <= order[i] /\ order[i] < b}

\* An order gives each of these numbers to one.
LEMMA Numbered ==
    ASSUME NEW S, NEW n \in Nat, NEW order \in Bijection(S, 0 .. n - 1),
           NEW a \in Nat, NEW b \in Nat, a <= b, b <= n
    PROVE  Cardinality(Between(S, order, a, b)) = b - a
<1> DEFINE R == {i \in S : a <= order[i] /\ order[i] < b}
<1>0. PICK c \in Int : c = b - 1
   OBVIOUS
<1> DEFINE g == [k \in a .. c |-> CHOOSE i \in S : order[i] = k]
<1>1. /\ order \in [S -> 0 .. n - 1]
      /\ \A i, j \in S : order[i] = order[j] => i = j
      /\ \A k \in 0 .. n - 1 : \E i \in S : order[i] = k
   BY DEF Bijection, Injection, Surjection, IsInjective
<1>2. ASSUME NEW k \in a .. c
      PROVE  g[k] \in S /\ order[g[k]] = k
   <2>1. \E i \in S : order[i] = k
      BY <1>0, <1>1, <1>2
   <2>2. QED
      BY <2>1
<1> HIDE DEF g
<1>3. \A k \in a .. c : g[k] \in R
   BY <1>0, <1>2
<1>4. g \in [a .. c -> R]
   BY <1>3 DEF g
<1>5. \A k, l \in a .. c : g[k] = g[l] => k = l
   BY <1>2
<1>6. ASSUME NEW i \in R
      PROVE  \E k \in a .. c : g[k] = i
   <2>1. i \in S /\ order[i] \in Nat /\ a <= order[i] /\ order[i] < b
      BY <1>1
   <2>2. order[i] \in a .. c
      BY <1>0, <2>1
   <2>3. g[order[i]] = i
      BY <1>1, <1>2, <2>1, <2>2
   <2>4. QED
      BY <2>2, <2>3
<1>7. g \in Bijection(a .. c, R)
   BY <1>4, <1>5, <1>6 DEF Bijection, Injection, Surjection, IsInjective
<1>8. IsFiniteSet(a .. c) /\ Cardinality(a .. c) = b - a
   <2>1. a \in Int /\ c \in Int
      OBVIOUS
   <2>2. /\ IsFiniteSet(a .. c)
         /\ Cardinality(a .. c) = (IF a > c THEN 0 ELSE c - a + 1)
      BY <2>1, FS_Interval
   <2>3. a > c => b - a = 0
      BY <1>0
   <2>4. a <= c => c - a + 1 = b - a
      BY <1>0
   <2>5. QED
      BY <2>1, <2>2, <2>3, <2>4
<1>9. ExistsBijection(a .. c, R)
   BY <1>7 DEF ExistsBijection
<1> HIDE DEF R
<1>10. Cardinality(R) = b - a
   BY <1>8, <1>9, FS_Bijection
<1>11. QED
   BY <1>10 DEF R, Between

-----------------------------------------------------------------------------
(***************************************************************************)
(* The pages of GetMessagesAfter.                                          *)
(***************************************************************************)
\* Who is among the first n has the smaller ones before it.
LEMMA FirstClosed ==
    ASSUME NEW S \in SUBSET Nat, IsFiniteSet(S), NEW n \in Nat,
           NEW i \in FirstOf(n, S), NEW j \in S, j <= i
    PROVE  j \in FirstOf(n, S)
<1> DEFINE A == {k \in S : k <= i}
<1> DEFINE B == {k \in S : k <= j}
<1>1. i \in S /\ Cardinality(A) <= n
   BY DEF FirstOf
<1>2. \A k \in S : k <= j => k <= i
   BY <1>1
<1>3. A \in SUBSET S /\ B \in SUBSET A
   BY <1>2
<1>4. Cardinality(B) <= Cardinality(A) /\ Cardinality(A) \in Nat /\ Cardinality(B) \in Nat
   <2> HIDE DEF A, B
   <2>1. QED
      BY <1>3, FS_Subset, FS_CardinalityType
<1>5. QED
   BY <1>4 DEF FirstOf

\* All are, if there are no more than n.
LEMMA FirstAll ==
    ASSUME NEW S \in SUBSET Nat, IsFiniteSet(S), NEW n \in Nat, Cardinality(S) <= n
    PROVE  FirstOf(n, S) = S
<1>1. ASSUME NEW i \in S
      PROVE  Cardinality({k \in S : k <= i}) <= n
   <2>2. /\ Cardinality({k \in S : k <= i}) \in Nat /\ Cardinality(S) \in Nat
         /\ Cardinality({k \in S : k <= i}) <= Cardinality(S)
      BY FS_Subset, FS_CardinalityType
   <2>3. QED
      BY <2>2
<1>2. QED
   BY <1>1 DEF FirstOf

\* There are no more than n, if no more than n are among the first n + 1.
LEMMA FirstShort ==
    ASSUME NEW S \in SUBSET Nat, IsFiniteSet(S), NEW n \in Nat,
           Cardinality(FirstOf(n + 1, S)) <= n
    PROVE  FirstOf(n + 1, S) = S
<1> DEFINE F == FirstOf(n + 1, S)
<1>1. F \in SUBSET S /\ (S \ F) \in SUBSET S /\ (S \ F) \in SUBSET Nat
   BY DEF FirstOf
<1>2. IsFiniteSet(F) /\ IsFiniteSet(S \ F) /\ Cardinality(F) \in Nat
   <2> HIDE DEF F
   <2>1. QED
      BY <1>1, FS_Subset, FS_CardinalityType
<1>3. SUFFICES ASSUME S \ F # {}
               PROVE  FALSE
   BY <1>1
<1>4. PICK m \in S \ F : \A i \in S \ F : m <= i
   <2> HIDE DEF F
   <2>1. QED
      BY <1>2, <1>3, LeastExists
<1>5. DEFINE A == {k \in S : k <= m}
<1>6. A \in SUBSET (F \cup {m})
   <2>1. ASSUME NEW k \in S, k <= m, k \notin F
         PROVE  k = m
      <3>1. m <= k /\ m \in Nat /\ k \in Nat
         BY <1>4, <2>1
      <3>2. QED
         BY <2>1, <3>1
   <2>2. QED
      BY <2>1
<1>7. Cardinality(A) <= n + 1
   <2> HIDE DEF F, A
   <2>0. /\ IsFiniteSet(F \cup {m})
         /\ Cardinality(F \cup {m}) = IF m \in F THEN Cardinality(F) ELSE Cardinality(F) + 1
      BY <1>2, FS_AddElement
   <2>1. /\ IsFiniteSet(F \cup {m}) /\ Cardinality(F \cup {m}) <= Cardinality(F) + 1
         /\ Cardinality(F \cup {m}) \in Nat
      BY <2>0, FS_CardinalityType
   <2>2. Cardinality(A) <= Cardinality(F \cup {m}) /\ Cardinality(A) \in Nat
      BY <1>6, <2>1, FS_Subset, FS_CardinalityType
   <2>3. Cardinality(F) <= n
      BY DEF F
   <2>4. QED
      BY <1>2, <2>1, <2>2, <2>3
<1>8. m \in F
   BY <1>7 DEF FirstOf
<1>9. QED
   BY <1>8

\* The messages table is a finite set of identifiers.
LEMMA StoredIsFinite ==
    ASSUME IInv
    PROVE  Stored \in SUBSET Nat /\ Stored \subseteq Ids /\ IsFiniteSet(Stored)
<1>1. Stored \in SUBSET Ids
   BY DEF IInv, TypeOK, Stored
<1>2. QED
   BY <1>1, FS_Subset, MessagingAssumption

\* A page has the smallest messages above the cursor, its last_msg_id is the greatest of
\* them, and it has all of them unless it says that there are more.
LEMMA PageFits ==
    ASSUME IInv, NEW cursor \in Nat, NEW page, page = Page(cursor, PageSize + 1)
    PROVE  /\ page.hasMore \in BOOLEAN /\ page.messages \subseteq Above(cursor)
           /\ \A i \in page.messages : \A j \in Above(cursor) : j <= i => j \in page.messages
           /\ page.messages = {} => page.lastId = 0
           /\ page.messages # {} =>
                 page.lastId \in page.messages /\ \A i \in page.messages : i <= page.lastId
           /\ ~ page.hasMore => page.messages = Above(cursor)
<1> DEFINE A == Above(cursor)
<1> DEFINE R == FirstOf(PageSize + 1, A)
<1> DEFINE G == FirstOf(PageSize, R)
<1>1. PageSize \in Nat /\ PageSize + 1 \in Nat /\ PageSize + 1 - 1 = PageSize
   BY PollingAssumption
<1>2. page = [messages |-> G, hasMore |-> Cardinality(R) > PageSize,
              lastId |-> IF G = {} THEN 0 ELSE Max(G)]
   BY <1>1 DEF Page, RowsAfter, LastId
<1>3. /\ page.messages = G /\ page.hasMore = (Cardinality(R) > PageSize)
      /\ page.lastId = IF G = {} THEN 0 ELSE Max(G)
   <2> HIDE DEF G, R
   <2>1. QED
      BY <1>2
<1>4. G \in SUBSET R /\ R \in SUBSET A /\ A \in SUBSET Stored
   BY DEF FirstOf, Above
<1>5. /\ A \in SUBSET Nat /\ R \in SUBSET Nat /\ G \in SUBSET Nat
      /\ IsFiniteSet(A) /\ IsFiniteSet(R) /\ IsFiniteSet(G) /\ Cardinality(R) \in Nat
   <2> HIDE DEF G, R, A
   <2>1. A \in SUBSET Nat /\ R \in SUBSET Nat /\ G \in SUBSET Nat
      BY <1>4, StoredIsFinite
   <2>2. IsFiniteSet(A)
      BY <1>4, StoredIsFinite, FS_Subset
   <2>4. QED
      BY <1>4, <2>1, <2>2, FS_Subset, FS_CardinalityType
<1>6. ASSUME NEW i \in G, NEW j \in A, j <= i
      PROVE  j \in G
   <2>1. j \in R
      <3>1. i \in R
         BY <1>4
      <3> HIDE DEF A
      <3>2. QED
         BY <1>1, <1>5, <1>6, <3>1, FirstClosed
   <2> HIDE DEF R
   <2>2. QED
      BY <1>1, <1>5, <1>6, <2>1, FirstClosed
<1>7. ASSUME G # {}
      PROVE  Max(G) \in G /\ \A i \in G : i <= Max(G)
   <2> HIDE DEF G
   <2>1. QED
      BY <1>5, <1>7, MaxExists
<1>8. ASSUME ~ (Cardinality(R) > PageSize)
      PROVE  G = A
   <2>1. Cardinality(R) <= PageSize
      <3> HIDE DEF R
      <3>1. QED
         BY <1>1, <1>5, <1>8
   <2>2. G = R
      <3> HIDE DEF R
      <3>1. QED
         BY <1>1, <1>5, <2>1, FirstAll
   <2>3. R = A
      <3> HIDE DEF A
      <3>1. QED
         BY <1>1, <1>5, <2>1, FirstShort
   <2>4. QED
      BY <2>2, <2>3
<1>9. QED
   <2> HIDE DEF G, R, A
   <2>1. \A i \in G : \A j \in A : j <= i => j \in G
      BY <1>6
   <2>2. page.hasMore \in BOOLEAN
      <3>1. (Cardinality(R) > PageSize) \in BOOLEAN
         OBVIOUS
      <3>2. QED
         BY <1>3, <3>1, Zenon
   <2>3. QED
      BY <1>3, <1>4, <1>7, <1>8, <2>1, <2>2 DEF A

-----------------------------------------------------------------------------
(***************************************************************************)
(* The pages of GetConversationMessages.                                   *)
(***************************************************************************)
\* What an order of the query is.
LEMMA OrderIs ==
    ASSUME IInv, TimesFit, NEW order \in Orders
    PROVE  /\ Cardinality(Stored) \in Nat
           /\ order \in Bijection(Stored, 0 .. Cardinality(Stored) - 1)
           /\ \A i \in Stored : order[i] \in 0 .. Cardinality(Stored) - 1
           /\ \A i, j \in Stored : order[i] = order[j] => i = j
           /\ \A i, j \in Stored : ts[i] > ts[j] => order[i] < order[j]
<1>1. Cardinality(Stored) \in Nat
   BY StoredIsFinite, FS_CardinalityType
<1>2. /\ order \in Bijection(Stored, 0 .. Cardinality(Stored) - 1)
      /\ \A i, j \in Stored : ts[i] > ts[j] => order[i] < order[j]
   BY DEF Orders
<1>3. QED
   BY <1>1, <1>2 DEF Bijection, Injection, IsInjective

\* In every order, just the newer messages come before one that shares its ts with none.
LEMMA PlaceIsFixed ==
    ASSUME IInv, TimesFit, NEW order \in Orders, NEW i \in Stored, ~ Tied(i)
    PROVE  order[i] = Newer(i)
<1> DEFINE Before == {j \in Stored : 0 <= order[j] /\ order[j] < order[i]}
<1>1. Before = {j \in Stored : ts[j] > ts[i]}
   <2>1. ASSUME NEW j \in Stored
         PROVE  0 <= order[j] /\ order[j] < order[i] <=> ts[j] > ts[i]
      <3>1. order[j] \in Nat /\ order[i] \in Nat /\ ts[j] \in Nat /\ ts[i] \in Nat
         BY OrderIs DEF TimesFit
      <3>2. j # i => ts[j] # ts[i]
         BY DEF Tied
      <3>3. ts[j] > ts[i] => order[j] < order[i]
         BY OrderIs
      <3>4. ts[i] > ts[j] => order[i] < order[j]
         BY OrderIs
      <3>5. QED
         BY <3>1, <3>2, <3>3, <3>4
   <2>2. QED
      BY <2>1
<1>2. Cardinality(Before) = order[i] - 0
   <2>1. PICK n \in Nat : n = Cardinality(Stored)
      BY OrderIs
   <2>2. order \in Bijection(Stored, 0 .. n - 1) /\ order[i] \in Nat /\ order[i] <= n
      BY <2>1, OrderIs
   <2> HIDE DEF Before
   <2>3. 0 <= order[i] /\ 0 \in Nat
      BY <2>2
   <2>4. Cardinality(Between(Stored, order, 0, order[i])) = order[i] - 0
      BY <2>2, <2>3, Numbered
   <2>5. QED
      BY <2>4 DEF Before, Between
<1>3. order[i] \in Nat
   BY OrderIs
<1>4. QED
   BY <1>1, <1>2, <1>3 DEF Newer

\* If there is no row to cut, no message comes after those of the page.
LEMMA RowsEnd ==
    ASSUME IInv, TimesFit, NEW order \in Orders, NEW offset \in Nat,
           ~ (Cardinality(RowsAt(order, PageSize + 1, offset)) > PageSize), NEW i \in Stored
    PROVE  order[i] < offset + PageSize
<1>1. PageSize \in Nat /\ order[i] \in Nat /\ order[i] <= Cardinality(Stored) - 1
   BY OrderIs, PollingAssumption
<1>2. SUFFICES ASSUME offset + (PageSize + 1) <= Cardinality(Stored)
               PROVE  FALSE
   BY <1>1, OrderIs
<1>3. PICK end \in Nat : end = offset + (PageSize + 1) /\ offset <= end
   BY <1>1
<1>4. Cardinality(RowsAt(order, PageSize + 1, offset)) = end - offset
   <2>1. PICK n \in Nat : n = Cardinality(Stored)
      BY OrderIs
   <2>2. order \in Bijection(Stored, 0 .. n - 1) /\ end <= n
      BY <1>2, <1>3, <2>1, OrderIs
   <2>3. Cardinality(Between(Stored, order, offset, end)) = end - offset
      BY <1>3, <2>2, Numbered
   <2>4. RowsAt(order, PageSize + 1, offset) = Between(Stored, order, offset, end)
      BY <1>3 DEF RowsAt, Between
   <2>5. QED
      BY <2>3, <2>4
<1>5. QED
   BY <1>1, <1>3, <1>4

-----------------------------------------------------------------------------
(***************************************************************************)
(* The steps of the servers and of the readers.                            *)
(***************************************************************************)
\* What is stored behind a cursor is noted as passed; a pager is owed none of it.
LEMMA ServeKeeps ==
    ASSUME IInv, ReadersFit, Serve
    PROVE  ReadersFit'
<1>1. IInv' /\ Stored \subseteq Stored'
   BY StepInv, MessagesStay DEF Serve, Stored
<1>2. /\ Stored \in SUBSET Nat /\ Stored' \in SUBSET Nat /\ Stored' \subseteq Ids
      /\ IsFiniteSet(Stored) /\ IsFiniteSet(Stored')
   <2>1. Stored' \in SUBSET Ids
      BY <1>1 DEF IInv, TypeOK, Stored
   <2>2. QED
      BY <2>1, StoredIsFinite, FS_Subset, MessagingAssumption
<1>3. pager' = pager
   BY DEF Serve
<1>4. ASSUME NEW f \in Followers
      PROVE  FollowerFits(f)' /\ follower'[f] \in [pc : {"check", "fetch"}, cursor : Nat,
                held : SUBSET Ids, passed : SUBSET Ids, caughtUp : BOOLEAN]
   <2>1. FollowerFits(f) /\ follower[f] \in [pc : {"check", "fetch"}, cursor : Nat,
                held : SUBSET Ids, passed : SUBSET Ids, caughtUp : BOOLEAN]
      BY DEF ReadersFit, ReadersOK
   <2>2. CASE Stored' = Stored
      <3>1. follower'[f] = follower[f]
         BY <2>2 DEF Serve, Stored
      <3>2. QED
         BY <2>1, <2>2, <3>1 DEF FollowerFits
   <2>3. CASE Stored' # Stored
      <3>1. follower'[f] = [pc |-> follower[f].pc, cursor |-> follower[f].cursor,
                            held |-> follower[f].held,
                            passed |-> follower[f].passed
                               \cup {i \in Stored' \ Stored : i <= follower[f].cursor},
                            caughtUp |-> FALSE]
         BY <2>3 DEF Serve, Stored
      <3>2. /\ follower'[f].pc = follower[f].pc /\ follower'[f].cursor = follower[f].cursor
            /\ follower'[f].held = follower[f].held /\ follower'[f].caughtUp = FALSE
            /\ follower'[f].passed = follower[f].passed
                  \cup {i \in Stored' \ Stored : i <= follower[f].cursor}
         BY <3>1
      <3>3. follower'[f] \in [pc : {"check", "fetch"}, cursor : Nat, held : SUBSET Ids,
                              passed : SUBSET Ids, caughtUp : BOOLEAN]
         <4>1. /\ follower[f].pc \in {"check", "fetch"} /\ follower[f].cursor \in Nat
               /\ follower[f].held \in SUBSET Ids /\ follower[f].passed \in SUBSET Ids
            BY <2>1
         <4>2. (follower[f].passed \cup {i \in Stored' \ Stored : i <= follower[f].cursor})
                  \in SUBSET Ids
            BY <1>2, <4>1
         <4>3. QED
            BY <3>1, <4>1, <4>2
      <3>4. QED
         BY <1>1, <2>1, <3>2, <3>3 DEF FollowerFits
   <2>4. QED
      BY <2>2, <2>3
<1>5. /\ TimesFit' /\ \A i \in Stored : ts'[i] = ts[i]
   <2>1. PICK t \in Times : ts' = [i \in DOMAIN messages' |-> IF i \in Stored THEN ts[i] ELSE t]
      BY DEF Serve
   <2>2. t \in Nat /\ ts \in [Stored -> Nat]
      BY PollingAssumption DEF ReadersFit, TimesFit
   <2>3. QED
      BY <1>1, <2>1, <2>2 DEF TimesFit, Stored
<1>6. ASSUME NEW i \in Stored
      PROVE  Newer(i) \in Nat /\ Newer(i)' \in Nat /\ Newer(i) <= Newer(i)'
             /\ (Tied(i) => Tied(i)')
   <2>1. {j \in Stored : ts[j] > ts[i]} \subseteq {j \in Stored' : ts'[j] > ts'[i]}
      BY <1>1, <1>5
   <2>2. {j \in Stored' : ts'[j] > ts'[i]} \subseteq Stored'
      OBVIOUS
   <2>3. QED
      BY <1>1, <1>2, <1>5, <2>1, <2>2, FS_Subset, FS_CardinalityType DEF Newer, Tied
<1>7. ASSUME NEW p \in Pagers
      PROVE  PagerFits(p)'
   <2>1. PagerFits(p)
      BY DEF ReadersFit
   <2>2. pager[p].owed \subseteq Stored'
      BY <1>1, <2>1 DEF PagerFits
   <2>3. (pager[p].page - 1) * PageSize \in Int
      BY <2>1, PollingAssumption DEF PagerFits
   <2>4. ASSUME NEW i \in pager[p].owed
         PROVE  ~ Tied(i)' /\ Newer(i)' < (pager[p].page - 1) * PageSize => i \in pager[p].held
      BY <1>6, <2>1, <2>3 DEF PagerFits
   <2>5. pager[p].done => \A i \in pager[p].owed : ~ Tied(i)' => i \in pager[p].held
      BY <1>6, <2>1 DEF PagerFits
   <2>6. QED
      BY <1>3, <2>1, <2>2, <2>4, <2>5 DEF PagerFits
<1>8. follower' \in [Followers -> [pc : {"check", "fetch"}, cursor : Nat, held : SUBSET Ids,
                                   passed : SUBSET Ids, caughtUp : BOOLEAN]]
   <2>1. follower' = [f \in Followers |-> follower'[f]]
      BY DEF Serve
   <2>2. QED
      BY <1>4, <2>1
<1>9. QED
   BY <1>3, <1>4, <1>5, <1>7, <1>8 DEF ReadersFit, ReadersOK

\* Who does not store a message does not touch the pagers.
LEMMA PagersAlone ==
    ASSUME ReadersFit, UNCHANGED <<messages, ts, pager>>
    PROVE  TimesFit' /\ \A p \in Pagers : PagerFits(p)'
BY DEF ReadersFit, TimesFit, PagerFits, Stored, Newer, Tied

\* The status only tells a follower to fetch.
LEMMA CheckKeeps ==
    ASSUME ReadersFit, NEW f \in Followers, Check(f)
    PROVE  ReadersFit'
<1>1. /\ messages' = messages /\ pager' = pager /\ ts' = ts
      /\ follower' = [follower EXCEPT ![f].pc = "fetch"]
   BY DEF Check, vars, table
<1>2. QED
   BY <1>1, PagersAlone DEF ReadersFit, ReadersOK, FollowerFits, Stored

\* A page takes a follower over what it is given and over nothing else.
LEMMA FetchKeeps ==
    ASSUME IInv, ReadersFit, NEW f \in Followers, Fetch(f)
    PROVE  ReadersFit'
<1>1. follower[f].cursor \in Nat /\ FollowerFits(f) /\ PageSize \in Nat
   BY PollingAssumption DEF ReadersFit, FollowerFits
<1>2. PICK cursor \in Nat : cursor = follower[f].cursor
   BY <1>1
<1>3. PICK page : page = Page(cursor, PageSize + 1)
   OBVIOUS
<1>4. /\ page.hasMore \in BOOLEAN /\ page.messages \subseteq Above(cursor)
      /\ \A i \in page.messages : \A j \in Above(cursor) : j <= i => j \in page.messages
      /\ page.messages = {} => page.lastId = 0
      /\ page.messages # {} =>
            page.lastId \in page.messages /\ \A i \in page.messages : i <= page.lastId
      /\ ~ page.hasMore => page.messages = Above(cursor)
   BY <1>3, PageFits
<1>5. PICK ms, last, more : /\ ms = page.messages /\ last = page.lastId
                            /\ more = page.hasMore /\ more \in BOOLEAN
   BY <1>4
<1>6. PICK now : now = IF last = 0 THEN cursor ELSE last
   OBVIOUS
<1>7. Stored \in SUBSET Nat /\ Stored \subseteq Ids /\ 0 \notin Stored
   BY StoredIsFinite, MessagingAssumption
<1>8. /\ ms \subseteq Stored /\ now \in Nat /\ cursor <= now
      /\ \A i \in Stored : i <= now /\ ~ (i <= cursor) <=> i \in ms
      /\ ~ more => \A i \in Stored : i <= now
   <2>1. ms \subseteq Stored /\ \A i \in ms : i > cursor
      BY <1>4, <1>5 DEF Above
   <2>2. CASE ms = {}
      <3>1. now = cursor
         BY <1>4, <1>5, <1>6, <2>2
      <3>2. ~ more => \A i \in Stored : i <= cursor
         BY <1>4, <1>5, <1>7, <2>2 DEF Above
      <3>3. QED
         BY <2>2, <3>1, <3>2
   <2>3. CASE ms # {}
      <3>1. last \in ms /\ \A i \in ms : i <= last
         BY <1>4, <1>5, <2>3
      <3>2. now = last /\ last \in Nat /\ last > cursor
         BY <1>6, <2>1, <3>1
      <3>3. \A i \in Stored : i <= last /\ ~ (i <= cursor) => i \in ms
         BY <1>4, <1>5, <1>7 DEF Above
      <3>4. ~ more => \A i \in Stored : i <= last
         <4>1. SUFFICES ASSUME ~ more, NEW i \in Stored
                        PROVE  i <= last
            OBVIOUS
         <4>2. i > cursor => i \in ms
            BY <1>4, <1>5, <4>1 DEF Above
         <4>3. QED
            BY <1>7, <3>1, <3>2, <4>2
      <3>5. \A i \in ms : i <= last /\ ~ (i <= cursor)
         BY <1>7, <2>1, <3>1
      <3>6. QED
         BY <2>1, <3>2, <3>3, <3>4, <3>5
   <2>4. QED
      BY <2>2, <2>3
<1>9. DEFINE next == [pc |-> IF more THEN "fetch" ELSE "check", held |-> follower[f].held \cup ms,
                      cursor |-> now, passed |-> follower[f].passed, caughtUp |-> ~ more]
<1>10. /\ follower' = [follower EXCEPT ![f] = next] /\ messages' = messages /\ pager' = pager
       /\ ts' = ts
   BY <1>2, <1>3, <1>5, <1>6 DEF Fetch, vars, table
<1>11. /\ next.pc \in {"check", "fetch"} /\ next.held = follower[f].held \cup ms
       /\ next.cursor = now /\ next.passed = follower[f].passed /\ next.caughtUp = ~ more
   OBVIOUS
<1>12. follower \in [Followers -> [pc : {"check", "fetch"}, cursor : Nat, held : SUBSET Ids,
                                   passed : SUBSET Ids, caughtUp : BOOLEAN]]
   BY DEF ReadersFit, ReadersOK
<1>13. next \in [pc : {"check", "fetch"}, cursor : Nat, held : SUBSET Ids, passed : SUBSET Ids,
                 caughtUp : BOOLEAN]
   <2>1. follower[f].held \in SUBSET Ids /\ follower[f].passed \in SUBSET Ids
      BY <1>12
   <2>3. QED
      BY <1>7, <1>8, <2>1
<1>14. HIDE DEF next
<1>15. /\ follower' \in [Followers -> [pc : {"check", "fetch"}, cursor : Nat, held : SUBSET Ids,
                                       passed : SUBSET Ids, caughtUp : BOOLEAN]]
       /\ follower'[f] = next /\ \A g \in Followers \ {f} : follower'[g] = follower[g]
   BY <1>10, <1>12, <1>13
<1>16. Stored' = Stored
   BY <1>10 DEF Stored
<1>17. FollowerFits(f)'
   <2>1. {i \in Stored : i <= cursor} \ follower[f].held = follower[f].passed
      BY <1>1, <1>2 DEF FollowerFits
   <2>2. \A i \in Stored : i <= now <=> i <= cursor \/ i \in ms
      BY <1>7, <1>8
   <2>3. {i \in Stored : i <= now} \ (follower[f].held \cup ms) = follower[f].passed
      <3>1. \A i \in follower[f].passed : i \notin ms
         BY <1>8, <2>1
      <3>2. QED
         BY <2>1, <2>2, <3>1
   <2>4. follower[f].held \cup ms \subseteq Stored /\ follower[f].passed \subseteq Stored
      BY <1>1, <1>8 DEF FollowerFits
   <2>5. now \in Nat /\ now >= 1
      BY <1>1, <1>2, <1>8 DEF FollowerFits
   <2>6. follower'[f].caughtUp => \A i \in Stored : i <= now
      BY <1>8, <1>11, <1>15
   <2>7. QED
      BY <1>11, <1>15, <1>16, <2>3, <2>4, <2>5, <2>6 DEF FollowerFits
<1>18. \A g \in Followers : FollowerFits(g)'
   BY <1>15, <1>16, <1>17 DEF ReadersFit, FollowerFits
<1>19. QED
   BY <1>10, <1>15, <1>18, PagersAlone DEF ReadersFit, ReadersOK

\* A page gives a pager as many of the newest messages as its offset says, and all of
\* them if there is no row to cut; but for ties, whose places vary.
LEMMA ReadPageKeeps ==
    ASSUME IInv, ReadersFit, NEW p \in Pagers, ReadPage(p)
    PROVE  ReadersFit'
<1>1. PICK n \in Nat : n = pager[p].page /\ n >= 1
   BY DEF ReadersFit, PagerFits
<1>2. PICK offset \in Nat : /\ offset = (n - 1) * PageSize
                            /\ offset + PageSize = (n + 1 - 1) * PageSize
                            /\ n = 1 => offset = 0
   <2>1. n - 1 \in Nat /\ PageSize \in Nat
      BY <1>1, PollingAssumption
   <2>2. (n - 1) * PageSize \in Nat
      BY <2>1
   <2>3. (n - 1) * PageSize + PageSize = (n + 1 - 1) * PageSize
      BY <2>1
   <2>4. n = 1 => (n - 1) * PageSize = 0
      BY <2>1
   <2>5. QED
      BY <2>2, <2>3, <2>4
<1>3. PICK order \in Orders :
         Reads(p, RowsAt(order, PageSize, offset),
               Cardinality(RowsAt(order, PageSize + 1, offset)) > PageSize)
   BY <1>1, <1>2 DEF ReadPage
<1>4. PICK more \in BOOLEAN : more = (Cardinality(RowsAt(order, PageSize + 1, offset)) > PageSize)
   <2>1. (Cardinality(RowsAt(order, PageSize + 1, offset)) > PageSize) \in BOOLEAN
      OBVIOUS
   <2>2. QED
      BY <2>1, Zenon
<1>5. PICK ms : ms = RowsAt(order, PageSize, offset)
   OBVIOUS
<1>6. PICK owed : owed = IF n = 1 THEN Stored ELSE pager[p].owed
   OBVIOUS
<1>7. DEFINE next == [page |-> n + 1, held |-> pager[p].held \cup ms, done |-> ~ more,
                      owed |-> owed]
<1>8. /\ pager' = [pager EXCEPT ![p] = next] /\ messages' = messages /\ follower' = follower
      /\ ts' = ts
   BY <1>1, <1>3, <1>4, <1>5, <1>6 DEF Reads, vars, table
<1>9. next.page = n + 1 /\ next.held = pager[p].held \cup ms /\ next.done = ~ more
      /\ next.owed = owed
   OBVIOUS
<1>10. pager \in [Pagers -> [page : Nat, held : SUBSET Ids, done : BOOLEAN, owed : SUBSET Ids]]
   BY DEF ReadersFit, ReadersOK
<1>11. PagerFits(p) /\ TimesFit /\ Stored \subseteq Ids /\ PageSize \in Nat
   BY StoredIsFinite, PollingAssumption DEF ReadersFit
<1>12. ms \subseteq Stored /\ owed \subseteq Stored
   BY <1>5, <1>6, <1>11 DEF RowsAt, PagerFits
<1>13. next \in [page : Nat, held : SUBSET Ids, done : BOOLEAN, owed : SUBSET Ids]
   <2>1. pager[p].held \in SUBSET Ids
      BY <1>10
   <2>2. (pager[p].held \cup ms) \in SUBSET Ids /\ owed \in SUBSET Ids
      <3>1. ms \subseteq Ids /\ owed \subseteq Ids
         BY <1>11, <1>12, Zenon
      <3> HIDE DEF next
      <3>2. QED
         BY <2>1, <3>1
   <2>4. QED
      BY <2>2
<1>14. HIDE DEF next
<1>15. /\ pager' \in [Pagers -> [page : Nat, held : SUBSET Ids, done : BOOLEAN, owed : SUBSET Ids]]
       /\ pager'[p] = next /\ \A q \in Pagers \ {p} : pager'[q] = pager[q]
   BY <1>8, <1>10, <1>13
<1>16. ASSUME NEW i \in owed, ~ Tied(i), Newer(i) < offset + PageSize
       PROVE  i \in pager[p].held \cup ms
   <2>1. i \in Stored /\ order[i] = Newer(i) /\ order[i] \in Nat
      BY <1>11, <1>12, <1>16, PlaceIsFixed, OrderIs
   <2>2. CASE offset <= order[i]
      BY <1>5, <1>16, <2>1, <2>2 DEF RowsAt
   <2>3. CASE ~ (offset <= order[i])
      <3>1. n # 1 /\ Newer(i) < (n - 1) * PageSize
         BY <1>2, <2>1, <2>3
      <3>2. QED
         BY <1>1, <1>6, <1>11, <1>16, <3>1 DEF PagerFits
   <2>4. QED
      BY <2>2, <2>3
<1>17. ASSUME ~ more, NEW i \in owed, ~ Tied(i)
       PROVE  i \in pager[p].held \cup ms
   <2>1. ~ (Cardinality(RowsAt(order, PageSize + 1, offset)) > PageSize)
      BY <1>4, <1>17, Zenon
   <2>2. order[i] < offset + PageSize
      BY <1>11, <1>12, <2>1, RowsEnd
   <2>3. Newer(i) < offset + PageSize
      BY <1>11, <1>12, <1>17, <2>2, PlaceIsFixed
   <2>4. QED
      BY <1>16, <1>17, <2>3
<1>18. Stored' = Stored /\ \A i : (Newer(i)' = Newer(i) /\ (Tied(i)' <=> Tied(i)))
   BY <1>8 DEF Stored, Newer, Tied
<1>19. PagerFits(p)'
   <2>1. /\ pager'[p].page = n + 1 /\ pager'[p].held = pager[p].held \cup ms
         /\ pager'[p].done = ~ more /\ pager'[p].owed = owed
      BY <1>9, <1>15
   <2>2. (pager'[p].page - 1) * PageSize = offset + PageSize
      BY <1>2, <2>1
   <2>3. \A i \in pager'[p].owed :
            ~ Tied(i)' /\ Newer(i)' < (pager'[p].page - 1) * PageSize => i \in pager'[p].held
      BY <1>16, <1>18, <2>1, <2>2
   <2>4. pager'[p].done => \A i \in pager'[p].owed : ~ Tied(i)' => i \in pager'[p].held
      BY <1>17, <1>18, <2>1
   <2>5. pager'[p].page \in Nat /\ pager'[p].page >= 1 /\ pager'[p].owed \subseteq Stored'
      BY <1>12, <1>18, <2>1
   <2>6. QED
      BY <2>3, <2>4, <2>5 DEF PagerFits
<1>20. \A q \in Pagers : PagerFits(q)'
   <2>1. ASSUME NEW q \in Pagers, q # p
         PROVE  PagerFits(q)'
      BY <1>15, <1>18, <2>1 DEF ReadersFit, PagerFits
   <2>2. QED
      BY <1>19, <2>1
<1>21. QED
   BY <1>8, <1>15, <1>18, <1>20 DEF ReadersFit, ReadersOK, TimesFit, FollowerFits

-----------------------------------------------------------------------------
\* Nothing is stored, and no reader has read: both invariants hold at first.
LEMMA ReadersInit == PInit => IInv /\ ReadersFit
<1> SUFFICES ASSUME PInit
             PROVE  IInv /\ ReadersFit
   OBVIOUS
<1>1. IInv /\ Stored = {}
   BY InitInv DEF PInit, Init, Stored
<1>2. ReadersOK
   BY DEF PInit, ReadersOK, NewFollower, NewPager, FirstCursor
<1>3. \A f \in Followers : FollowerFits(f)
   BY <1>1 DEF PInit, FollowerFits, NewFollower, FirstCursor
<1>4. TimesFit /\ \A p \in Pagers : PagerFits(p)
   BY <1>1 DEF PInit, TimesFit, PagerFits, NewPager
<1>5. QED
   BY <1>1, <1>2, <1>3, <1>4 DEF ReadersFit

\* Every step of the servers and of the readers keeps both invariants.
LEMMA ReadersStep == IInv /\ ReadersFit /\ [PNext]_pvars => IInv' /\ ReadersFit'
<1> SUFFICES ASSUME IInv, ReadersFit, [PNext]_pvars
             PROVE  IInv' /\ ReadersFit'
   OBVIOUS
<1>1. CASE Serve
   BY <1>1, StepInv, ServeKeeps DEF Serve
<1>2. ASSUME NEW f \in Followers, Check(f) \/ Fetch(f)
      PROVE  IInv' /\ ReadersFit'
   BY <1>2, CheckKeeps, FetchKeeps, StutterKeeps DEF Check, Fetch
<1>3. ASSUME NEW p \in Pagers, ReadPage(p)
      PROVE  IInv' /\ ReadersFit'
   BY <1>3, ReadPageKeeps, StutterKeeps DEF ReadPage, Reads
<1>4. CASE UNCHANGED pvars
   <2>1. UNCHANGED <<vars, messages, follower, pager, ts>>
      BY <1>4 DEF pvars, readers, vars, table
   <2>2. QED
      BY <2>1, StutterKeeps, PagersAlone DEF ReadersFit, ReadersOK, FollowerFits, Stored
<1>5. QED
   BY <1>1, <1>2, <1>3, <1>4 DEF PNext

\* Messaging's invariant and the readers' hold in every reachable state.
THEOREM ReadersInvariance == PSpec => [](IInv /\ ReadersFit)
BY ReadersInit, ReadersStep, PTL DEF PSpec

\* The readers only read: what is proved of Messaging holds of PSpec, too.
THEOREM ReadersOnlyRead == PSpec => Spec
<1>1. PInit => Init
   BY DEF PInit
<1>2. [PNext]_pvars => [Next]_vars
   BY DEF PNext, pvars, Serve, Check, Fetch, ReadPage, Reads
<1>3. QED
   BY <1>1, <1>2, PTL DEF PSpec, Spec

\* A follower lacks only what was stored behind its cursor after it had passed, and has
\* everything else once it is told that there is no more.
THEOREM NothingIsSkipped == PSpec => []FollowersHold
<1>1. ReadersFit => FollowersHold
   BY DEF ReadersFit, FollowerFits, FollowersHold, OnlyLateAreMissed, CaughtUp
<1>2. QED
   BY <1>1, ReadersInvariance, PTL

\* A client that pages back to the end gets every message stored when it began that is
\* alone in its millisecond, however many come between its pages and shift them, and in
\* whatever order each query gives the others.
THEOREM PagesCover == PSpec => []PagingLosesTiesOnly
<1>1. ReadersFit => PagingLosesTiesOnly
   BY DEF ReadersFit, PagerFits, PagingLosesTiesOnly
<1>2. QED
   BY <1>1, ReadersInvariance, PTL

-----------------------------------------------------------------------------
(***************************************************************************)
(* The ids of conversations.                                               *)
(***************************************************************************)
\* A public id is a sequence of PublicIDLength characters.
LEMMA PublicIDsFit ==
    ASSUME NEW a \in PublicIDs
    PROVE  /\ a \in Seq(Nat) /\ Len(a) = PublicIDLength /\ PublicIDLength \in Nat \ {0}
           /\ DOMAIN a = 1 .. PublicIDLength /\ \A i \in 1 .. PublicIDLength : a[i] \in Nat
<1>1. PublicIDLength \in Nat \ {0} /\ Alphabet \subseteq Nat
   BY ConvIdsAssumption
<1>2. a \in [1 .. PublicIDLength -> Nat]
   BY <1>1 DEF PublicIDs
<1>3. QED
   BY <1>1, <1>2

\* Of two public ids that differ one is less, and the other is not.
LEMMA LessIsTotal ==
    ASSUME NEW a \in PublicIDs, NEW b \in PublicIDs, a # b
    PROVE  Less(a, b) <=> ~ Less(b, a)
<1> DEFINE n == PublicIDLength
           D == {i \in 1 .. n : a[i] # b[i]}
<1>1. /\ Len(a) = n /\ Len(b) = n /\ n \in Nat /\ DOMAIN a = 1 .. n /\ DOMAIN b = 1 .. n
      /\ \A i \in 1 .. n : a[i] \in Nat /\ b[i] \in Nat
   BY PublicIDsFit
<1>2. D # {}
   <2>1. a \in [1 .. n -> Nat] /\ b \in [1 .. n -> Nat]
      BY ConvIdsAssumption DEF PublicIDs
   <2>2. SUFFICES ASSUME D = {} PROVE a = b
      OBVIOUS
   <2>3. \A i \in 1 .. n : a[i] = b[i]
      BY <2>2
   <2>4. a = [i \in 1 .. n |-> a[i]] /\ b = [i \in 1 .. n |-> b[i]]
      BY <2>1
   <2>5. QED
      BY <2>3, <2>4
<1>3. PICK i \in D : \A j \in D : i <= j
   <2>1. D \in SUBSET Nat /\ IsFiniteSet(D)
      <3>1. IsFiniteSet(1 .. n)
         BY <1>1, FS_Interval
      <3>2. D \in SUBSET (1 .. n) /\ D \in SUBSET Nat
         BY <1>1
      <3> HIDE DEF D
      <3>3. QED
         BY <3>1, <3>2, FS_Subset
   <2> HIDE DEF D
   <2>2. QED
      BY <1>2, <2>1, LeastExists
<1>4. /\ i \in 1 .. n /\ a[i] # b[i] /\ a[i] \in Nat /\ b[i] \in Nat
      /\ \A j \in 1 .. i - 1 : j \in 1 .. n /\ a[j] = b[j]
   BY <1>1, <1>3
<1>5. ASSUME NEW x, NEW y, Len(x) = n, Len(y) = n,
             x[i] < y[i], \A j \in 1 .. i - 1 : x[j] = y[j]
      PROVE  Less(x, y)
   BY <1>1, <1>4, <1>5 DEF Less
<1>6. Less(a, b) \/ Less(b, a)
   BY <1>1, <1>4, <1>5
<1>7. ~ (Less(a, b) /\ Less(b, a))
   <2>1. SUFFICES ASSUME NEW k \in 1 .. n, NEW l \in 1 .. n,
                         a[k] < b[k], b[l] < a[l],
                         \A j \in 1 .. k - 1 : a[j] = b[j], \A j \in 1 .. l - 1 : b[j] = a[j]
                  PROVE  FALSE
      BY <1>1 DEF Less
   <2>2. CASE k < l
      BY <1>1, <2>1, <2>2
   <2>3. CASE l < k
      BY <1>1, <2>1, <2>3
   <2>4. CASE k = l
      BY <1>1, <2>1, <2>4
   <2>5. QED
      BY <1>1, <2>2, <2>3, <2>4
<1>8. QED
   BY <1>6, <1>7

\* The conversation of the smaller public id and the larger.
ConvOf(small, large) == <<P, Underscore>> \o small \o <<Underscore>> \o large

\* What is joined comes one after the other.
LEMMA Joined ==
    ASSUME NEW s \in Seq(Nat), NEW t \in Seq(Nat)
    PROVE  /\ s \o t \in Seq(Nat) /\ Len(s \o t) = Len(s) + Len(t)
           /\ \A i \in 1 .. Len(s) : (s \o t)[i] = s[i]
           /\ \A i \in 1 .. Len(t) : (s \o t)[Len(s) + i] = t[i]
<1>1. /\ s \o t \in Seq(Nat) /\ Len(s \o t) = Len(s) + Len(t)
      /\ \A i \in 1 .. Len(s) + Len(t) :
            (s \o t)[i] = IF i <= Len(s) THEN s[i] ELSE t[i - Len(s)]
   BY ConcatProperties
<1>2. Len(s) \in Nat /\ Len(t) \in Nat
   BY LenProperties
<1>3. ASSUME NEW i \in 1 .. Len(s)
      PROVE  (s \o t)[i] = s[i]
   BY <1>1, <1>2
<1>4. ASSUME NEW i \in 1 .. Len(t)
      PROVE  (s \o t)[Len(s) + i] = t[i]
   <2>1. /\ Len(s) + i \in 1 .. Len(s) + Len(t)
         /\ ~ (Len(s) + i <= Len(s)) /\ (Len(s) + i) - Len(s) = i
      BY <1>2
   <2>2. (s \o t)[Len(s) + i] = t[(Len(s) + i) - Len(s)]
      BY <1>1, <2>1, Zenon
   <2>3. QED
      BY <2>1, <2>2
<1>5. QED
   BY <1>1, <1>3, <1>4

\* The characters of what is parsed: the smaller, an underscore, the larger.
LEMMA RestIs ==
    ASSUME NEW a \in PublicIDs, NEW b \in PublicIDs
    PROVE  LET c == ConvOf(a, b)
               rest == SubSeq(c, 3, Len(c))
           IN  /\ Len(c) = 2 * PublicIDLength + 3 /\ c[1] = P /\ c[2] = Underscore
               /\ rest \in Seq(Nat) /\ Len(rest) = 2 * PublicIDLength + 1
               /\ \A i \in 1 .. PublicIDLength :
                     rest[i] = a[i] /\ rest[PublicIDLength + 1 + i] = b[i]
               /\ rest[PublicIDLength + 1] = Underscore
<1> DEFINE c == ConvOf(a, b)
           rest == SubSeq(c, 3, Len(c))
<1>1. PICK n \in Nat : /\ n = PublicIDLength /\ a \in Seq(Nat) /\ b \in Seq(Nat)
                       /\ Len(a) = n /\ Len(b) = n
   BY PublicIDsFit
<1>2. P \in Nat /\ Underscore \in Nat
   BY ConvIdsAssumption
<1>3. PICK head \in Seq(Nat) :
         head = <<P, Underscore>> /\ Len(head) = 2 /\ head[1] = P /\ head[2] = Underscore
   <2> DEFINE h == <<P, Underscore>>
   <2>1. h \in Seq(Nat) /\ Len(h) = 2 /\ h[1] = P /\ h[2] = Underscore
      BY <1>2
   <2>2. QED
      BY <2>1, Zenon
<1>4. PICK mark \in Seq(Nat) : mark = <<Underscore>> /\ Len(mark) = 1 /\ mark[1] = Underscore
   <2> DEFINE h == <<Underscore>>
   <2>1. h \in Seq(Nat) /\ Len(h) = 1 /\ h[1] = Underscore
      BY <1>2
   <2>2. QED
      BY <2>1, Zenon
<1>5. PICK x \in Seq(Nat), k \in Nat :
         /\ x = head \o a /\ k = 2 + n /\ Len(x) = k
         /\ \A i \in 1 .. 2 : x[i] = head[i]
         /\ \A i \in 1 .. n : x[2 + i] = a[i]
   <2>1. /\ head \o a \in Seq(Nat) /\ Len(head \o a) = Len(head) + Len(a)
         /\ \A i \in 1 .. Len(head) : (head \o a)[i] = head[i]
         /\ \A i \in 1 .. Len(a) : (head \o a)[Len(head) + i] = a[i]
      BY <1>1, Joined, Zenon
   <2>2. /\ head \o a \in Seq(Nat) /\ Len(head \o a) = 2 + n
         /\ \A i \in 1 .. 2 : (head \o a)[i] = head[i]
         /\ \A i \in 1 .. n : (head \o a)[2 + i] = a[i]
      BY <1>1, <1>3, <2>1
   <2>3. PICK k \in Nat : k = 2 + n
      OBVIOUS
   <2>4. QED
      BY <2>2, <2>3, Zenon
<1>6. PICK y \in Seq(Nat), l \in Nat :
         /\ y = x \o mark /\ l = k + 1 /\ Len(y) = l
         /\ \A i \in 1 .. k : y[i] = x[i]
         /\ \A i \in 1 .. 1 : y[k + i] = mark[i]
   <2>1. /\ x \o mark \in Seq(Nat) /\ Len(x \o mark) = Len(x) + Len(mark)
         /\ \A i \in 1 .. Len(x) : (x \o mark)[i] = x[i]
         /\ \A i \in 1 .. Len(mark) : (x \o mark)[Len(x) + i] = mark[i]
      BY Joined, Zenon
   <2>2. /\ x \o mark \in Seq(Nat) /\ Len(x \o mark) = k + 1
         /\ \A i \in 1 .. k : (x \o mark)[i] = x[i]
         /\ \A i \in 1 .. 1 : (x \o mark)[k + i] = mark[i]
      BY <1>4, <1>5, <2>1
   <2>3. PICK l \in Nat : l = k + 1
      OBVIOUS
   <2>4. QED
      BY <2>2, <2>3, Zenon
<1>7. PICK z \in Seq(Nat) :
         /\ z = y \o b /\ Len(z) = l + n
         /\ \A i \in 1 .. l : z[i] = y[i]
         /\ \A i \in 1 .. n : z[l + i] = b[i]
   <2>1. /\ y \o b \in Seq(Nat) /\ Len(y \o b) = Len(y) + Len(b)
         /\ \A i \in 1 .. Len(y) : (y \o b)[i] = y[i]
         /\ \A i \in 1 .. Len(b) : (y \o b)[Len(y) + i] = b[i]
      BY <1>1, Joined, Zenon
   <2>2. /\ y \o b \in Seq(Nat) /\ Len(y \o b) = l + n
         /\ \A i \in 1 .. l : (y \o b)[i] = y[i]
         /\ \A i \in 1 .. n : (y \o b)[l + i] = b[i]
      BY <1>1, <1>6, <2>1
   <2>3. QED
      BY <2>2, Zenon
<1>8. c = z
   BY <1>3, <1>4, <1>5, <1>6, <1>7, Zenon DEF ConvOf
<1> HIDE DEF c
<1>9. k = n + 2 /\ l = n + 3
   BY <1>5, <1>6
<1>10. z[1] = P /\ z[2] = Underscore
   BY <1>3, <1>5, <1>6, <1>7, <1>9
<1>11. z[l] = Underscore
   <2>1. 1 \in 1 .. 1 /\ l \in 1 .. l
      BY <1>9
   <2>2. z[l] = y[l] /\ y[k + 1] = mark[1]
      BY <1>6, <1>7, <2>1, Zenon
   <2>3. QED
      BY <1>4, <1>6, <2>2
<1>12. ASSUME NEW i \in 1 .. n
       PROVE  z[2 + i] = a[i]
   <2>1. 2 + i \in 1 .. k /\ 2 + i \in 1 .. l
      BY <1>9
   <2>2. QED
      BY <1>5, <1>6, <1>7, <2>1, Zenon
<1>13. /\ rest \in Seq(Nat) /\ Len(rest) = 2 * n + 1
       /\ \A i \in 1 .. 2 * n + 1 : rest[i] = z[2 + i]
   <2>1. PICK j \in Nat : j = Len(z) /\ j = 2 * n + 3
      BY <1>7, <1>9
   <2>2. \A i \in 3 .. j : z[i] \in Nat
      <3>1. \A i \in 1 .. Len(z) : z[i] \in Nat
         BY ElementOfSeq, Zenon
      <3>2. QED
         BY <2>1, <3>1
   <2>3. /\ SubSeq(z, 3, j) \in Seq(Nat)
         /\ Len(SubSeq(z, 3, j)) = IF 3 <= j THEN j - 3 + 1 ELSE 0
         /\ \A i \in 1 .. j - 3 + 1 : SubSeq(z, 3, j)[i] = z[3 + i - 1]
      BY <2>1, <2>2, SubSeqProperties
   <2>4. rest = SubSeq(z, 3, j)
      BY <1>8, <2>1
   <2> HIDE DEF rest
   <2>5. /\ rest \in Seq(Nat) /\ Len(rest) = 2 * n + 1
         /\ \A i \in 1 .. 2 * n + 1 : rest[i] = z[3 + i - 1]
      BY <2>1, <2>3, <2>4
   <2>6. QED
      BY <2>5
<1> HIDE DEF rest
<1>14. rest[n + 1] = Underscore
   <2>1. n + 1 \in 1 .. 2 * n + 1 /\ 2 + (n + 1) = l
      BY <1>9
   <2>2. rest[n + 1] = z[2 + (n + 1)]
      BY <1>13, <2>1, Zenon
   <2>3. QED
      BY <1>11, <2>1, <2>2
<1>15. ASSUME NEW i \in 1 .. n
       PROVE  rest[i] = a[i] /\ rest[n + 1 + i] = b[i]
   <2>1. i \in 1 .. 2 * n + 1 /\ n + 1 + i \in 1 .. 2 * n + 1 /\ 2 + (n + 1 + i) = l + i
      BY <1>9
   <2>2. rest[i] = z[2 + i] /\ rest[n + 1 + i] = z[2 + (n + 1 + i)]
      BY <1>13, <2>1, Zenon
   <2>3. z[l + i] = b[i]
      BY <1>7
   <2>4. QED
      BY <1>12, <2>1, <2>2, <2>3
<1>16. c[1] = P /\ c[2] = Underscore /\ Len(c) = 2 * n + 3
   BY <1>7, <1>8, <1>9, <1>10
<1>17. QED
   BY <1>1, <1>13, <1>14, <1>15, <1>16 DEF c, rest

\* Equal sequences of numbers.
LEMMA SameSeq ==
    ASSUME NEW s \in Seq(Nat), NEW t \in Seq(Nat), Len(s) = Len(t),
           \A i \in 1 .. Len(s) : s[i] = t[i]
    PROVE  s = t
BY SeqEqual

\* A part of a sequence.
LEMMA PartIs ==
    ASSUME NEW s \in Seq(Nat), NEW m \in 1 .. Len(s) + 1, NEW n \in 0 .. Len(s)
    PROVE  /\ SubSeq(s, m, n) \in Seq(Nat)
           /\ Len(SubSeq(s, m, n)) = IF m <= n THEN n - m + 1 ELSE 0
           /\ \A i \in 1 .. n - m + 1 : SubSeq(s, m, n)[i] = s[m + i - 1]
<1>1. \A i \in 1 .. Len(s) : s[i] \in Nat
   BY ElementOfSeq
<1>2. Len(s) \in Nat
   BY LenProperties
<1>3. m \in Int /\ n \in Int /\ \A i \in m .. n : s[i] \in Nat
   BY <1>1, <1>2
<1>4. QED
   BY <1>3, SubSeqProperties

\* What is parsed has a last underscore, which is at or after the one between
\* the two ids.
LEMMA MarksFit ==
    ASSUME NEW a \in PublicIDs, NEW b \in PublicIDs
    PROVE  LET c == ConvOf(a, b)
               rest == SubSeq(c, 3, Len(c))
               marks == {i \in 1 .. Len(rest) : rest[i] = Underscore}
               n == PublicIDLength
           IN  /\ Max(marks) \in n + 1 .. 2 * n + 1
               /\ Max(marks) = n + 1 <=> ~ HasUnderscore(b)
               /\ ParsePrivateConv(c)
                     = <<SubSeq(rest, 1, Max(marks) - 1), SubSeq(rest, Max(marks) + 1, 2 * n + 1)>>
<1> DEFINE c == ConvOf(a, b)
           rest == SubSeq(c, 3, Len(c))
           marks == {i \in 1 .. Len(rest) : rest[i] = Underscore}
           n == PublicIDLength
<1>1. n \in Nat \ {0} /\ DOMAIN b = 1 .. n
   BY PublicIDsFit
<1>2. /\ Len(c) = 2 * n + 3 /\ c[1] = P /\ c[2] = Underscore
      /\ rest \in Seq(Nat) /\ Len(rest) = 2 * n + 1
      /\ \A i \in 1 .. n : rest[n + 1 + i] = b[i]
      /\ rest[n + 1] = Underscore
   BY RestIs
<1>3. ParsePrivateConv(c) =
         IF Len(c) < 3 \/ c[1] # P \/ c[2] # Underscore \/ marks = {}
         THEN NoConv
         ELSE <<SubSeq(rest, 1, Max(marks) - 1), SubSeq(rest, Max(marks) + 1, Len(rest))>>
   BY Zenon DEF ParsePrivateConv
<1> HIDE DEF c, rest
<1>4. n + 1 \in marks /\ marks \in SUBSET Nat /\ IsFiniteSet(marks)
   <2>1. n + 1 \in marks /\ marks \in SUBSET (1 .. 2 * n + 1)
      BY <1>1, <1>2
   <2>2. IsFiniteSet(1 .. 2 * n + 1)
      BY <1>1, FS_Interval
   <2>3. marks \in SUBSET Nat
      BY <2>1
   <2> HIDE DEF marks
   <2>4. QED
      BY <2>1, <2>2, <2>3, FS_Subset
<1>5. Max(marks) \in marks /\ \A i \in marks : i <= Max(marks)
   <2> HIDE DEF marks
   <2>1. QED
      BY <1>4, MaxExists
<1>6. PICK m \in Nat : m = Max(marks)
   BY <1>4, <1>5
<1>7. m \in n + 1 .. 2 * n + 1 /\ rest[m] = Underscore /\ \A i \in marks : i <= m
   BY <1>1, <1>2, <1>4, <1>5, <1>6
<1>8. m = n + 1 <=> ~ HasUnderscore(b)
   <2>1. ASSUME m # n + 1
         PROVE  HasUnderscore(b)
      <3>1. m - (n + 1) \in 1 .. n /\ n + 1 + (m - (n + 1)) = m
         BY <1>1, <1>7, <2>1
      <3>2. b[m - (n + 1)] = Underscore
         BY <1>2, <1>7, <3>1
      <3>3. QED
         BY <1>1, <3>1, <3>2 DEF HasUnderscore
   <2>2. ASSUME NEW i \in 1 .. n, b[i] = Underscore
         PROVE  m # n + 1
      <3>1. n + 1 + i \in 1 .. 2 * n + 1 /\ n + 1 < n + 1 + i
         BY <1>1
      <3>2. n + 1 + i \in 1 .. Len(rest) /\ rest[n + 1 + i] = Underscore
         BY <1>2, <2>2, <3>1
      <3>3. n + 1 + i \in marks
         BY <3>2
      <3>4. QED
         BY <1>1, <1>7, <3>1, <3>3
   <2>3. QED
      BY <1>1, <2>1, <2>2 DEF HasUnderscore
<1>9. ~ (Len(c) < 3 \/ c[1] # P \/ c[2] # Underscore \/ marks = {})
   <2>1. marks # {}
      BY <1>4
   <2> HIDE DEF marks
   <2>2. QED
      BY <1>1, <1>2, <2>1
<1> HIDE DEF marks
<1>10. ParsePrivateConv(c) = <<SubSeq(rest, 1, m - 1), SubSeq(rest, m + 1, 2 * n + 1)>>
   BY <1>2, <1>3, <1>6, <1>9
<1>11. QED
   BY <1>6, <1>7, <1>8, <1>10, Zenon DEF c, rest, marks

\* A conversation whose larger id has no underscore is parsed into its ids.
LEMMA ParsedBack ==
    ASSUME NEW a \in PublicIDs, NEW b \in PublicIDs, ~ HasUnderscore(b)
    PROVE  ParsePrivateConv(ConvOf(a, b)) = <<a, b>>
<1> DEFINE c == ConvOf(a, b)
           rest == SubSeq(c, 3, Len(c))
           marks == {i \in 1 .. Len(rest) : rest[i] = Underscore}
           n == PublicIDLength
<1>1. n \in Nat \ {0} /\ a \in Seq(Nat) /\ b \in Seq(Nat) /\ Len(a) = n /\ Len(b) = n
   BY PublicIDsFit
<1>2. /\ rest \in Seq(Nat) /\ Len(rest) = 2 * n + 1
      /\ \A i \in 1 .. n : rest[i] = a[i] /\ rest[n + 1 + i] = b[i]
   BY RestIs
<1>3. /\ Max(marks) = n + 1
      /\ ParsePrivateConv(c)
            = <<SubSeq(rest, 1, Max(marks) - 1), SubSeq(rest, Max(marks) + 1, 2 * n + 1)>>
   BY MarksFit
<1> HIDE DEF c, rest, marks
<1>4. ParsePrivateConv(c) = <<SubSeq(rest, 1, n), SubSeq(rest, n + 2, 2 * n + 1)>>
   <2>1. (n + 1) - 1 = n /\ (n + 1) + 1 = n + 2
      BY <1>1
   <2>2. QED
      BY <1>3, <2>1
<1>5. SubSeq(rest, 1, n) = a
   <2>1. 1 \in 1 .. Len(rest) + 1 /\ n \in 0 .. Len(rest)
      BY <1>1, <1>2
   <2>2. /\ SubSeq(rest, 1, n) \in Seq(Nat)
         /\ Len(SubSeq(rest, 1, n)) = IF 1 <= n THEN n - 1 + 1 ELSE 0
         /\ \A i \in 1 .. n - 1 + 1 : SubSeq(rest, 1, n)[i] = rest[1 + i - 1]
      BY <1>2, <2>1, PartIs
   <2>3. Len(SubSeq(rest, 1, n)) = n /\ \A i \in 1 .. n : SubSeq(rest, 1, n)[i] = a[i]
      BY <1>1, <1>2, <2>2
   <2>4. QED
      BY <1>1, <2>2, <2>3, SameSeq
<1>6. SubSeq(rest, n + 2, 2 * n + 1) = b
   <2>1. PICK l \in 1 .. Len(rest) + 1, h \in 0 .. Len(rest) : l = n + 2 /\ h = 2 * n + 1
      <3>1. n + 2 \in 1 .. Len(rest) + 1 /\ 2 * n + 1 \in 0 .. Len(rest)
         BY <1>1, <1>2
      <3>2. QED
         BY <3>1, Zenon
   <2>2. /\ SubSeq(rest, l, h) \in Seq(Nat)
         /\ Len(SubSeq(rest, l, h)) = IF l <= h THEN h - l + 1 ELSE 0
         /\ \A i \in 1 .. h - l + 1 : SubSeq(rest, l, h)[i] = rest[l + i - 1]
      BY <1>2, PartIs
   <2>3. /\ Len(SubSeq(rest, l, h)) = n
         /\ \A i \in 1 .. n : SubSeq(rest, l, h)[i] = b[i]
      BY <1>1, <1>2, <2>1, <2>2
   <2>4. QED
      BY <1>1, <2>1, <2>2, <2>3, SameSeq
<1>7. QED
   BY <1>4, <1>5, <1>6 DEF c

\* One whose larger id has an underscore is parsed into two ids of other lengths.
LEMMA ParsedWrong ==
    ASSUME NEW a \in PublicIDs, NEW b \in PublicIDs, HasUnderscore(b)
    PROVE  LET ids == ParsePrivateConv(ConvOf(a, b))
           IN  DOMAIN ids = {1, 2} /\ ids[1] \notin PublicIDs /\ ids[2] \notin PublicIDs
<1> DEFINE c == ConvOf(a, b)
           rest == SubSeq(c, 3, Len(c))
           marks == {i \in 1 .. Len(rest) : rest[i] = Underscore}
           n == PublicIDLength
<1>1. n \in Nat \ {0}
   BY PublicIDsFit
<1>2. rest \in Seq(Nat) /\ Len(rest) = 2 * n + 1
   BY RestIs
<1>3. /\ Max(marks) \in n + 1 .. 2 * n + 1 /\ Max(marks) # n + 1
      /\ ParsePrivateConv(c)
            = <<SubSeq(rest, 1, Max(marks) - 1), SubSeq(rest, Max(marks) + 1, 2 * n + 1)>>
   BY MarksFit
<1>4. PICK m \in Nat : m = Max(marks) /\ m \in n + 2 .. 2 * n + 1
   <2> HIDE DEF marks
   <2>1. QED
      BY <1>1, <1>3
<1> HIDE DEF c, rest, marks
<1>5. /\ m - 1 \in 0 .. Len(rest) /\ m + 1 \in 1 .. Len(rest) + 1
      /\ 2 * n + 1 \in 0 .. Len(rest) /\ 1 \in 1 .. Len(rest) + 1
   BY <1>1, <1>2, <1>4
<1>6. Len(SubSeq(rest, 1, m - 1)) # n
   <2>1. Len(SubSeq(rest, 1, m - 1)) = IF 1 <= m - 1 THEN m - 1 - 1 + 1 ELSE 0
      BY <1>2, <1>5, PartIs
   <2>2. QED
      BY <1>1, <1>4, <2>1
<1>7. Len(SubSeq(rest, m + 1, 2 * n + 1)) # n
   <2>1. PICK l \in 1 .. Len(rest) + 1, h \in 0 .. Len(rest) : l = m + 1 /\ h = 2 * n + 1
      BY <1>1, <1>2, <1>5
   <2>2. Len(SubSeq(rest, l, h)) = IF l <= h THEN h - l + 1 ELSE 0
      BY <1>2, PartIs
   <2>3. Len(SubSeq(rest, l, h)) # n
      BY <1>1, <1>4, <2>1, <2>2
   <2>4. QED
      BY <2>1, <2>3
<1>8. \A id \in PublicIDs : Len(id) = n
   BY PublicIDsFit
<1>9. ParsePrivateConv(c) = <<SubSeq(rest, 1, m - 1), SubSeq(rest, m + 1, 2 * n + 1)>>
   BY <1>3, <1>4, Zenon
<1>10. PICK u, v : /\ ParsePrivateConv(c) = <<u, v>> /\ Len(u) # n /\ Len(v) # n
   BY <1>6, <1>7, <1>9, Zenon
<1>11. u \notin PublicIDs /\ v \notin PublicIDs
   BY <1>8, <1>10, Zenon
<1>12. QED
   BY <1>10, <1>11 DEF c

-----------------------------------------------------------------------------
(***************************************************************************)
(* Who is found in the conversation's id, and what is stored in it.        *)
(***************************************************************************)
\* The user whose public id is the larger.
Larger(v) == Less(publicID[Other(v)], publicID[v])

\* The conversation's id cannot be taken apart.
Barred == \E v \in Users : Larger(v) /\ HasUnderscore(publicID[v])

\* The users' public ids.
PublicIDsOK ==
    /\ publicID \in [Users -> PublicIDs]
    /\ \A u, v \in Users : u # v => publicID[u] # publicID[v]

\* While the conversation's id cannot be taken apart no send gets past the
\* permission check, so nothing is stored and there is nothing to recall;
\* otherwise no send is refused for it.
AddressFits ==
    /\ PublicIDsOK
    /\ Barred =>
          /\ DOMAIN messages = {}
          /\ \A r \in Recalls : req[r].pc = "idle"
          /\ \A r \in Sends : req[r].pc \in {"idle", "check", "generate", "permission", "done"}
    /\ ~ Barred => \A r \in Sends : req[r].answer # "invalid"

\* The conversation is that of the user whose public id is the smaller and of
\* the other, whichever of them names it.
LEMMA LargerUser ==
    ASSUME PublicIDsOK
    PROVE  \E v \in Users : /\ Larger(v) /\ (Barred <=> HasUnderscore(publicID[v]))
                            /\ ConvID = ConvOf(publicID[Other(v)], publicID[v])
<1>1. PICK u \in Users : u = CHOOSE v \in Users : TRUE
   BY MessagingAssumption
<1>2. PICK w \in Users : w = Other(u) /\ w # u /\ Users = {u, w} /\ Other(w) = u
   <2>1. Other(u) \in Users /\ Other(u) # u /\ Users = {u, Other(u)}
      BY OtherUser
   <2>2. Other(Other(u)) \in Users /\ Other(Other(u)) # Other(u)
      BY <2>1, OtherUser
   <2>3. QED
      BY <2>1, <2>2
<1>3. PICK a \in PublicIDs, b \in PublicIDs :
         a = publicID[u] /\ b = publicID[w] /\ a # b
   BY <1>2 DEF PublicIDsOK
<1>4. Less(a, b) <=> ~ Less(b, a)
   BY <1>3, LessIsTotal
<1>5. ConvID = PrivateConvID(a, b)
   BY <1>1, <1>2, <1>3 DEF ConvID
<1>6. CASE Less(a, b)
   <2>1. ConvID = ConvOf(a, b)
      BY <1>5, <1>6 DEF PrivateConvID, ConvOf
   <2>2. Larger(w) /\ ~ Larger(u)
      BY <1>2, <1>3, <1>4, <1>6 DEF Larger
   <2>3. QED
      BY <1>2, <1>3, <2>1, <2>2 DEF Barred
<1>7. CASE Less(b, a)
   <2>1. ConvID = ConvOf(b, a)
      BY <1>4, <1>5, <1>7 DEF PrivateConvID, ConvOf
   <2>2. Larger(u) /\ ~ Larger(w)
      BY <1>2, <1>3, <1>4, <1>7 DEF Larger
   <2>3. QED
      BY <1>2, <1>3, <2>1, <2>2 DEF Barred
<1>8. QED
   BY <1>4, <1>6, <1>7

\* Who passes for a user of the conversation, and whom a user of it finds.
LEMMA WhoPasses ==
    ASSUME PublicIDsOK
    PROVE  /\ Barred =>
                 /\ \A id \in PublicIDs : ~ CanAccessPrivateConv(ConvID, id)
                 /\ \A r \in Sends : req[r].user \in Users => ~ Finds(r)
           /\ ~ Barred =>
                 /\ \A id \in PublicIDs :
                       CanAccessPrivateConv(ConvID, id) <=> \E u \in Users : id = publicID[u]
                 /\ \A r \in Sends : req[r].user \in Users => Finds(r)
<1>1. PICK v \in Users : /\ Larger(v) /\ (Barred <=> HasUnderscore(publicID[v]))
                         /\ ConvID = ConvOf(publicID[Other(v)], publicID[v])
   BY LargerUser
<1>2. PICK w \in Users : w = Other(v) /\ w # v /\ Users = {v, w} /\ Other(w) = v
   <2>1. Other(v) \in Users /\ Other(v) # v /\ Users = {v, Other(v)}
      BY OtherUser
   <2>2. Other(Other(v)) \in Users /\ Other(Other(v)) # Other(v)
      BY <2>1, OtherUser
   <2>3. QED
      BY <2>1, <2>2
<1>3. PICK a \in PublicIDs, b \in PublicIDs :
         a = publicID[w] /\ b = publicID[v] /\ a # b
   BY <1>2 DEF PublicIDsOK
<1>4. ASSUME Barred
      PROVE  /\ \A id \in PublicIDs : ~ CanAccessPrivateConv(ConvID, id)
             /\ \A r \in Sends : req[r].user \in Users => ~ Finds(r)
   <2>1. PICK ids : /\ ids = ParsePrivateConv(ConvID) /\ DOMAIN ids = {1, 2}
                    /\ ids[1] \notin PublicIDs /\ ids[2] \notin PublicIDs
      <3>1. HasUnderscore(b) /\ ConvID = ConvOf(a, b)
         BY <1>1, <1>2, <1>3, <1>4
      <3>2. QED
         BY <3>1, ParsedWrong
   <2>2. \A id \in PublicIDs : ~ CanAccessPrivateConv(ConvID, id)
      BY <2>1 DEF CanAccessPrivateConv
   <2>3. ASSUME NEW r \in Sends, req[r].user \in Users
         PROVE  ~ Finds(r)
      <3>1. publicID[req[r].user] \in PublicIDs /\ publicID[Other(req[r].user)] \in PublicIDs
         BY <2>3, OtherUser DEF PublicIDsOK
      <3>2. GetOtherPublicID(ConvID, publicID[req[r].user]) = <<>>
         BY <2>2, <3>1 DEF GetOtherPublicID
      <3>3. <<>> \notin PublicIDs
         <4>1. SUFFICES ASSUME <<>> \in PublicIDs PROVE FALSE
            OBVIOUS
         <4>2. Len(<<>>) = PublicIDLength /\ PublicIDLength \in Nat \ {0}
            BY <4>1, PublicIDsFit
         <4>3. QED
            BY <4>2
      <3>4. QED
         BY <3>1, <3>2, <3>3 DEF Finds
   <2>4. QED
      BY <2>2, <2>3
<1>5. ASSUME ~ Barred
      PROVE  /\ \A id \in PublicIDs :
                   CanAccessPrivateConv(ConvID, id) <=> \E u \in Users : id = publicID[u]
             /\ \A r \in Sends : req[r].user \in Users => Finds(r)
   <2>1. PICK ids : ids = ParsePrivateConv(ConvID) /\ ids = <<a, b>>
      <3>1. ~ HasUnderscore(b) /\ ConvID = ConvOf(a, b)
         BY <1>1, <1>2, <1>3, <1>5
      <3>2. QED
         BY <3>1, ParsedBack
   <2>2. DOMAIN ids = {1, 2} /\ ids[1] = a /\ ids[2] = b
      BY <2>1
   <2>3. ASSUME NEW id
         PROVE  CanAccessPrivateConv(ConvID, id) <=> id = a \/ id = b
      BY <2>1, <2>2 DEF CanAccessPrivateConv
   <2>4. GetOtherPublicID(ConvID, a) = b /\ GetOtherPublicID(ConvID, b) = a
      BY <1>3, <2>1, <2>2, <2>3 DEF GetOtherPublicID
   <2>5. QED
      BY <1>2, <1>3, <2>3, <2>4 DEF Finds
<1>6. QED
   BY <1>4, <1>5

\* A step of the request s: where it may go, and that it takes no other along.
Advances(s) ==
    /\ req[s].pc # "done" /\ req'[s].answer # "invalid"
    /\ s \in Sends /\ req[s].pc \in {"idle", "check", "generate"} =>
          req'[s].pc \in {"check", "generate", "permission", "done"}
    /\ req[s].pc = "permission" /\ req'[s].answer = "error" => req'[s].pc = "done"
    /\ s \in Recalls /\ req[s].pc = "idle" => DOMAIN messages # {}
    /\ \A r \in Requests : r # s => req'[r] = req[r]

\* Steps of Messaging advance one request, or none, and store what a request
\* that is at its COMMIT has written.
LEMMA StepAdvances ==
    ASSUME IInv, [Next]_vars
    PROVE  /\ req' = req \/ \E s \in Requests : Advances(s)
           /\ messages' = messages \/ \E s \in Requests : req[s].pc = "commit"
<1>0. /\ req \in [Requests -> Request] /\ Sends \cup Recalls = Requests
      /\ Sends \cap Recalls = {}
   BY MessagingAssumption DEF IInv, TypeOK, Requests
<1>1. messages' = messages \/ \E s \in Requests : req[s].pc = "commit"
   BY <1>0 DEF Next, vars, table, SendStep, RecallStep, BeginSend, CheckDuplicate, CheckNew,
      GenerateForSend, Generate, ReadBlocked, ReadFriends, Refuse, ReadExists, InsertRows,
      InsertRow, UpdateRecord, UpdateLastMsgCache, CommitSend, CommitSendError, ResetRecord,
      BeginRecall, BlankMessage, InsertNotice, ShowRecall, CommitRecall, CommitRecallError,
      Fail, AbortDeadlock, SetBlocked, DeleteUser, ExpireRecord
<1>3. ASSUME NEW s \in Sends, SendStep(s)
      PROVE  Advances(s)
   <2>0. s \in Requests /\ s \notin Recalls
      BY <1>0
   <2>1. CASE CheckDuplicate(s) \/ CheckNew(s) \/ GenerateForSend(s)
      BY <1>0, <2>0, <2>1
         DEF CheckDuplicate, CheckNew, GenerateForSend, Generate, Step, Becomes, Advances
   <2>2. CASE ReadBlocked(s) \/ ReadFriends(s) \/ Refuse(s) \/ ReadExists(s)
      BY <1>0, <2>0, <2>2
         DEF ReadBlocked, ReadFriends, Refuse, ReadExists, Step, Ends, Becomes, Advances
   <2>3. CASE InsertRows(s)
      BY <1>0, <2>0, <2>3 DEF InsertRows, InsertRow, Ends, Becomes, Advances
   <2>4. CASE UpdateRecord(s) \/ UpdateLastMsgCache(s) \/ ResetRecord(s)
      BY <1>0, <2>0, <2>4
         DEF UpdateRecord, UpdateLastMsgCache, ResetRecord, Step, Ends, Becomes, Advances
   <2>5. CASE CommitSend(s) \/ CommitSendError(s)
      BY <1>0, <2>0, <2>5 DEF CommitSend, CommitSendError, Ends, Becomes, Advances
   <2>6. QED
      BY <1>3, <2>1, <2>2, <2>3, <2>4, <2>5 DEF SendStep
<1>4. ASSUME NEW s \in Sends, NEW u \in Users, NEW k \in Keys \cup {NoKey}, BeginSend(s, u, k)
      PROVE  Advances(s)
   <2>1. s \in Requests /\ s \notin Recalls
      BY <1>0
   <2>2. PICK d : d = \E t \in Sends : Key(t) = <<u, k>> /\ Answered(t)
      BY Zenon
   <2>3. /\ req[s].pc = "idle"
         /\ Begins(s, IF k = NoKey THEN "generate" ELSE "check", u, k, Nothing, d)
      BY <1>4, <2>2, Zenon DEF BeginSend
   <2>4. QED
      BY <1>0, <2>1, <2>3 DEF Begins, Advances
<1>5. ASSUME NEW s \in Recalls, RecallStep(s)
      PROVE  Advances(s)
   BY <1>0, <1>5 DEF RecallStep, BlankMessage, InsertNotice, Generate, ShowRecall,
      CommitRecall, CommitRecallError, Step, Ends, Becomes, Advances
<1>6. ASSUME NEW s \in Recalls, NEW u \in Users, NEW m \in DOMAIN messages, BeginRecall(s, u, m)
      PROVE  Advances(s)
   BY <1>0, <1>6 DEF BeginRecall, Begins, Advances
<1>7. ASSUME NEW s \in Requests, Fail(s) \/ AbortDeadlock(s)
      PROVE  Advances(s)
   <2>1. InFlight(s) /\ Ends(s, "error")
      BY <1>7 DEF Fail, AbortDeadlock
   <2>2. QED
      BY <1>0, <2>1 DEF Ends, Becomes, InFlight, Advances
<1>8. ASSUME \/ \E u \in Users : SetBlocked(u) \/ DeleteUser(u)
             \/ \E uk \in Users \X Keys : ExpireRecord(uk)
             \/ UNCHANGED vars
      PROVE  req' = req
   BY <1>8 DEF SetBlocked, DeleteUser, ExpireRecord, vars
<1>9. QED
   BY <1>0, <1>1, <1>3, <1>4, <1>5, <1>6, <1>7, <1>8 DEF Next

\* A send that is refused because its other user is not found.
LEMMA InvalidTargetKeeps ==
    ASSUME IInv, ReadersFit, AddressFits, NEW r \in Sends, InvalidTarget(r)
    PROVE  IInv' /\ ReadersFit' /\ AddressFits'
<1>1. /\ r \in Requests /\ req[r].pc = "permission" /\ ~ Finds(r) /\ Ends(r, "invalid")
      /\ UNCHANGED <<table, used, bounds, readers, publicID>>
   BY DEF InvalidTarget, Requests
<1>2. IInv'
   <2>1. Quiet /\ UNCHANGED idem
      BY <1>1, QuietSteps DEF IInv, TypeOK, table
   <2>2. QED
      BY <1>1, <2>1, EndsKeeps DEF InFlight
<1>3. ReadersFit'
   <2>1. UNCHANGED <<messages, follower, pager, ts>>
      BY <1>1 DEF table, readers
   <2>2. QED
      BY <2>1, PagersAlone DEF ReadersFit, ReadersOK, FollowerFits, Stored
<1>4. req[r].user \in Users
   BY <1>1 DEF IInv, PcsFit, PcFits
<1>5. Barred
   BY <1>1, <1>4, WhoPasses DEF AddressFits
<1>6. req \in [Requests -> Request] /\ req'[r].pc = "done"
      /\ \A s \in Requests : s # r => req'[s] = req[s]
   BY <1>1 DEF IInv, TypeOK, Ends, Becomes
<1>7. messages' = messages /\ publicID' = publicID /\ r \notin Recalls
   BY <1>1, MessagingAssumption DEF table
<1>8. QED
   BY <1>2, <1>3, <1>5, <1>6, <1>7 DEF AddressFits, PublicIDsOK, Barred, Larger, Requests

\* A step of the servers or of a reader.
LEMMA ServesKeeps ==
    ASSUME IInv, AddressFits, Serves
    PROVE  AddressFits'
<1>1. publicID' = publicID /\ [Next]_vars
   BY DEF Serves, PNext, Serve, Check, Fetch, ReadPage, Reads
<1>2. PublicIDsOK' /\ Barred' = Barred
   BY <1>1 DEF AddressFits, PublicIDsOK, Barred, Larger
<1>3. /\ req' = req \/ \E s \in Requests : Advances(s)
      /\ messages' = messages \/ \E s \in Requests : req[s].pc = "commit"
   BY <1>1, StepAdvances
<1>4. CASE Barred
   <2>1. \A r \in Recalls : req[r].pc = "idle"
      BY <1>4 DEF AddressFits
   <2>2. \A r \in Sends : req[r].pc \in {"idle", "check", "generate", "permission", "done"}
      BY <1>4 DEF AddressFits
   <2>3. DOMAIN messages = {} /\ DOMAIN messages' = {}
      BY <1>3, <1>4, <2>1, <2>2 DEF AddressFits, Requests
   <2>4. ASSUME NEW s \in Requests, Advances(s)
         PROVE  /\ \A r \in Recalls : req'[r].pc = "idle"
                /\ \A r \in Sends :
                      req'[r].pc \in {"idle", "check", "generate", "permission", "done"}
      <3>1. s \in Sends /\ s \notin Recalls
         BY <2>1, <2>3, <2>4, MessagingAssumption DEF Advances, Requests
      <3>2. CASE req[s].pc = "permission" /\ req'[s] # req[s]
         <4>1. req[s].user \in Users
            BY <3>1, <3>2 DEF IInv, PcsFit, PcFits, Requests
         <4>2. ~ Finds(s)
            BY <1>4, <3>1, <4>1, WhoPasses DEF AddressFits
         <4>3. req'[s].answer = "error"
            BY <3>1, <3>2, <4>2 DEF Serves
         <4>4. QED
            BY <2>1, <2>2, <2>4, <3>1, <3>2, <4>3 DEF Advances, Requests
      <3>3. CASE req[s].pc # "permission" \/ req'[s] = req[s]
         BY <2>1, <2>2, <2>4, <3>1, <3>3 DEF Advances, Requests
      <3>4. QED
         BY <3>2, <3>3
   <2>5. QED
      BY <1>2, <1>3, <1>4, <2>1, <2>2, <2>3, <2>4 DEF AddressFits
<1>5. CASE ~ Barred
   BY <1>2, <1>3, <1>5 DEF AddressFits, Advances, Requests
<1>6. QED
   BY <1>4, <1>5

-----------------------------------------------------------------------------
\* Public ids that differ, and no request: the invariant holds at first.
LEMMA AddressInit == AInit => IInv /\ ReadersFit /\ AddressFits
<1> SUFFICES ASSUME AInit
             PROVE  IInv /\ ReadersFit /\ AddressFits
   OBVIOUS
<1>1. IInv /\ ReadersFit
   BY ReadersInit DEF AInit
<1>2. DOMAIN messages = {} /\ \A r \in Requests : req[r].pc = "idle" /\ req[r].answer = "none"
   BY DEF AInit, PInit, Init, NewRequest
<1>3. QED
   BY <1>1, <1>2 DEF AInit, AddressFits, PublicIDsOK, Requests

\* Every step keeps it.
LEMMA AddressStep ==
    IInv /\ ReadersFit /\ AddressFits /\ [ANext]_avars => IInv' /\ ReadersFit' /\ AddressFits'
<1> SUFFICES ASSUME IInv, ReadersFit, AddressFits, [ANext]_avars
             PROVE  IInv' /\ ReadersFit' /\ AddressFits'
   OBVIOUS
<1>1. CASE Serves
   BY <1>1, ReadersStep, ServesKeeps DEF Serves
<1>2. ASSUME NEW r \in Sends, InvalidTarget(r)
      PROVE  IInv' /\ ReadersFit' /\ AddressFits'
   BY <1>2, InvalidTargetKeeps
<1>3. CASE UNCHANGED avars
   <2>1. UNCHANGED pvars /\ publicID' = publicID
      BY <1>3 DEF avars
   <2>2. messages' = messages /\ req' = req
      BY <2>1 DEF pvars, vars, table
   <2>3. QED
      BY <2>1, <2>2, ReadersStep DEF AddressFits, PublicIDsOK, Barred, Larger
<1>4. QED
   BY <1>1, <1>2, <1>3 DEF ANext

\* The invariants of Messaging and of its readers hold for any public ids, together
\* with the one about those.
THEOREM AddressInvariance == ASpec => [](IInv /\ ReadersFit /\ AddressFits)
BY AddressInit, AddressStep, PTL DEF ASpec

\* What is proved of Messaging's answers holds when a send may be refused because
\* its conversation's id cannot be taken apart.
THEOREM AnswersWhenAddressed == ASpec => [](Inv /\ AnswersNameMessages /\ NoMessageAfterAnswer)
<1>1. IInv => Inv /\ AnswersNameMessages /\ NoMessageAfterAnswer
   BY LateStoresNothing DEF IInv, Inv
<1>2. QED
   BY <1>1, AddressInvariance, PTL

\* The larger id, as LargerID names it.
LEMMA LargerIs ==
    ASSUME PublicIDsOK, NEW v \in Users, Larger(v)
    PROVE  publicID[v] = LargerID
<1>1. PICK w \in Users : w = Other(v) /\ w # v /\ Users = {v, w}
   BY OtherUser
<1>2. PICK a \in PublicIDs, b \in PublicIDs : a = publicID[w] /\ b = publicID[v] /\ a # b
   BY <1>1 DEF PublicIDsOK
<1>3. Less(a, b) /\ ~ Less(b, a)
   BY <1>1, <1>2, LessIsTotal DEF Larger
<1> DEFINE ids == {publicID[u] : u \in Users}
<1>4. ids = {a, b}
   BY <1>1, <1>2
<1>5. b \in ids /\ \A other \in ids \ {b} : Less(other, b)
   BY <1>3, <1>4
<1>6. ASSUME NEW id \in ids, \A other \in ids \ {id} : Less(other, id)
      PROVE  id = b
   BY <1>2, <1>3, <1>4, <1>6
<1>7. (CHOOSE id \in ids : \A other \in ids \ {id} : Less(other, id)) = b
   <2> HIDE DEF ids
   <2> QED BY <1>5, <1>6
<1>8. QED
   BY <1>2, <1>7 DEF LargerID

\* If the larger of their public ids has no underscore, no send of the two users is refused
\* for want of the other; and whatever their ids, nobody else passes for one of them.
THEOREM OthersAreFound == ASpec => [](OnlyTheirs /\ (HasUnderscore(LargerID) \/ OthersFound))
<1>1. ASSUME IInv, AddressFits
      PROVE  OnlyTheirs /\ (HasUnderscore(LargerID) \/ OthersFound)
   <2>1. PICK v \in Users : Larger(v) /\ (Barred <=> HasUnderscore(publicID[v]))
      BY <1>1, LargerUser DEF AddressFits
   <2>2. PublicIDsOK /\ LargerID = publicID[v]
      BY <1>1, <2>1, LargerIs DEF AddressFits
   <2>3. HasUnderscore(LargerID) \/ OthersFound
      BY <1>1, <2>1, <2>2 DEF AddressFits, OthersFound
   <2>4. OnlyTheirs
      BY <1>1, <2>2, WhoPasses DEF AddressFits, OnlyTheirs
   <2>5. QED
      BY <2>3, <2>4
<1>2. QED
   BY <1>1, AddressInvariance, PTL
================================================================================
