---------------------------- MODULE AccountsProofs ----------------------------
(***************************************************************************)
(* Proofs about Accounts, for any number of accounts, names, emails and    *)
(* requests.                                                               *)
(***************************************************************************)
EXTENDS Accounts, TLAPS

\* What a request says of itself fits the step it is at.
CallFits ==
    \A c \in Calls :
        /\ call[c].step \in Registering =>
              call[c].id = NoId /\ call[c].name \in Names
        /\ call[c].step \in {"mails", "insert"} => "free" \in call[c].marks
        /\ call[c].step = "write" => call[c].row \in Row
        /\ call[c].step # "done" => call[c].answer = 0

\* A registration knows when its name or its email has been in use.
SpoiltSeen ==
    \A c \in Calls : call[c].step \in Registering /\ "spoilt" \notin call[c].marks =>
        ~ NameUsed(call[c].name) /\ ~ EmailUsed(call[c].email)

\* An update that nobody has overtaken has read what the row still is, unless
\* the row is gone.
ReadStill ==
    \A c \in Calls : call[c].step = "write" /\ "late" \notin call[c].marks =>
        users[call[c].id] \in {call[c].row, NoRow}

IInv == TypeOK /\ UniqueEmails /\ CallFits /\ SpoiltSeen /\ ReadStill /\ RegistersWhatIsFree

USE AccountsAssumption

\* Initially there are no accounts and no requests.
LEMMA InitInv == Init => IInv
  BY DEF Init, IInv, NewCall, Asking, TypeOK, CallType, Steps, Accounts, UniqueEmails,
     CallFits, SpoiltSeen, ReadStill, RegistersWhatIsFree, Registering

-----------------------------------------------------------------------------
(***************************************************************************)
(* What a step does to the requests: request c becomes r.                  *)
(***************************************************************************)
\* The requests but for their history.
LEMMA MovesCalls ==
  ASSUME TypeOK, NEW c \in Calls, NEW r \in CallType, NEW written,
         Moves(c, r, written)
  PROVE  /\ call' \in [Calls -> CallType]
         /\ \A d \in Calls \ {c} :
               /\ call'[d].step = call[d].step /\ call'[d].id = call[d].id
               /\ call'[d].name = call[d].name /\ call'[d].email = call[d].email
               /\ call'[d].row = call[d].row /\ call'[d].answer = call[d].answer
         /\ call'[c].step = r.step /\ call'[c].id = r.id /\ call'[c].name = r.name
         /\ call'[c].email = r.email /\ call'[c].row = r.row /\ call'[c].answer = r.answer
  BY DEF Moves, TypeOK, CallType

\* The history of request d, which was e, goes on: nothing of it is forgotten, and
\* the table shows whether its name is free and whether it is spoilt.
GoesOn(d, e) ==
    /\ e.marks \subseteq call'[d].marks
    /\ e.step \in Registering =>
          /\ "free" \in call'[d].marks
                \/ \E i \in Ids : users'[i] # NoRow /\ users'[i].name = e.name
          /\ "spoilt" \in call'[d].marks
                \/ \A i \in Ids : users'[i] # NoRow =>
                      users'[i].name # e.name /\ users'[i].email # e.email

\* The histories: that of c goes on from r, that of another request from what it was;
\* an update of a row that is being written is overtaken.
LEMMA MovesMarks ==
  ASSUME TypeOK, NEW c \in Calls, NEW r \in CallType, NEW written,
         Moves(c, r, written)
  PROVE  /\ GoesOn(c, r)
         /\ \A d \in Calls \ {c} :
               /\ GoesOn(d, call[d])
               /\ call[d].step = "write" /\ call[d].id \in written => "late" \in call'[d].marks
<1>1. ASSUME NEW d \in Calls, NEW e \in CallType, e.step \in Registering,
             (d = c /\ e = r) \/ (d # c /\ e = call[d])
      PROVE  GoesOn(d, e)
  <2>1. call'[d] = [e EXCEPT !.marks = @
              \cup (IF \E i \in Ids : users'[i] # NoRow /\ users'[i].name = e.name
                    THEN {} ELSE {"free"})
              \cup (IF \/ \E i \in Ids : users'[i] # NoRow /\ users'[i].name = e.name
                       \/ \E i \in Ids : users'[i] # NoRow /\ users'[i].email = e.email
                    THEN {"spoilt"} ELSE {})]
    BY <1>1 DEF Moves, Registering
  <2>. QED
    BY <2>1 DEF GoesOn
<1>2. r.step \notin Registering => GoesOn(c, r)
  BY DEF Moves, GoesOn
<1>3. ASSUME NEW d \in Calls \ {c}, call[d].step \notin Registering
      PROVE  GoesOn(d, call[d])
  BY <1>3 DEF Moves, GoesOn
<1>4. ASSUME NEW d \in Calls \ {c}
      PROVE  call[d].step = "write" /\ call[d].id \in written => "late" \in call'[d].marks
  BY DEF Moves
<1>5. GoesOn(c, r)
  <2>1. CASE r.step \in Registering
    BY <1>1, <2>1
  <2>. QED
    BY <1>2, <2>1
<1>6. ASSUME NEW d \in Calls \ {c}
      PROVE  GoesOn(d, call[d])
  BY <1>1, <1>3 DEF TypeOK
<1>. QED
  BY <1>4, <1>5, <1>6

-----------------------------------------------------------------------------
(***************************************************************************)
(* The steps keep IInv: those that only read the table, those that change  *)
(* a row of it, and the client's.                                          *)
(***************************************************************************)
\* A step that only reads the table: the checks of Register, the SELECTs of UpdateUser
\* and DeleteUser, an answer.
LEMMA ReadsKeep ==
  ASSUME IInv, NEW c \in Calls, NEW r \in CallType, Reads(c, r),
         calls' \in 0 .. MaxCalls, failures' \in 0 .. MaxFailures,
         r.step \in {"read", "write", "find", "delete"} => r.id \in born,
         r.step \in Registering => r.id = NoId /\ r.name \in Names,
         r.step \in {"mails", "insert"} => "free" \in r.marks \/ ~ NameUsed(r.name),
         r.step = "write" => r.row \in Row /\ users[r.id] = r.row,
         r.step # "done" => r.answer = 0,
         r.step = "done" /\ r.answer \in {409, 500} /\ r.id = NoId => "spoilt" \in r.marks
  PROVE  IInv'
<1>1. TypeOK /\ Moves(c, r, {}) /\ users' = users /\ born' = born
  BY DEF IInv, Reads
<1>2. /\ call' \in [Calls -> CallType]
      /\ \A d \in Calls \ {c} :
            /\ call'[d].step = call[d].step /\ call'[d].id = call[d].id
            /\ call'[d].name = call[d].name /\ call'[d].email = call[d].email
            /\ call'[d].row = call[d].row /\ call'[d].answer = call[d].answer
      /\ call'[c].step = r.step /\ call'[c].id = r.id /\ call'[c].name = r.name
      /\ call'[c].email = r.email /\ call'[c].row = r.row /\ call'[c].answer = r.answer
  BY <1>1, MovesCalls
<1>3. /\ \A d \in Calls \ {c} : call[d].marks \subseteq call'[d].marks
      /\ r.marks \subseteq call'[c].marks
  BY <1>1, MovesMarks DEF GoesOn
<1>4. TypeOK'
  BY <1>1, <1>2 DEF TypeOK, Accounts
<1>5. UniqueEmails'
  BY <1>1 DEF IInv, UniqueEmails, Accounts
<1>6. CallFits'
  <2>1. r.step \in {"mails", "insert"} => "free" \in call'[c].marks
    <3>1. r.step \in Registering =>
             \/ "free" \in call'[c].marks
             \/ \E j \in Ids : users'[j] # NoRow /\ users'[j].name = r.name
      BY <1>1, MovesMarks DEF GoesOn
    <3>. QED
      BY <1>1, <1>3, <3>1 DEF Registering, NameUsed, Accounts
  <2>. QED
    BY <1>2, <1>3, <2>1 DEF IInv, CallFits
<1>7. SpoiltSeen'
  <2> SUFFICES ASSUME NEW d \in Calls, call'[d].step \in Registering,
                      "spoilt" \notin call'[d].marks
               PROVE  \A j \in Ids : users'[j] # NoRow =>
                         users'[j].name # call'[d].name /\ users'[j].email # call'[d].email
    BY DEF SpoiltSeen, NameUsed, EmailUsed, Accounts
  <2>1. CASE d = c
    <3>1. \A j \in Ids : users'[j] # NoRow =>
             users'[j].name # r.name /\ users'[j].email # r.email
      BY <1>1, <1>2, <2>1, MovesMarks DEF GoesOn
    <3>. QED
      BY <1>2, <2>1, <3>1
  <2>2. CASE d # c
    <3>1. GoesOn(d, call[d])
      BY <1>1, <2>2, MovesMarks
    <3>2. \A j \in Ids : users'[j] # NoRow =>
             users'[j].name # call[d].name /\ users'[j].email # call[d].email
      BY <1>2, <2>2, <3>1 DEF GoesOn
    <3>. QED
      BY <1>2, <2>2, <3>2
  <2>. QED
    BY <2>1, <2>2
<1>8. ReadStill'
  BY <1>1, <1>2, <1>3 DEF IInv, ReadStill
<1>9. RegistersWhatIsFree'
  BY <1>2, <1>3 DEF IInv, RegistersWhatIsFree
<1>. QED
  BY <1>4, <1>5, <1>6, <1>7, <1>8, <1>9 DEF IInv

\* A statement that changes one row: the INSERT of Register, the UPDATE of UpdateUser,
\* the DELETE of DeleteUser. The row it leaves has an email nobody else has, and whoever
\* has read the old row is overtaken.
LEMMA WritesKeep ==
  ASSUME IInv, NEW c \in Calls, NEW r \in CallType, NEW i \in Ids,
         NEW row \in Row \cup {NoRow},
         users' = [users EXCEPT ![i] = row], born' = born \cup {i},
         NEW written, Moves(c, r, written), i \in written \/ i \notin born,
         calls' \in 0 .. MaxCalls, failures' \in 0 .. MaxFailures,
         r.step = "done", r.answer \in {409, 500} /\ r.id = NoId => "spoilt" \in r.marks,
         row # NoRow => ~ EmailOfOther(row.email, i)
  PROVE  IInv'
<1>1. TypeOK
  BY DEF IInv
<1>2. /\ call' \in [Calls -> CallType]
      /\ \A d \in Calls \ {c} :
            /\ call'[d].step = call[d].step /\ call'[d].id = call[d].id
            /\ call'[d].name = call[d].name /\ call'[d].email = call[d].email
            /\ call'[d].row = call[d].row /\ call'[d].answer = call[d].answer
      /\ call'[c].step = "done" /\ call'[c].id = r.id /\ call'[c].answer = r.answer
  BY <1>1, MovesCalls
<1>3. /\ \A d \in Calls \ {c} : call[d].marks \subseteq call'[d].marks
      /\ r.marks \subseteq call'[c].marks
  BY <1>1, MovesMarks DEF GoesOn
<1>4. TypeOK'
  BY <1>1, <1>2 DEF TypeOK, Accounts
<1>5. UniqueEmails'
  <2> SUFFICES ASSUME NEW j \in Accounts', NEW k \in Accounts',
                      users'[j].email = users'[k].email, j # k
               PROVE  FALSE
    BY DEF UniqueEmails
  <2>. QED
    BY DEF IInv, UniqueEmails, EmailOfOther, Accounts
<1>6. CallFits'
  BY <1>2, <1>3 DEF IInv, CallFits, Registering
<1>7. SpoiltSeen'
  <2>1. \A d \in Calls \ {c} : GoesOn(d, call[d])
    BY <1>1, MovesMarks
  <2>. QED
    BY <1>2, <2>1 DEF GoesOn, SpoiltSeen, NameUsed, EmailUsed, Accounts, Registering
<1>8. ReadStill'
  <2> SUFFICES ASSUME NEW d \in Calls, call'[d].step = "write", "late" \notin call'[d].marks
               PROVE  users'[call'[d].id] \in {call'[d].row, NoRow}
    BY DEF ReadStill
  <2>1. d # c /\ call[d].step = "write" /\ "late" \notin call[d].marks
    BY <1>2, <1>3
  <2>2. call[d].id # i
    <3>1. CASE i \in written
      BY <1>1, <2>1, <3>1, MovesMarks
    <3>2. CASE i \notin born
      BY <1>1, <2>1, <3>2 DEF TypeOK
    <3>. QED
      BY <3>1, <3>2
  <2>. QED
    BY <1>2, <2>1, <2>2 DEF IInv, ReadStill
<1>9. RegistersWhatIsFree'
  BY <1>2, <1>3 DEF IInv, RegistersWhatIsFree
<1>. QED
  BY <1>4, <1>5, <1>6, <1>7, <1>8, <1>9 DEF IInv

-----------------------------------------------------------------------------
(***************************************************************************)
(* One lemma for each action.                                              *)
(***************************************************************************)
\* An answer ends the request and forgets all of its history but what spoilt it.
LEMMA AnswerFits ==
  ASSUME TypeOK, NEW c \in Calls, NEW answer \in {0, 200, 201, 404, 409, 500}
  PROVE  /\ Answered(c, answer) \in CallType
         /\ Answered(c, answer).step = "done" /\ Answered(c, answer).answer = answer
         /\ Answered(c, answer).id = call[c].id
         /\ Answered(c, answer).marks = call[c].marks \cap {"spoilt"}
         /\ Failed(c) \in CallType /\ Failed(c).step = "done" /\ Failed(c).answer = 500
         /\ Failed(c).marks = {"spoilt"}
<1>1. /\ call[c].id \in Ids \cup {NoId}
      /\ call[c].marks \cap {"spoilt"} \in SUBSET {"free", "spoilt", "late"}
  BY DEF TypeOK, CallType
<1>2. ASSUME NEW a \in {0, 200, 201, 404, 409, 500}
      PROVE  /\ Answered(c, a) \in CallType
             /\ Answered(c, a).step = "done" /\ Answered(c, a).answer = a
             /\ Answered(c, a).id = call[c].id
             /\ Answered(c, a).marks = call[c].marks \cap {"spoilt"}
  BY <1>1 DEF Answered, CallType, Steps
<1>. QED
  BY <1>2 DEF Failed, CallType

\* Register has read nothing yet (account.go).
LEMMA RegisterKeeps ==
  ASSUME IInv, NEW c \in Calls, NEW n \in Names, NEW e \in Emails \cup {Blank}, Register(c, n, e)
  PROVE  IInv'
<1> DEFINE r == Asking("names", NoId, n, e)
<1>1. r \in CallType /\ r.answer = 0 /\ r.step = "names" /\ r.id = NoId /\ r.name = n
  BY DEF Asking, CallType, Steps
<1>2. Reads(c, r)
  BY DEF Register, Begins
<1>3. calls' \in 0 .. MaxCalls /\ failures' \in 0 .. MaxFailures
  BY DEF Register, Begins, IInv, TypeOK
<1> HIDE DEF r
<1>. QED
  BY <1>1, <1>2, <1>3, ReadsKeep

\* UpdateUser has the id from the token and is about to read the row.
LEMMA UpdateUserKeeps ==
  ASSUME IInv, NEW c \in Calls, NEW i \in Ids, NEW n \in Names \cup {Blank},
         NEW e \in Emails \cup {Blank}, UpdateUser(c, i, n, e)
  PROVE  IInv'
<1> DEFINE r == Asking("read", i, n, e)
<1>1. r \in CallType /\ r.answer = 0 /\ r.step = "read" /\ r.id = i
  BY DEF Asking, CallType, Steps
<1>2. Reads(c, r) /\ i \in born
  BY DEF UpdateUser, Begins
<1>3. calls' \in 0 .. MaxCalls /\ failures' \in 0 .. MaxFailures
  BY DEF UpdateUser, Begins, IInv, TypeOK
<1> HIDE DEF r
<1>. QED
  BY <1>1, <1>2, <1>3, ReadsKeep DEF Registering

\* DeleteUser has the id from the token and is about to read the row.
LEMMA DeleteUserKeeps ==
  ASSUME IInv, NEW c \in Calls, NEW i \in Ids, DeleteUser(c, i)
  PROVE  IInv'
<1> DEFINE r == Asking("find", i, Blank, Blank)
<1>1. r \in CallType /\ r.answer = 0 /\ r.step = "find" /\ r.id = i
  BY DEF Asking, CallType, Steps
<1>2. Reads(c, r) /\ i \in born
  BY DEF DeleteUser, Begins
<1>3. calls' \in 0 .. MaxCalls /\ failures' \in 0 .. MaxFailures
  BY DEF DeleteUser, Begins, IInv, TypeOK
<1> HIDE DEF r
<1>. QED
  BY <1>1, <1>2, <1>3, ReadsKeep DEF Registering

\* The client has the answer: the request is over.
LEMMA ReceiveKeeps ==
  ASSUME IInv, NEW c \in Calls, Receive(c)
  PROVE  IInv'
  BY DEF IInv, Receive, NewCall, Asking, TypeOK, CallType, Steps, Accounts,
     UniqueEmails, CallFits, SpoiltSeen, NameUsed, EmailUsed, ReadStill,
     RegistersWhatIsFree, Registering

\* A statement fails: the answer is 500, and the failure spoilt the request.
LEMMA FailKeeps ==
  ASSUME IInv, NEW c \in Calls, Fail(c)
  PROVE  IInv'
<1>1. Reads(c, Failed(c)) /\ calls' \in 0 .. MaxCalls /\ failures' \in 0 .. MaxFailures
  BY DEF Fail, Fails, IInv, TypeOK
<1>2. TypeOK
  BY DEF IInv
<1>. QED
  BY <1>1, <1>2, AnswerFits, ReadsKeep DEF Registering

\* A name in use has spoilt the registration; one that is not is free now.
LEMMA UsernameExistsKeeps ==
  ASSUME IInv, NEW c \in Calls, UsernameExists(c)
  PROVE  IInv'
<1>1. TypeOK /\ calls' \in 0 .. MaxCalls /\ failures' \in 0 .. MaxFailures
  BY DEF UsernameExists, IInv, TypeOK
<1>2. CASE NameUsed(call[c].name)
  <2>1. Reads(c, Answered(c, 409))
    BY <1>2 DEF UsernameExists
  <2>2. call[c].id = NoId => "spoilt" \in call[c].marks
    BY <1>2 DEF UsernameExists, IInv, SpoiltSeen, Registering
  <2>. QED
    BY <1>1, <2>1, <2>2, AnswerFits, ReadsKeep DEF Registering
<1>3. CASE ~ NameUsed(call[c].name)
  <2> DEFINE r == [call[c] EXCEPT !.step = IF call[c].email = Blank THEN "insert" ELSE "mails"]
  <2>1. r \in CallType /\ r.step \in {"mails", "insert"} /\ r.id = call[c].id
        /\ r.name = call[c].name /\ r.answer = call[c].answer
    BY <1>1 DEF TypeOK, CallType, Steps
  <2>2. Reads(c, r) /\ call[c].answer = 0 /\ call[c].id = NoId /\ call[c].name \in Names
    BY <1>3 DEF UsernameExists, IInv, CallFits, Registering
  <2> HIDE DEF r
  <2>. QED
    BY <1>1, <1>3, <2>1, <2>2, ReadsKeep
<1>. QED
  BY <1>2, <1>3

\* An email in use has spoilt the registration.
LEMMA EmailExistsKeeps ==
  ASSUME IInv, NEW c \in Calls, EmailExists(c)
  PROVE  IInv'
<1>1. TypeOK /\ calls' \in 0 .. MaxCalls /\ failures' \in 0 .. MaxFailures
  BY DEF EmailExists, IInv, TypeOK
<1>2. CASE EmailUsed(call[c].email)
  <2>1. Reads(c, Answered(c, 409))
    BY <1>2 DEF EmailExists
  <2>2. call[c].id = NoId => "spoilt" \in call[c].marks
    BY <1>2 DEF EmailExists, IInv, SpoiltSeen, Registering
  <2>. QED
    BY <1>1, <2>1, <2>2, AnswerFits, ReadsKeep DEF Registering
<1>3. CASE ~ EmailUsed(call[c].email)
  <2> DEFINE r == [call[c] EXCEPT !.step = "insert"]
  <2>1. /\ r \in CallType /\ r.answer = call[c].answer /\ r.step = "insert"
        /\ r.id = call[c].id /\ r.name = call[c].name /\ r.marks = call[c].marks
    BY <1>1 DEF TypeOK, CallType, Steps
  <2>2. /\ Reads(c, r) /\ call[c].answer = 0 /\ call[c].id = NoId
        /\ call[c].name \in Names /\ "free" \in call[c].marks
    BY <1>3 DEF EmailExists, IInv, CallFits, Registering
  <2> HIDE DEF r
  <2>. QED
    BY <1>1, <2>1, <2>2, ReadsKeep
<1>. QED
  BY <1>2, <1>3

\* UpdateUser has the row as it is now.
LEMMA GetByPublicIDKeeps ==
  ASSUME IInv, NEW c \in Calls, GetByPublicID(c)
  PROVE  IInv'
<1>1. TypeOK /\ calls' \in 0 .. MaxCalls /\ failures' \in 0 .. MaxFailures
  BY DEF GetByPublicID, IInv, TypeOK
<1>2. CASE users[call[c].id] = NoRow
  <2>1. Reads(c, Answered(c, 404))
    BY <1>2 DEF GetByPublicID
  <2>. QED
    BY <1>1, <2>1, AnswerFits, ReadsKeep DEF Registering
<1>3. CASE users[call[c].id] # NoRow
  <2> DEFINE r == [call[c] EXCEPT !.step = "write", !.row = users[call[c].id]]
  <2>1. r \in CallType /\ r.answer = call[c].answer /\ r.step = "write" /\ r.id = call[c].id
        /\ r.row = users[call[c].id] /\ r.row \in Row
    <3>1. call[c].id \in Ids /\ users[call[c].id] \in Row /\ call[c] \in CallType
      BY <1>1, <1>3 DEF GetByPublicID, TypeOK
    <3> DEFINE w == [call[c] EXCEPT !.step = "write"]
    <3>2. w \in CallType /\ w.answer = call[c].answer /\ w.step = "write" /\ w.id = call[c].id
      BY <3>1 DEF CallType, Steps
    <3>3. r = [w EXCEPT !.row = users[call[c].id]]
      OBVIOUS
    <3> HIDE DEF w, r
    <3>. QED
      BY <3>1, <3>2, <3>3 DEF CallType
  <2>2. Reads(c, r) /\ call[c].answer = 0 /\ call[c].id \in born
    BY <1>3 DEF GetByPublicID, IInv, TypeOK, CallFits
  <2> HIDE DEF r
  <2>. QED
    BY <1>1, <2>1, <2>2, ReadsKeep DEF Registering
<1>. QED
  BY <1>2, <1>3

\* DeleteUser only looks whether the row is there.
LEMMA GetByIDKeeps ==
  ASSUME IInv, NEW c \in Calls, GetByID(c)
  PROVE  IInv'
<1>1. TypeOK /\ calls' \in 0 .. MaxCalls /\ failures' \in 0 .. MaxFailures
  BY DEF GetByID, IInv, TypeOK
<1>2. CASE users[call[c].id] = NoRow
  <2>1. Reads(c, Answered(c, 404))
    BY <1>2 DEF GetByID
  <2>. QED
    BY <1>1, <2>1, AnswerFits, ReadsKeep DEF Registering
<1>3. CASE users[call[c].id] # NoRow
  <2> DEFINE r == [call[c] EXCEPT !.step = "delete"]
  <2>1. r \in CallType /\ r.answer = call[c].answer /\ r.step = "delete" /\ r.id = call[c].id
    BY <1>1 DEF TypeOK, CallType, Steps
  <2>2. Reads(c, r) /\ call[c].answer = 0 /\ call[c].id \in born
    BY <1>3 DEF GetByID, IInv, TypeOK, CallFits
  <2> HIDE DEF r
  <2>. QED
    BY <1>1, <2>1, <2>2, ReadsKeep DEF Registering
<1>. QED
  BY <1>2, <1>3

\* The UNIQUE key of the emails refuses the row or lets it in; a commit that is not
\* heard of lets it in as well.
LEMMA InsertKeeps ==
  ASSUME IInv, NEW c \in Calls, Insert(c)
  PROVE  IInv'
<1>1. /\ TypeOK /\ call[c].step = "insert" /\ call[c] \in CallType
      /\ call[c].name \in Names /\ call[c].id = NoId
  BY DEF Insert, IInv, TypeOK, CallFits, Registering
<1>2. CASE EmailUsed(call[c].email)
  <2>1. Reads(c, Answered(c, 500)) /\ UNCHANGED <<calls, failures>>
    BY <1>2 DEF Insert
  <2>2. calls' \in 0 .. MaxCalls /\ failures' \in 0 .. MaxFailures
    BY <1>1, <2>1 DEF TypeOK
  <2>3. "spoilt" \in call[c].marks
    BY <1>1, <1>2 DEF IInv, SpoiltSeen, Registering
  <2>. QED
    BY <1>1, <2>1, <2>2, <2>3, AnswerFits, ReadsKeep DEF Registering
<1>3. CASE ~ EmailUsed(call[c].email)
  <2>1. PICK i \in Ids : Inserts(c, i)
    BY <1>3 DEF Insert
  <2> DEFINE row == [name |-> call[c].name, email |-> call[c].email]
  <2>2. row \in Row /\ ~ EmailOfOther(row.email, i)
    <3>1. row \in Row
      BY <1>1 DEF Row, CallType
    <3>2. ~ EmailOfOther(call[c].email, i)
      BY <1>3 DEF EmailUsed, EmailOfOther
    <3>. QED
      BY <3>1, <3>2
  <2>3. calls' \in 0 .. MaxCalls /\ failures' \in 0 .. MaxFailures
    <3>1. calls' = calls /\ (failures' = failures \/ Fails)
      BY <2>1 DEF Inserts
    <3>. QED
      BY <1>1, <3>1 DEF Fails, TypeOK
  <2>4. i \notin born /\ born' = born \cup {i} /\ users' = [users EXCEPT ![i] = row]
    BY <2>1 DEF Inserts
  <2>5. CASE Moves(c, Answered(c, 201), {})
    <3> DEFINE r == Answered(c, 201)
    <3>1. /\ r \in CallType /\ r.step = "done"
          /\ r.answer \in {409, 500} /\ r.id = NoId => "spoilt" \in r.marks
      BY <1>1, AnswerFits
    <3> HIDE DEF row, r
    <3>. QED
      BY <2>2, <2>3, <2>4, <2>5, <3>1, WritesKeep DEF r
  <2>6. CASE Moves(c, Failed(c), {})
    <3> DEFINE r == Failed(c)
    <3>1. /\ r \in CallType /\ r.step = "done"
          /\ r.answer \in {409, 500} /\ r.id = NoId => "spoilt" \in r.marks
      BY <1>1, AnswerFits
    <3> HIDE DEF row, r
    <3>. QED
      BY <2>2, <2>3, <2>4, <2>6, <3>1, WritesKeep DEF r
  <2>. QED
    BY <2>1, <2>5, <2>6 DEF Inserts
<1>. QED
  BY <1>2, <1>3

\* What UpdateUser writes is a row.
LEMMA MergedIsRow ==
  ASSUME IInv, NEW c \in Calls, call[c].step = "write"
  PROVE  Merged(c) \in Row
<1>1. call[c] \in CallType /\ call[c].row \in Row
  BY DEF IInv, TypeOK, CallFits
<1>. QED
  BY <1>1 DEF Merged, Asked, CallType, Row

\* The UPDATE takes the merged row only if its email is nobody else's.
LEMMA UpdateKeeps ==
  ASSUME IInv, NEW c \in Calls, Update(c)
  PROVE  IInv'
<1>1. /\ TypeOK /\ call[c].step = "write" /\ call[c].id \in born /\ born \subseteq Ids
      /\ NoId \notin Ids
  BY DEF Update, IInv, TypeOK
<1>2. calls' \in 0 .. MaxCalls /\ failures' \in 0 .. MaxFailures
  BY <1>1 DEF Update, Writes, TypeOK
<1>3. ASSUME NEW answer \in {200, 500}, Reads(c, Answered(c, answer))
      PROVE  IInv'
  BY <1>1, <1>2, <1>3, AnswerFits, ReadsKeep DEF Registering
<1>4. ASSUME ~ EmailOfOther(Merged(c).email, call[c].id), Writes(c)
      PROVE  IInv'
  <2>1. /\ Moves(c, Answered(c, 200), {call[c].id})
        /\ users' = [users EXCEPT ![call[c].id] = Merged(c)]
        /\ born' = born \cup {call[c].id}
    BY <1>1, <1>4 DEF Writes
  <2> DEFINE r == Answered(c, 200)
  <2>2. /\ r \in CallType /\ r.step = "done"
        /\ r.answer \in {409, 500} /\ r.id = NoId => "spoilt" \in r.marks
    BY <1>1, AnswerFits
  <2>3. PICK row \in Row : row = Merged(c)
    BY <1>1, MergedIsRow
  <2>4. PICK i \in Ids : i = call[c].id
    BY <1>1
  <2>5. PICK written : written = {i}
    OBVIOUS
  <2>6. /\ users' = [users EXCEPT ![i] = row] /\ born' = born \cup {i} /\ Moves(c, r, written)
        /\ ~ EmailOfOther(row.email, i)
    BY <1>4, <2>1, <2>3, <2>4, <2>5
  <2>7. i \in written \/ i \notin born
    BY <2>5
  <2> HIDE DEF r
  <2>. QED
    BY <1>2, <2>2, <2>6, <2>7, WritesKeep
<1>. QED
  BY <1>3, <1>4 DEF Update

\* The DELETE leaves no row.
LEMMA DeleteKeeps ==
  ASSUME IInv, NEW c \in Calls, Delete(c)
  PROVE  IInv'
<1>1. /\ TypeOK /\ call[c].id \in born /\ born \subseteq Ids /\ NoId \notin Ids
      /\ Moves(c, Answered(c, 200), {call[c].id})
      /\ users' = [users EXCEPT ![call[c].id] = NoRow]
      /\ born' = born /\ calls' = calls /\ failures' = failures
  BY DEF Delete, IInv, TypeOK
<1>2. /\ born' = born \cup {call[c].id}
      /\ calls' \in 0 .. MaxCalls /\ failures' \in 0 .. MaxFailures
  BY <1>1 DEF TypeOK
<1> DEFINE r == Answered(c, 200)
<1>3. /\ r \in CallType /\ r.step = "done"
      /\ r.answer \in {409, 500} /\ r.id = NoId => "spoilt" \in r.marks
  BY <1>1, AnswerFits
<1>4. PICK i \in Ids : i = call[c].id
  BY <1>1
<1>5. PICK row \in Row \cup {NoRow} : row = NoRow
  OBVIOUS
<1>6. PICK written : written = {i}
  OBVIOUS
<1>7. users' = [users EXCEPT ![i] = row] /\ born' = born \cup {i} /\ Moves(c, r, written)
  BY <1>1, <1>4, <1>5, <1>6
<1>8. (i \in written \/ i \notin born) /\ (row # NoRow => ~ EmailOfOther(row.email, i))
  BY <1>5, <1>6
<1> HIDE DEF r
<1>. QED
  BY <1>2, <1>3, <1>7, <1>8, WritesKeep

-----------------------------------------------------------------------------
(***************************************************************************)
(* The theorems of the specification.                                      *)
(***************************************************************************)
\* Every step keeps IInv.
LEMMA NextKeeps ==
  ASSUME IInv, [Next]_vars
  PROVE  IInv'
<1>1. ASSUME NEW c \in Calls, Request(c)
      PROVE  IInv'
  BY <1>1, RegisterKeeps, UpdateUserKeeps, DeleteUserKeeps DEF Request
<1>2. CASE UNCHANGED vars
  BY <1>2 DEF vars, IInv, TypeOK, Accounts, UniqueEmails, CallFits, SpoiltSeen,
     NameUsed, EmailUsed, ReadStill, RegistersWhatIsFree
<1>. QED
  BY <1>1, <1>2, ReceiveKeeps, FailKeeps, UsernameExistsKeeps, EmailExistsKeeps,
     InsertKeeps, GetByPublicIDKeeps, UpdateKeeps, GetByIDKeeps, DeleteKeeps DEF Next

\* IInv is an invariant of Accounts, whatever the sizes.
THEOREM Invariance == Spec => []IInv
  BY InitInv, NextKeeps, PTL DEF Spec

\* No two accounts have one email, whatever requests cross (store.go, the UNIQUE key).
THEOREM InvHolds == Spec => []Inv
<1>1. IInv => Inv
  BY DEF IInv, Inv
<1>. QED
  BY <1>1, Invariance, PTL

\* A registration is refused, by a check or by the database, only when its name or its
\* email was in use at a moment of its run, or a statement failed: by SpoiltSeen it was
\* spoilt then.
THEOREM Registers == Spec => []RegistersWhatIsFree
<1>1. IInv => RegistersWhatIsFree
  BY DEF IInv
<1>. QED
  BY <1>1, Invariance, PTL

\* A registration gets to its INSERT only after a moment in which its name was free:
\* nothing else keeps two accounts from one name.
THEOREM Checked == Spec => NamesChecked
<1>1. ASSUME IInv, NEW c \in Calls, call[c].step = "insert"
      PROVE  "free" \in call[c].marks
  BY <1>1 DEF IInv, CallFits
<1>2. IInv /\ [Next]_vars =>
         [\A c \in Calls :
            call[c].step = "insert" /\ call'[c].answer = 201 => "free" \in call[c].marks]_vars
  BY <1>1
<1>. QED
  BY <1>2, Invariance, PTL DEF Spec, NamesChecked

\* A request that waits for its UPDATE is answered 200 by that statement alone.
LEMMA AnsweredByUpdate ==
  ASSUME IInv, Next, NEW c \in Calls, call[c].step = "write", call'[c].answer = 200
  PROVE  Update(c)
<1>1. call[c] \in CallType /\ call[c].answer = 0
  BY DEF IInv, TypeOK, CallFits
<1>2. ASSUME NEW d \in Calls \ {c}, NEW r, NEW written, Moves(d, r, written)
      PROVE  FALSE
  BY <1>1, <1>2 DEF Moves
<1>3. ASSUME NEW d \in Calls \ {c}, NEW r, Reads(d, r)
      PROVE  FALSE
  BY <1>2, <1>3, Zenon DEF Reads
<1>4. PICK d \in Calls :
         \/ Request(d) \/ Receive(d) \/ Fail(d)
         \/ UsernameExists(d) \/ EmailExists(d) \/ Insert(d)
         \/ GetByPublicID(d) \/ Update(d) \/ GetByID(d) \/ Delete(d)
  BY DEF Next
<1>5. ~ Receive(d)
  BY <1>1 DEF Receive, IInv, TypeOK
<1>6. CASE d = c
  <2>1. ~ Fail(c)
    <3>. SUFFICES ASSUME Reads(c, Failed(c))
                  PROVE  FALSE
      BY DEF Fail
    <3>1. Failed(c) \in CallType /\ Failed(c).answer = 500
      BY AnswerFits DEF IInv
    <3>2. call'[c].answer = Failed(c).answer
      BY <3>1, MovesCalls DEF Reads, IInv
    <3>. QED
      BY <3>1, <3>2
  <2>. QED
    BY <1>4, <1>5, <1>6, <2>1 DEF Request, Register, UpdateUser, DeleteUser, Begins,
       UsernameExists, EmailExists, Insert, GetByPublicID, GetByID, Delete
<1>7. CASE d # c
  <2>1. ~ (Request(d) \/ Fail(d) \/ UsernameExists(d) \/ EmailExists(d) \/ GetByPublicID(d)
           \/ GetByID(d))
    BY <1>3, <1>7 DEF Request, Register, UpdateUser, DeleteUser, Begins, Fail,
       UsernameExists, EmailExists, GetByPublicID, GetByID
  <2>2. ~ Insert(d)
    BY <1>2, <1>3 DEF Insert, Inserts
  <2>3. ~ Update(d)
    BY <1>2, <1>3, <1>7 DEF Update, Writes
  <2>4. ~ Delete(d)
    BY <1>2 DEF Delete
  <2>. QED
    BY <1>4, <1>5, <2>1, <2>2, <2>3, <2>4
<1>. QED
  BY <1>6, <1>7

\* An update changes a field that it was not asked to change only if another write has
\* overtaken it between its SELECT and its UPDATE: by ReadStill the row it merges into is
\* the row it read.
THEOREM Stays == Spec => OthersFieldsStay
<1>1. ASSUME IInv, Next, NEW c \in Calls, call[c].step = "write", call'[c].answer = 200,
             users[call[c].id] # NoRow, NEW f \in {"name", "email"},
             users'[call[c].id][f] # users[call[c].id][f]
      PROVE  f \in Asked(c) \/ "late" \in call[c].marks
  <2>1. users' = [users EXCEPT ![call[c].id] = Merged(c)]
    BY <1>1, AnsweredByUpdate DEF Update, Reads, Writes
  <2>3. "late" \notin call[c].marks => users[call[c].id] = call[c].row
    BY <1>1 DEF IInv, ReadStill
  <2>4. users'[call[c].id] = Merged(c)
    BY <1>1, <2>1
  <2>5. CASE f = "name"
    BY <1>1, <2>3, <2>4 DEF Merged
  <2>6. CASE f = "email"
    BY <1>1, <2>3, <2>4 DEF Merged
  <2>. QED
    BY <2>5, <2>6
<1>2. IInv /\ [Next]_vars =>
         [\A c \in Calls : call[c].step = "write" /\ call'[c].answer = 200 =>
            LET i == call[c].id
            IN users[i] # NoRow =>
                  \A f \in {"name", "email"} :
                      users'[i][f] # users[i][f] => f \in Asked(c) \/ "late" \in call[c].marks]_vars
  BY <1>1
<1>. QED
  BY <1>2, Invariance, PTL DEF Spec, OthersFieldsStay

\* A deleted account does not come back: an UPDATE finds no row of it, and an INSERT
\* takes an id that nobody had.
THEOREM Deleted == Spec => DeletedStays
<1>1. ASSUME IInv, Next, NEW i \in Ids, i \in born, users[i] = NoRow
      PROVE  users'[i] = NoRow
  <2>1. PICK c \in Calls :
           \/ Request(c) \/ Receive(c) \/ Fail(c)
           \/ UsernameExists(c) \/ EmailExists(c) \/ Insert(c)
           \/ GetByPublicID(c) \/ Update(c) \/ GetByID(c) \/ Delete(c)
    BY <1>1 DEF Next
  <2>2. CASE Insert(c) \/ Update(c) \/ Delete(c)
    BY <1>1, <2>2 DEF Insert, Inserts, Update, Writes, Delete, Reads, IInv, TypeOK
  <2>3. CASE ~ (Insert(c) \/ Update(c) \/ Delete(c))
    BY <1>1, <2>1, <2>3 DEF Request, Register, UpdateUser, DeleteUser, Begins,
       Receive, Fail, UsernameExists, EmailExists, GetByPublicID, GetByID, Reads
  <2>. QED
    BY <2>2, <2>3
<1>2. IInv /\ [Next]_vars =>
         [\A i \in Ids : i \in born /\ users[i] = NoRow => users'[i] = NoRow]_vars
  BY <1>1
<1>. QED
  BY <1>2, Invariance, PTL DEF Spec, DeletedStays
==============================================================================
