------------------------------- MODULE Accounts -------------------------------
(***************************************************************************)
(* Accounts: registration, update and deletion of users (account.go) over  *)
(* the table users (store.go, migration.go).                               *)
(*                                                                         *)
(* A step is one SQL statement.  The table has a unique index on email,    *)
(* which holds "" for an account without one, and none on username.  The   *)
(* name stands for the bio too, which is written with it.  Public ids are  *)
(* fresh.  What else goes with an account is deleted in Friends and Groups.*)
(***************************************************************************)
EXTENDS Integers, FiniteSets

CONSTANTS
    Ids,           \* of accounts, given out once each
    Names,
    Emails,
    Calls,         \* requests in progress; a slot is used again and again
    MaxCalls,      \* bound: requests
    MaxFailures    \* bound: statements that fail

NoId == "noid"
Blank == ""        \* a field that is left out or empty
NoRow == [name |-> Blank, email |-> Blank]

ASSUME AccountsAssumption ==
    /\ {MaxCalls, MaxFailures} \subseteq Nat
    /\ Blank \notin Names \cup Emails /\ NoId \notin Ids

VARIABLES
    users,    \* the rows by id, NoRow where there is none
    born,     \* the ids that have been given out
    call,     \* the requests
    calls,    \* how many there have been
    failures

vars == <<users, born, call, calls, failures>>

Accounts == {i \in Ids : users[i] # NoRow}
NameUsed(n) == \E i \in Accounts : users[i].name = n
EmailUsed(e) == \E i \in Accounts : users[i].email = e
EmailOfOther(e, i) == \E j \in Accounts \ {i} : users[j].email = e

\* A request: what it is about, the row it has read, its answer and (history)
\* marks: "free" if its name has been free, "spoilt" if name or email has been in
\* use or a statement has failed, "late" if others wrote the row since it read.
Asking(step, id, name, email) ==
    [step |-> step, id |-> id, name |-> name, email |-> email, row |-> NoRow,
     answer |-> 0, marks |-> {}]

NewCall == Asking("idle", NoId, Blank, Blank)

Init ==
    /\ users = [i \in Ids |-> NoRow] /\ born = {}
    /\ call = [c \in Calls |-> NewCall] /\ calls = 0 /\ failures = 0

Fails == failures < MaxFailures /\ failures' = failures + 1

Registering == {"names", "mails", "insert"}

\* The requests after a step in which c becomes r and the rows of the ids in
\* written are written: the history of the requests under way goes on.
Moves(c, r, written) ==
    LET Used(f, v) == \E i \in Ids : users'[i] # NoRow /\ users'[i][f] = v
        Seen(e) ==
            IF e.step \in Registering
            THEN [e EXCEPT !.marks = @
                      \cup (IF Used("name", e.name) THEN {} ELSE {"free"})
                      \cup (IF Used("name", e.name) \/ Used("email", e.email) THEN {"spoilt"} ELSE {})]
            ELSE e
    IN call' = [d \in Calls |->
           IF d = c THEN Seen(r)
           ELSE IF call[d].step = "write" /\ call[d].id \in written
           THEN [call[d] EXCEPT !.marks = @ \cup {"late"}]
           ELSE Seen(call[d])]

Reads(c, r) == UNCHANGED <<users, born>> /\ Moves(c, r, {})

Begins(c, r) ==
    /\ call[c].step = "idle" /\ calls < MaxCalls /\ calls' = calls + 1
    /\ Reads(c, r) /\ UNCHANGED failures

\* An answer waits for its client, who then forgets it.
Answered(c, answer) ==
    [step |-> "done", id |-> call[c].id, name |-> Blank, email |-> Blank, row |-> NoRow,
     answer |-> answer, marks |-> call[c].marks \cap {"spoilt"}]

Receive(c) ==
    /\ call[c].step = "done"
    /\ call' = [call EXCEPT ![c] = NewCall]
    /\ UNCHANGED <<users, born, calls, failures>>

Failed(c) == [Answered(c, 500) EXCEPT !.marks = {"spoilt"}]

\* A statement fails, with no effect: the raw error is answered as 500.
Fail(c) ==
    /\ call[c].step \notin {"idle", "done"} /\ Fails
    /\ Reads(c, Failed(c))
    /\ UNCHANGED calls

-----------------------------------------------------------------------------
(***************************************************************************)
(* Register and CreateUser                                                 *)
(***************************************************************************)
Register(c, n, e) ==
    Begins(c, Asking("names", NoId, n, e))

\* (A slip for UsernameExists: no look at the table.)
UsernameUnchecked(c) ==
    /\ call[c].step = "names" /\ UNCHANGED <<calls, failures>>
    /\ Reads(c, [call[c] EXCEPT !.step = IF call[c].email = Blank THEN "insert" ELSE "mails"])

\* (A slip for UsernameExists: a name that is being registered is in use, too.)
UsernamePending(c) ==
    /\ call[c].step = "names" /\ UNCHANGED <<calls, failures>>
    /\ Reads(c, IF \/ NameUsed(call[c].name)
                   \/ \E d \in Calls : call[d].step = "insert" /\ call[d].name = call[c].name
                THEN Answered(c, 409)
                ELSE [call[c] EXCEPT !.step = IF call[c].email = Blank THEN "insert" ELSE "mails"])

UsernameExists(c) ==
    /\ call[c].step = "names" /\ UNCHANGED <<calls, failures>>
    /\ Reads(c, IF NameUsed(call[c].name) THEN Answered(c, 409)
                ELSE [call[c] EXCEPT !.step = IF call[c].email = Blank THEN "insert" ELSE "mails"])

EmailExists(c) ==
    /\ call[c].step = "mails" /\ UNCHANGED <<calls, failures>>
    /\ Reads(c, IF EmailUsed(call[c].email) THEN Answered(c, 409)
                ELSE [call[c] EXCEPT !.step = "insert"])

\* The row is stored; the answer may get lost and then is an error.
Inserts(c, i) ==
    /\ i \in Ids \ born /\ born' = born \cup {i}
    /\ users' = [users EXCEPT ![i] = [name |-> call[c].name, email |-> call[c].email]]
    /\ \/ Moves(c, Answered(c, 201), {}) /\ UNCHANGED failures
       \/ Moves(c, Failed(c), {}) /\ Fails
    /\ UNCHANGED calls

\* (A slip for Insert: emails have no unique index.)
InsertAny(c) ==
    /\ call[c].step = "insert"
    /\ \E i \in Ids : Inserts(c, i)

\* The unique index counts the empty email as any other.
Insert(c) ==
    /\ call[c].step = "insert"
    /\ \/ EmailUsed(call[c].email) /\ Reads(c, Answered(c, 500)) /\ UNCHANGED <<calls, failures>>
       \/ ~EmailUsed(call[c].email) /\ \E i \in Ids : Inserts(c, i)

-----------------------------------------------------------------------------
(***************************************************************************)
(* UpdateUser: the handler reads the row, sets the fields of the request   *)
(* and writes all of them back, whatever the row is by then.               *)
(***************************************************************************)
UpdateUser(c, i, n, e) ==
    /\ i \in born
    /\ Begins(c, Asking("read", i, n, e))

GetByPublicID(c) ==
    /\ call[c].step = "read" /\ UNCHANGED <<calls, failures>>
    /\ Reads(c, IF users[call[c].id] = NoRow THEN Answered(c, 404)
                ELSE [call[c] EXCEPT !.step = "write", !.row = users[call[c].id]])

Asked(c) ==
    {f \in {"name", "email"} : call[c][f] # Blank}

\* (A slip for Merged: a field that is left out is emptied.)
MergedBlank(c) == [name |-> call[c].name, email |-> call[c].email]

Merged(c) ==
    LET Field(f) == IF f \in Asked(c) THEN call[c][f] ELSE call[c].row[f]
    IN [name |-> Field("name"), email |-> Field("email")]

Writes(c) ==
    /\ users' = [users EXCEPT ![call[c].id] = Merged(c)]
    /\ Moves(c, Answered(c, 200), {call[c].id})
    /\ UNCHANGED <<born, calls>>

\* (A slip for Update: the row is written whether it is there or not.)
UpdateUpserts(c) ==
    /\ call[c].step = "write" /\ UNCHANGED failures
    /\ \/ EmailOfOther(Merged(c).email, call[c].id) /\ Reads(c, Answered(c, 500)) /\ UNCHANGED calls
       \/ ~EmailOfOther(Merged(c).email, call[c].id) /\ Writes(c)

\* UPDATE ... WHERE id: of a row that is gone nothing is written, and the answer
\* is 200 all the same.  Nobody asks whether the name is in use.
Update(c) ==
    /\ call[c].step = "write" /\ UNCHANGED failures
    /\ \/ users[call[c].id] = NoRow /\ Reads(c, Answered(c, 200)) /\ UNCHANGED calls
       \/ /\ users[call[c].id] # NoRow
          /\ \/ EmailOfOther(Merged(c).email, call[c].id) /\ Reads(c, Answered(c, 500)) /\ UNCHANGED calls
             \/ ~EmailOfOther(Merged(c).email, call[c].id) /\ Writes(c)

-----------------------------------------------------------------------------
\* DeleteUser, as far as the table users goes: the row is found twice and then
\* deleted.
DeleteUser(c, i) ==
    i \in born /\ Begins(c, Asking("find", i, Blank, Blank))

GetByID(c) ==
    /\ call[c].step = "find" /\ UNCHANGED <<calls, failures>>
    /\ Reads(c, IF users[call[c].id] = NoRow THEN Answered(c, 404)
                ELSE [call[c] EXCEPT !.step = "delete"])

Delete(c) ==
    /\ call[c].step = "delete" /\ UNCHANGED <<born, calls, failures>>
    /\ users' = [users EXCEPT ![call[c].id] = NoRow]
    /\ Moves(c, Answered(c, 200), {call[c].id})

-----------------------------------------------------------------------------
Request(c) ==
    \/ \E n \in Names, e \in Emails \cup {Blank} : Register(c, n, e)
    \/ \E i \in Ids, n \in Names \cup {Blank}, e \in Emails \cup {Blank} : UpdateUser(c, i, n, e)
    \/ \E i \in Ids : DeleteUser(c, i)

Next ==
    \E c \in Calls :
        \/ Request(c) \/ Receive(c) \/ Fail(c)
        \/ UsernameExists(c) \/ EmailExists(c) \/ Insert(c)
        \/ GetByPublicID(c) \/ Update(c) \/ GetByID(c) \/ Delete(c)

Spec == Init /\ [][Next]_vars

-----------------------------------------------------------------------------
Steps == {"idle", "done", "names", "mails", "insert", "read", "write", "find", "delete"}

Row == [name : Names, email : Emails \cup {Blank}]

CallType ==
    [step : Steps, id : Ids \cup {NoId}, name : Names \cup {Blank},
     email : Emails \cup {Blank}, row : Row \cup {NoRow},
     answer : {0, 200, 201, 404, 409, 500}, marks : SUBSET {"free", "spoilt", "late"}]

TypeOK ==
    /\ users \in [Ids -> Row \cup {NoRow}] /\ Accounts \subseteq born /\ born \subseteq Ids
    /\ calls \in 0 .. MaxCalls /\ failures \in 0 .. MaxFailures
    /\ call \in [Calls -> CallType]
    /\ \A c \in Calls : call[c].step \in {"read", "write", "find", "delete"} => call[c].id \in born

\* Two accounts never have one email - nor are there two without (migration.go:41) -
\* though registrations pass EmailExists side by side and updates do not ask.
UniqueEmails ==
    \A i, j \in Accounts : users[i].email = users[j].email => i = j

\* The users table has its types and its key (migration.go:35).
Inv == TypeOK /\ UniqueEmails

\* An account gets a name by registration only if nobody had it at some moment
\* of that request (account.go:381): an account that kept it all the while is
\* seen, whatever renamings and deletions go on beside.
NamesChecked ==
    [][\A c \in Calls :
          call[c].step = "insert" /\ call'[c].answer = 201 => "free" \in call[c].marks]_vars

\* A registration whose name and email nobody has had since it began is carried
\* out unless a statement fails (account.go:95): what other requests only try
\* does not spoil it.  The empty email counts: of two accounts without one the
\* second is refused, with 500 (account.go:389, migration.go:41).
RegistersWhatIsFree ==
    \A c \in Calls : call[c].step = "done" /\ call[c].answer \in {409, 500} /\ call[c].id = NoId
        => "spoilt" \in call[c].marks

\* A field changes only in an update that asks for it, or in one that had read
\* the account before someone else wrote it and puts the old value back: the
\* lost update needs two updates that overlap (account.go:426).
OthersFieldsStay ==
    [][\A c \in Calls : call[c].step = "write" /\ call'[c].answer = 200 =>
          LET i == call[c].id
          IN users[i] # NoRow =>
                \A f \in {"name", "email"} :
                    users'[i][f] # users[i][f] => f \in Asked(c) \/ "late" \in call[c].marks]_vars

\* An account that is deleted stays deleted, though updates that have read it
\* write it back afterwards (store.go:267).
DeletedStays ==
    [][\A i \in Ids : i \in born /\ users[i] = NoRow => users'[i] = NoRow]_vars
==============================================================================
