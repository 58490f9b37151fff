------------------------------- MODULE ConvIds -------------------------------
(***************************************************************************)
(* The ids of conversations (conversation.go): "p_", the smaller of the    *)
(* two users' public ids, "_" and the larger; or "g_" and the group's id.  *)
(* The user who sends a message names the conversation, and SendMessage    *)
(* finds the other user by taking the id apart.  Characters are numbers in *)
(* the order of their bytes; public ids are what GenerateNanoID makes      *)
(* (shared.go:43), all of one length, of an alphabet that has "_".         *)
(***************************************************************************)
EXTENDS Integers, Sequences, FiniteSetsExt

CONSTANTS
    Alphabet,        \* the characters of nanoIDAlphabet
    Underscore, P,   \* two of them
    PublicIDLength   \* the configured length

ASSUME ConvIdsAssumption ==
    /\ Alphabet \subseteq Nat /\ {Underscore, P} \subseteq Alphabet /\ Underscore # P
    /\ PublicIDLength \in Nat \ {0}

PublicIDs == [1 .. PublicIDLength -> Alphabet]

\* Go compares strings byte by byte.
Less(a, b) ==
    \E i \in 1 .. Len(b) :
        /\ \A j \in 1 .. i - 1 : j \in 1 .. Len(a) /\ a[j] = b[j]
        /\ i > Len(a) \/ a[i] < b[i]

PrivateConvID(a, b) ==
    LET of(x, y) == <<P, Underscore>> \o x \o <<Underscore>> \o y
    IN  IF Less(a, b) THEN of(a, b) ELSE of(b, a)

NoConv == <<>>

\* The last underscore separates the ids.
ParsePrivateConv(c) ==
    LET rest == SubSeq(c, 3, Len(c))
        marks == {i \in 1 .. Len(rest) : rest[i] = Underscore}
    IN  IF Len(c) < 3 \/ c[1] # P \/ c[2] # Underscore \/ marks = {}
        THEN NoConv
        ELSE <<SubSeq(rest, 1, Max(marks) - 1), SubSeq(rest, Max(marks) + 1, Len(rest))>>

CanAccessPrivateConv(c, id) == LET ids == ParsePrivateConv(c) IN \E i \in DOMAIN ids : ids[i] = id

\* The other's id; empty if the caller's is neither.
GetOtherPublicID(c, id) ==
    LET ids == ParsePrivateConv(c)
    IN  IF ~ CanAccessPrivateConv(c, id) THEN <<>>
        ELSE IF ids[1] = id THEN ids[2] ELSE ids[1]
==============================================================================
