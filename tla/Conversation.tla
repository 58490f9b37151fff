----------------------------- MODULE Conversation -----------------------------
(***************************************************************************)
(* What messaging.go promises about one conversation: its messages and the *)
(* cached last message of the conversation list change together, as if     *)
(* sends and recalls ran one after the other.                              *)
(***************************************************************************)
EXTENDS Integers

CONSTANT Users

VARIABLES messages,  \* the stored messages, by id
          cache      \* last_msg_id and last_msg_is_recalled of the conversation

vars == <<messages, cache>>

Nothing == 0
Blank == [id |-> Nothing, recalled |-> FALSE]

\* A message, or (of # Nothing) the notice that the message `of` was recalled.
Posted(u) == [from |-> u, recalled |-> FALSE, of |-> Nothing]
Notice(u, m) == [from |-> u, recalled |-> TRUE, of |-> m]

With(id, msg) ==
    [i \in DOMAIN messages \cup {id} |-> IF i = id THEN msg ELSE messages[i]]

Init == DOMAIN messages = {} /\ cache = Blank

\* A message and its entry in the conversation list appear together.
Post(u, id) ==
    /\ id \notin DOMAIN messages
    /\ messages' = With(id, Posted(u))
    /\ cache' = [id |-> id, recalled |-> FALSE]

\* The sender's message is blanked, its notice appears, and the list shows it
\* as recalled if it is the one the list shows.
Recall(u, m, id) ==
    /\ m \in DOMAIN messages /\ messages[m].from = u /\ messages[m].of = Nothing
    /\ id \notin DOMAIN messages
    /\ messages' = [With(id, Notice(u, m)) EXCEPT ![m].recalled = TRUE]
    /\ cache' = IF cache.id = m THEN [cache EXCEPT !.recalled = TRUE] ELSE cache

Next == \E u \in Users, id \in DOMAIN messages' \ DOMAIN messages :
            Post(u, id) \/ \E m \in DOMAIN messages : Recall(u, m, id)

Spec == Init /\ [][Next]_vars
==============================================================================
