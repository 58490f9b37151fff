------------------------------ MODULE IdService ------------------------------
(***************************************************************************)
(* What the id generator of idgen.go promises its callers, however many    *)
(* servers, goroutines, prefetches, failures and restarts stand behind it: *)
(* every identifier it hands out is one it never handed out before.        *)
(***************************************************************************)
EXTENDS Integers

CONSTANT Legacy    \* the identifiers in use before the service started

VARIABLES issued,  \* every identifier handed out so far
          handed   \* how many calls were answered with an identifier

vars == <<issued, handed>>

Init == issued = Legacy /\ handed = 0

\* One answered call: the answer is the one identifier that joins issued.
\* Answering twice with one identifier is no Issue step, for handed would move
\* and issued would not.
Issue == /\ \E id \in issued' \ issued : issued' = issued \cup {id}
         /\ handed' = handed + 1

Next == Issue

Spec == Init /\ [][Next]_vars
==============================================================================
