------------------------------ MODULE Resolver ------------------------------
(***************************************************************************)
(* What the container.Resolver interface promises the image builder: the   *)
(* sources added since the last Finish are resolved, and Finish accounts   *)
(* for each of them, as a spec or as an error, and for nothing else.       *)
(***************************************************************************)
CONSTANTS Requests,   \* the sources a client may add, one Add each
          Invalid     \* those whose reference does not parse

VARIABLES added,      \* added since the last Finish
          finished,   \* accounted for by an earlier Finish
          reply       \* what the last Finish returned

vars == <<added, finished, reply>>

NoReply == [specs |-> {}, errors |-> {}]

Init == added = {} /\ finished = {} /\ reply = NoReply

Add(r) ==
    /\ r \notin added \cup finished
    /\ added' = added \cup {r}
    /\ UNCHANGED <<finished, reply>>

Finish ==
    /\ \E bad \in SUBSET added :
         /\ added \cap Invalid \subseteq bad
         /\ reply' = [specs |-> added \ bad, errors |-> bad]
    /\ finished' = finished \cup added
    /\ added' = {}

Next == Finish \/ \E r \in Requests : Add(r)

Spec == Init /\ [][Next]_vars
=============================================================================
