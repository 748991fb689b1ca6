-------------------------- MODULE BlockingResolver --------------------------
(***************************************************************************)
(* blockingResolver of pkg/container/resolver.go: Add resolves the source  *)
(* before it returns and keeps the result in r.results, which Finish       *)
(* reports.  Resolve and ResolveAll neither read nor change r.results and  *)
(* have no state of their own.                                             *)
(***************************************************************************)
EXTENDS Sequences, Naturals

CONSTANTS Requests, Invalid,
          MaxFinishes   \* bound: Finish calls of the client

VARIABLES results,    \* r.results: the requests added, with what came of each
          added,      \* added since the last Finish
          finished,   \* added before it
          reply,      \* what the last Finish returned
          finishes    \* Finish calls so far

vars == <<results, added, finished, reply, finishes>>

Init ==
    /\ results = <<>> /\ added = {} /\ finished = {}
    /\ reply = [specs |-> {}, errors |-> {}]
    /\ finishes = 0

\* Resolve: newClient refuses an invalid reference, any other may fail.
CanResolve(r) == r \notin Invalid

\* Mutant: Add returns on an error without keeping it.
Add_SkipErrors(r) ==
    /\ r \notin added \cup finished
    /\ added' = added \cup {r}
    /\ \/ CanResolve(r) /\ results' = Append(results, [request |-> r, ok |-> TRUE])
       \/ UNCHANGED results
    /\ UNCHANGED <<finished, reply, finishes>>

Add(r) ==
    /\ r \notin added \cup finished
    /\ added' = added \cup {r}
    /\ \E ok \in BOOLEAN :
         /\ ok => CanResolve(r)
         /\ results' = Append(results, [request |-> r, ok |-> ok])
    /\ UNCHANGED <<finished, reply, finishes>>

Reported(ok) == {results[i].request : i \in {k \in DOMAIN results : results[k].ok = ok}}

\* Finish: every entry of r.results, which stays as it is.
Finish ==
    /\ finishes < MaxFinishes
    /\ reply' = [specs |-> Reported(TRUE), errors |-> Reported(FALSE)]
    /\ finished' = finished \cup added /\ added' = {}
    /\ finishes' = finishes + 1
    /\ UNCHANGED results

Next == Finish \/ \E r \in Requests : Add(r)

Spec == Init /\ [][Next]_vars

-----------------------------------------------------------------------------

\* A batch is reported as the interface promises: nothing added is missing
\* from the answer, and what does not parse is an error.  (For one batch:
\* results outlives Finish, and a second Finish reports the first one again.)
Abstract == INSTANCE Resolver
ResolverSpec == Abstract!Spec
=============================================================================
