---------------------------- MODULE FileResolver ----------------------------
(***************************************************************************)
(* The resolver of remote files, pkg/remotefile/resolver.go: Add starts a  *)
(* goroutine that fetches the URL and sends what came of it on r.results,  *)
(* which has no buffer; Finish starts another that closes r.results when   *)
(* the wait group is empty, and receives until it is closed.  There is no  *)
(* Add after Finish, as the comments ask.                                  *)
(***************************************************************************)
EXTENDS Naturals, FiniteSets

CONSTANTS Requests,   \* the URLs the client asks for
          Invalid     \* those that validateURL refuses

VARIABLES client,     \* "adding", "finishing" (receiving), "done"
          fetch,      \* how far each request is
          outcome,    \* what came of it
          wg,         \* r.wg: the goroutines that have not ended
          closer,     \* Finish's goroutine: "none", "waiting", "closed" (it has closed r.results)
          specs, errs,
          reply       \* what Finish returned

vars == <<client, fetch, outcome, wg, closer, specs, errs, reply>>

In(stages) == {r \in Requests : fetch[r] \in stages}

Init ==
    /\ client = "adding" /\ wg = 0 /\ closer = "none"
    /\ fetch = [r \in Requests |-> "new"] /\ outcome = [r \in Requests |-> "none"]
    /\ specs = {} /\ errs = {} /\ reply = [specs |-> {}, errors |-> {}]

(* Add returns at once: what validateURL refuses is found by the goroutine.*)
Add(r) ==
    /\ client = "adding" /\ fetch[r] = "new"
    /\ wg' = wg + 1
    /\ fetch' = [fetch EXCEPT ![r] = "resolving"]
    /\ UNCHANGED <<client, outcome, closer, specs, errs, reply>>

(* client.Resolve: an error for what is refused, anything for the rest.    *)
Resolve(r) ==
    /\ fetch[r] = "resolving"
    /\ \E result \in {"spec", "error"} :
         /\ r \in Invalid => result = "error"
         /\ outcome' = [outcome EXCEPT ![r] = result]
    /\ fetch' = [fetch EXCEPT ![r] = "sending"]
    /\ UNCHANGED <<client, wg, closer, specs, errs, reply>>

Finish ==
    /\ client = "adding"
    /\ client' = "finishing" /\ closer' = "waiting"
    /\ UNCHANGED <<fetch, outcome, wg, specs, errs, reply>>

(* Mutant: the goroutine counts as ended before its result is received.    *)
Receive_DoneFirst(r) ==
    /\ client = "finishing" /\ fetch[r] = "sending" /\ wg > 0
    /\ wg' = 0
    /\ fetch' = [fetch EXCEPT ![r] = "sent"]
    /\ specs' = specs \union (IF outcome[r] = "spec" THEN {r} ELSE {})
    /\ errs' = errs \union (IF outcome[r] = "error" THEN {r} ELSE {})
    /\ UNCHANGED <<client, outcome, closer, reply>>

(* The send and the receive meet: there is no buffer.                      *)
Receive(r) ==
    /\ client = "finishing" /\ fetch[r] = "sending"
    /\ fetch' = [fetch EXCEPT ![r] = "sent"]
    /\ specs' = specs \union (IF outcome[r] = "spec" THEN {r} ELSE {})
    /\ errs' = errs \union (IF outcome[r] = "error" THEN {r} ELSE {})
    /\ UNCHANGED <<client, outcome, wg, closer, reply>>

(* The deferred wg.Done of the goroutine.                                  *)
Done(r) ==
    /\ fetch[r] = "sent"
    /\ wg' = wg - 1
    /\ fetch' = [fetch EXCEPT ![r] = "ended"]
    /\ UNCHANGED <<client, outcome, closer, specs, errs, reply>>

Close ==
    /\ closer = "waiting" /\ wg = 0
    /\ closer' = "closed"
    /\ UNCHANGED <<client, fetch, outcome, wg, specs, errs, reply>>

(* The range over r.results ends when it is closed.                        *)
FinishReturns ==
    /\ client = "finishing" /\ closer = "closed"
    /\ client' = "done"
    /\ reply' = [specs |-> specs, errors |-> errs]
    /\ UNCHANGED <<fetch, outcome, wg, closer, specs, errs>>

Goroutine(r) == Resolve(r) \/ Receive(r) \/ Done(r)

Next == Finish \/ Close \/ FinishReturns \/ \E r \in Requests : Add(r) \/ Goroutine(r)

(* Every goroutine runs, and so does the client once it has called Finish. *)
Fairness ==
    /\ WF_vars(Close) /\ WF_vars(FinishReturns)
    /\ \A r \in Requests : WF_vars(Goroutine(r))

-----------------------------------------------------------------------------
(* Finish accounts for every URL that was added, as the container resolver *)
(* does, although nobody receives before it is called.                     *)
Abstract ==
    INSTANCE Resolver
      WITH added <- IF client = "done" THEN {} ELSE In({"resolving", "sending", "sent", "ended"}),
           finished <- IF client = "done" THEN In({"resolving", "sending", "sent", "ended"}) ELSE {}
ResolverSpec == Abstract!Spec

(* Finish returns.                                                         *)
FinishEnds == (client = "finishing") ~> (client = "done")
=============================================================================
