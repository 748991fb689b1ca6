--------------------------- MODULE AsyncResolver ---------------------------
(***************************************************************************)
(* asyncResolver of pkg/container/resolver.go.  One client goroutine calls *)
(* Add, Finish and ResolveAll (Resolve is ResolveAll of one source); every *)
(* Add of a reference that parses starts a goroutine that resolves it and  *)
(* sends the result on r.queue.  A reference that does not parse is        *)
(* reported by Add itself, with a send on the same queue.                  *)
(***************************************************************************)
EXTENDS Naturals, Sequences, FiniteSets

CONSTANTS Requests,   \* the container sources the client asks for
          Invalid,    \* those that newClient refuses
          QueueCap,   \* buffer of r.queue: 2 in NewResolver
          MaxBatch,   \* bound: Adds between two Finish calls
          MaxRefused  \* bound: those of them up to a reference in Invalid

ASSUME AsyncResolverAssumption ==
    /\ IsFiniteSet(Requests) /\ Invalid \subseteq Requests
    /\ QueueCap \in Nat \ {0} /\ MaxBatch \in Nat \ {0} /\ MaxRefused \in Nat

VARIABLES client,   \* "idle", "adding" (in Add's own send), "finishing", "nextSource"
          asked,    \* the argument of the last ResolveAll
          todo,     \* those of them it has still to resolve
          all,      \* the client is inside ResolveAll
          jobs, queue,
          request,  \* how far each request is
          outcome,  \* what resolving it gave
          specs, errs,
          reply,    \* what the last Finish returned
          answer    \* what the last ResolveAll returned

clientVars == <<client, asked, todo, all>>
finishVars == <<specs, errs, reply>>
vars == <<clientVars, jobs, queue, request, outcome, finishVars, answer>>

In(stages) == {r \in Requests : request[r] \in stages}

\* The requests counted in jobs: added, and not received by Finish yet.
Outstanding == In({"adding", "resolving", "sending", "queued"})
\* The requests the next return of Finish has to account for.
Batch == Outstanding \cup In({"collected"})

Init ==
    /\ client = "idle" /\ asked = {} /\ todo = {} /\ all = FALSE
    /\ jobs = 0 /\ queue = <<>>
    /\ request = [r \in Requests |-> "new"]
    /\ outcome = [r \in Requests |-> "none"]
    /\ specs = {} /\ errs = {}
    /\ reply = [specs |-> {}, errors |-> {}]
    /\ answer = [ok |-> TRUE, specs |-> {}]

\* The bounds on what the client asks for before it collects.
MayAsk(sources) ==
    /\ Cardinality(Batch) < MaxBatch
    /\ sources \cap Invalid # {} => Cardinality(Batch) < MaxRefused

-----------------------------------------------------------------------------

\* Add when newClient succeeds: a goroutine is started and Add returns.
\* "then" is where the client goes on.
StartResolving(r, then) ==
    /\ r \notin Invalid
    /\ jobs' = jobs + 1
    /\ request' = [request EXCEPT ![r] = "resolving"]
    /\ client' = then
    /\ UNCHANGED <<queue, outcome>>

\* Mutant: the refused reference is not counted as a job.
RefuseReference_NotCounted(r) ==
    /\ r \in Invalid
    /\ jobs' = jobs
    /\ request' = [request EXCEPT ![r] = "adding"]
    /\ outcome' = [outcome EXCEPT ![r] = "error"]
    /\ client' = "adding"
    /\ UNCHANGED queue

\* Mutant: Add forgets a reference it refuses.
RefuseReference_Dropped(r) ==
    /\ r \in Invalid
    /\ request' = [request EXCEPT ![r] = "adding"]
    /\ UNCHANGED <<client, jobs, queue, outcome>>

\* Add when newClient fails: Add itself has to send the error on r.queue.
RefuseReference(r) ==
    /\ r \in Invalid
    /\ jobs' = jobs + 1
    /\ request' = [request EXCEPT ![r] = "adding"]
    /\ outcome' = [outcome EXCEPT ![r] = "error"]
    /\ client' = "adding"
    /\ UNCHANGED queue

Add(r) ==
    /\ client = "idle" /\ request[r] = "new" /\ MayAsk({r})
    /\ StartResolving(r, "idle") \/ RefuseReference(r)
    /\ UNCHANGED <<asked, todo, all, finishVars, answer>>

\* The send inside Add: it blocks the caller while the queue is full.
SendFromAdd(r) ==
    /\ client = "adding" /\ request[r] = "adding"
    /\ Len(queue) < QueueCap
    /\ queue' = Append(queue, r)
    /\ request' = [request EXCEPT ![r] = "queued"]
    /\ client' = IF all THEN "finishing" ELSE "idle"
    /\ UNCHANGED <<asked, todo, all, jobs, outcome, finishVars, answer>>

\* The goroutine of Add: client.Resolve returns within its 60 seconds.
ResolveReference(r, result) ==
    /\ request[r] = "resolving"
    /\ outcome' = [outcome EXCEPT ![r] = result]
    /\ request' = [request EXCEPT ![r] = "sending"]
    /\ UNCHANGED <<clientVars, jobs, queue, finishVars, answer>>

\* Mutant: the goroutine returns on an error without sending it.
SendResult_OnlySpecs(r) ==
    /\ request[r] = "sending" /\ outcome[r] = "spec"
    /\ Len(queue) < QueueCap
    /\ queue' = Append(queue, r)
    /\ request' = [request EXCEPT ![r] = "queued"]
    /\ UNCHANGED <<clientVars, jobs, outcome, finishVars, answer>>

\* The goroutine's send on r.queue.
SendResult(r) ==
    /\ request[r] = "sending"
    /\ Len(queue) < QueueCap
    /\ queue' = Append(queue, r)
    /\ request' = [request EXCEPT ![r] = "queued"]
    /\ UNCHANGED <<clientVars, jobs, outcome, finishVars, answer>>

-----------------------------------------------------------------------------

Finish ==
    /\ client = "idle"
    /\ client' = "finishing"
    /\ UNCHANGED <<asked, todo, all, jobs, queue, request, outcome, finishVars, answer>>

\* Finish receives one result.
Collect ==
    /\ client = "finishing" /\ jobs > 0 /\ queue # <<>>
    /\ LET r == Head(queue) IN
         /\ request' = [request EXCEPT ![r] = "collected"]
         /\ specs' = IF outcome[r] = "spec" THEN specs \cup {r} ELSE specs
         /\ errs' = IF outcome[r] = "error" THEN errs \cup {r} ELSE errs
    /\ queue' = Tail(queue)
    /\ jobs' = jobs - 1
    /\ UNCHANGED <<clientVars, outcome, reply, answer>>

\* What Finish leaves behind when it returns to "then".
Return(then) ==
    /\ client = "finishing" /\ jobs = 0
    /\ reply' = [specs |-> specs, errors |-> errs]
    /\ request' = [r \in Requests |-> IF request[r] = "collected" THEN "returned" ELSE request[r]]
    /\ specs' = {} /\ errs' = {}
    /\ client' = then
    /\ UNCHANGED <<jobs, queue, outcome>>

FinishReturns ==
    /\ ~ all /\ Return("idle")
    /\ UNCHANGED <<asked, todo, all, answer>>

-----------------------------------------------------------------------------

\* ResolveAll: the sources of every name, in any order (they come from a map).
ResolveAll(sources) ==
    /\ client = "idle" /\ sources # {} /\ \A r \in sources : request[r] = "new"
    /\ MayAsk(sources)
    /\ asked' = sources /\ todo' = sources /\ all' = TRUE
    /\ client' = "nextSource"
    /\ answer' = [ok |-> TRUE, specs |-> {}]
    /\ UNCHANGED <<jobs, queue, request, outcome, finishVars>>

\* Resolve: Add, then Finish.
ResolveNext(r) ==
    /\ client = "nextSource" /\ r \in todo
    /\ todo' = todo \ {r}
    /\ StartResolving(r, "finishing") \/ RefuseReference(r)
    /\ UNCHANGED <<asked, all, finishVars, answer>>

\* Mutant: the first of several results is taken for the one asked for.
ResolveReturns_FirstResult ==
    /\ all
    /\ IF errs = {} /\ specs # {}
       THEN /\ answer' = [answer EXCEPT !.specs = @ \cup {CHOOSE r \in specs : TRUE}]
            /\ Return(IF todo = {} THEN "idle" ELSE "nextSource")
            /\ all' = (todo # {}) /\ UNCHANGED todo
       ELSE /\ answer' = [ok |-> FALSE, specs |-> {}]
            /\ Return("idle")
            /\ all' = FALSE /\ todo' = {}
    /\ UNCHANGED asked

\* Resolve returns the one spec Finish gave it; anything else is an error and
\* ends ResolveAll.
ResolveReturns ==
    /\ all
    /\ IF errs = {} /\ Cardinality(specs) = 1
       THEN /\ answer' = [answer EXCEPT !.specs = @ \cup specs]
            /\ Return(IF todo = {} THEN "idle" ELSE "nextSource")
            /\ all' = (todo # {}) /\ UNCHANGED todo
       ELSE /\ answer' = [ok |-> FALSE, specs |-> {}]
            /\ Return("idle")
            /\ all' = FALSE /\ todo' = {}
    /\ UNCHANGED asked

Caller ==
    \/ Finish \/ Collect \/ FinishReturns \/ ResolveReturns
    \/ \E r \in Requests : Add(r) \/ SendFromAdd(r) \/ ResolveNext(r)
    \/ \E sources \in SUBSET Requests : ResolveAll(sources)

Goroutine(r) ==
    SendResult(r) \/ \E result \in {"spec", "error"} : ResolveReference(r, result)

Next == Caller \/ \E r \in Requests : Goroutine(r)

\* Every goroutine runs, resolutions end by their timeout, and the client (the
\* loop of bib_legacy.go) goes on calling until it has called Finish.
Spec == Init /\ [][Next]_vars
FairSpec == Spec /\ WF_vars(Caller) /\ \A r \in Requests : WF_vars(Goroutine(r))

-----------------------------------------------------------------------------

\* ResolveAll answers with the specs of exactly the sources it was asked for,
\* or with an error, also when results of Adds that came before it are pending.
AnswersTheQuestion == (client = "idle" /\ answer.ok) => answer.specs = asked

\* Finish returns.
FinishEnds == (client = "finishing") ~> (client # "finishing")

\* A reference that does not parse is an error that Finish reports.
InvalidReported ==
    \A r \in Invalid : (request[r] = "adding") ~> (r \in reply.errors)

\* The resolver keeps the promise of the interface.
Abstract == INSTANCE Resolver WITH added <- Batch, finished <- In({"returned"})
ResolverSpec == Abstract!Spec
=============================================================================
