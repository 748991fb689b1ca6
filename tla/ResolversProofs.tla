-------------------------- MODULE ResolversProofs --------------------------
(***************************************************************************)
(* Proofs about the resolvers, for any set of requests, any of them        *)
(* refused, and any capacity of the queue: each of the three implements    *)
(* Resolver, and ResolveAll of the asynchronous one answers the question   *)
(* it was asked.                                                           *)
(***************************************************************************)
EXTENDS Resolvers, FiniteSetTheorems, TLAPS

USE AsyncResolverAssumption DEF AsyncResolverAssumption

-----------------------------------------------------------------------------
(* The asynchronous resolver.                                              *)

Stages == {"new", "adding", "resolving", "sending", "queued", "collected", "returned"}

AsyncTyped ==
    /\ client \in {"idle", "adding", "finishing", "nextSource"}
    /\ asked \subseteq Requests /\ todo \subseteq asked /\ all \in BOOLEAN
    /\ jobs \in Nat /\ queue \in Seq(Requests)
    /\ request \in [Requests -> Stages]
    /\ outcome \in [Requests -> {"none", "spec", "error"}]
    /\ specs \subseteq Requests /\ errs \subseteq Requests
    /\ answer \in [ok : BOOLEAN, specs : SUBSET Requests]

\* r.jobs counts what Finish has still to receive.
Counted == jobs = Cardinality(Outstanding)

\* The queue holds results that were sent and not received, once each.
QueueOnce ==
    /\ \A i \in DOMAIN queue : request[queue[i]] = "queued"
    /\ \A i, k \in DOMAIN queue : queue[i] = queue[k] => i = k

\* What came of the requests, and what Finish has collected of it.
Results ==
    /\ \A r \in Requests : request[r] \in {"adding", "sending", "queued", "collected"} => outcome[r] # "none"
    /\ \A r \in Invalid : request[r] # "resolving" /\ (request[r] # "new" => outcome[r] = "error")
    /\ specs = {r \in Requests : request[r] = "collected" /\ outcome[r] = "spec"}
    /\ errs = {r \in Requests : request[r] = "collected" /\ outcome[r] = "error"}

\* ResolveAll has the specs of the sources it is through with; the one it is at
\* is among what the next return of Finish accounts for.
Question ==
    /\ ~ all => todo = {} /\ client # "nextSource" /\ (answer.ok => answer.specs = asked)
    /\ all => answer.ok /\ client # "idle"
    /\ \A r \in todo : request[r] = "new"
    /\ client = "nextSource" => answer.specs = asked \ todo
    /\ (all /\ client # "nextSource") =>
          \E c \in asked \ todo : c \in Batch /\ answer.specs = (asked \ todo) \ {c}

AsyncInv == AsyncTyped /\ Counted /\ QueueOnce /\ Results /\ Question

\* A new asyncResolver: no jobs, an empty queue.
LEMMA AsyncInit == Init => AsyncInv
<1> SUFFICES ASSUME Init PROVE AsyncInv
    OBVIOUS
<1>1. AsyncTyped
  <2>1. /\ request \in [Requests -> Stages] /\ outcome \in [Requests -> {"none", "spec", "error"}]
        /\ queue \in Seq(Requests) /\ jobs \in Nat
        BY DEF Init, Stages
  <2>2. answer \in [ok : BOOLEAN, specs : SUBSET Requests]
        BY DEF Init
  <2> QED BY <2>1, <2>2 DEF Init, AsyncTyped
<1>2. Outstanding = {}
      BY DEF Init, Outstanding, In
<1>3. Counted
      BY <1>2, FS_EmptySet DEF Init, Counted
<1>4. QueueOnce
      BY DEF Init, QueueOnce
<1>5. Results
      BY DEF Init, Results
<1>6. Question
      BY DEF Init, Question
<1> QED BY <1>1, <1>3, <1>4, <1>5, <1>6 DEF AsyncInv

\* One more request is outstanding, or one fewer, or as many as before.
LEMMA OutstandingFinite == IsFiniteSet(Outstanding) /\ Cardinality(Outstanding) \in Nat
<1>1. Outstanding \subseteq Requests
      BY DEF Outstanding, In
<1> QED BY <1>1, FS_Subset, FS_CardinalityType

\* r.jobs++ in Add counts the request that becomes outstanding.
LEMMA CountUp ==
    ASSUME Counted, NEW r, r \notin Outstanding, Outstanding' = Outstanding \cup {r}, jobs' = jobs + 1
    PROVE  Counted'
BY OutstandingFinite, FS_AddElement DEF Counted

\* r.jobs-- in Finish counts the result that was received.
LEMMA CountDown ==
    ASSUME Counted, NEW r \in Outstanding, Outstanding' = Outstanding \ {r}, jobs' = jobs - 1
    PROVE  Counted'
BY OutstandingFinite, FS_RemoveElement DEF Counted

\* Add of a request that is new, by the client or by ResolveAll.
LEMMA AddStep ==
    ASSUME AsyncInv, NEW r \in Requests, request[r] = "new", NEW then,
           then \in {"idle", "finishing"},
           StartResolving(r, then) \/ RefuseReference(r),
           UNCHANGED <<specs, errs>>
    PROVE  /\ Counted' /\ QueueOnce' /\ Results'
           /\ request' \in [Requests -> Stages]
           /\ outcome' \in [Requests -> {"none", "spec", "error"}]
           /\ jobs' \in Nat /\ queue' = queue
           /\ client' \in {then, "adding"}
           /\ request'[r] \in {"adding", "resolving"}
           /\ \A q \in Requests : q # r => request'[q] = request[q]
           /\ Batch' = Batch \cup {r} /\ r \notin Batch
<1>a. AsyncTyped /\ Counted /\ QueueOnce /\ Results
      BY DEF AsyncInv
<1>b. request \in [Requests -> Stages] /\ outcome \in [Requests -> {"none", "spec", "error"}]
      BY <1>a DEF AsyncTyped
<1>1. /\ request'[r] \in {"adding", "resolving"}
      /\ \A q \in Requests : q # r => request'[q] = request[q] /\ outcome'[q] = outcome[q]
      /\ request'[r] = "adding" => outcome'[r] = "error"
      /\ r \in Invalid => request'[r] = "adding"
      /\ jobs' = jobs + 1 /\ queue' = queue /\ client' \in {then, "adding"}
      BY <1>b DEF StartResolving, RefuseReference
<1>2. request' \in [Requests -> Stages] /\ outcome' \in [Requests -> {"none", "spec", "error"}]
      BY <1>b DEF StartResolving, RefuseReference, Stages
<1>3. Outstanding' = Outstanding \cup {r} /\ r \notin Outstanding
      BY <1>1 DEF Outstanding, In
<1>4. Batch' = Batch \cup {r} /\ r \notin Batch
      BY <1>1, <1>3 DEF Batch, In
<1>5. Counted'
      BY <1>a, <1>1, <1>3, CountUp
<1>6. QueueOnce'
  <2>1. \A i \in DOMAIN queue : queue[i] \in Requests /\ queue[i] # r
        BY <1>a DEF QueueOnce, AsyncTyped
  <2> QED BY <1>a, <1>1, <2>1 DEF QueueOnce
<1>7. Results'
  <2>1. \A q \in Requests : request'[q] = "collected" <=> request[q] = "collected"
        BY <1>1
  <2> QED BY <1>a, <1>1, <2>1 DEF Results
<1>8. jobs' \in Nat
      BY <1>a, <1>1 DEF AsyncTyped
<1> QED BY <1>1, <1>2, <1>4, <1>5, <1>6, <1>7, <1>8

\* A request that is sent joins the queue.
LEMMA SendStep ==
    ASSUME AsyncInv, NEW r \in Requests, request[r] \in {"adding", "sending"},
           queue' = Append(queue, r),
           request' = [request EXCEPT ![r] = "queued"],
           UNCHANGED <<jobs, outcome, specs, errs>>
    PROVE  /\ Counted' /\ QueueOnce' /\ Results' /\ Batch' = Batch
           /\ queue' \in Seq(Requests) /\ request' \in [Requests -> Stages]
           /\ \A q \in Requests : request'[q] = "new" <=> request[q] = "new"
<1>a. AsyncTyped /\ Counted /\ QueueOnce /\ Results
      BY DEF AsyncInv
<1>b. request \in [Requests -> Stages] /\ queue \in Seq(Requests)
      BY <1>a DEF AsyncTyped
<1>1. request'[r] = "queued" /\ \A q \in Requests : q # r => request'[q] = request[q]
      BY <1>b
<1>2. Outstanding' = Outstanding /\ Batch' = Batch
      BY <1>1 DEF Outstanding, Batch, In
<1>3. Counted'
      BY <1>a, <1>2 DEF Counted
<1>4. /\ DOMAIN queue' = 1 .. Len(queue) + 1 /\ DOMAIN queue = 1 .. Len(queue) /\ Len(queue) \in Nat
      /\ \A i \in 1 .. Len(queue) : queue'[i] = queue[i] /\ queue[i] \in Requests
      /\ queue'[Len(queue) + 1] = r
      BY <1>b
<1>5. \A i \in 1 .. Len(queue) : queue[i] # r
      BY <1>a, <1>4 DEF QueueOnce
<1>6. QueueOnce'
      BY <1>a, <1>1, <1>4, <1>5 DEF QueueOnce
<1>7. Results'
      BY <1>a, <1>1 DEF Results
<1>8. queue' \in Seq(Requests) /\ request' \in [Requests -> Stages]
      BY <1>b DEF Stages
<1> QED BY <1>1, <1>2, <1>3, <1>6, <1>7, <1>8

\* Finish receives the head of the queue.
LEMMA CollectStep ==
    ASSUME AsyncInv, Collect
    PROVE  AsyncInv' /\ Batch' = Batch /\ In({"returned"})' = In({"returned"}) /\ reply' = reply
<1>a. AsyncTyped /\ Counted /\ QueueOnce /\ Results /\ Question
      BY DEF AsyncInv
<1>b. /\ request \in [Requests -> Stages] /\ queue \in Seq(Requests) /\ jobs \in Nat
      /\ outcome \in [Requests -> {"none", "spec", "error"}]
      BY <1>a DEF AsyncTyped
<1> DEFINE r == Head(queue)
<1>1. r \in Requests /\ request[r] = "queued"
      BY <1>a, <1>b DEF Collect, QueueOnce
<1> HIDE DEF r
<1>2. /\ request' = [request EXCEPT ![r] = "collected"] /\ UNCHANGED <<outcome, reply>>
      /\ UNCHANGED <<client, asked, todo, all, answer>>
      /\ specs' = IF outcome[r] = "spec" THEN specs \cup {r} ELSE specs
      /\ errs' = IF outcome[r] = "error" THEN errs \cup {r} ELSE errs
      /\ queue' = Tail(queue) /\ jobs' = jobs - 1 /\ jobs > 0
      BY DEF Collect, r, clientVars
<1>3. request'[r] = "collected" /\ \A q \in Requests : q # r => request'[q] = request[q]
      BY <1>b, <1>1, <1>2
<1>4. /\ r \in Outstanding /\ Outstanding' = Outstanding \ {r} /\ Batch' = Batch
      /\ In({"returned"})' = In({"returned"})
      BY <1>1, <1>3 DEF Outstanding, Batch, In
<1>5. Counted'
      BY <1>a, <1>2, <1>4, CountDown
<1>6. /\ DOMAIN queue = 1 .. Len(queue) /\ Len(queue) \in Nat /\ r = queue[1] /\ 1 \in DOMAIN queue
      /\ DOMAIN queue' = 1 .. Len(queue) - 1
      /\ \A i \in 1 .. Len(queue) - 1 : queue'[i] = queue[i + 1] /\ i + 1 \in DOMAIN queue
      /\ \A i \in 1 .. Len(queue) : queue[i] \in Requests
      /\ queue' \in Seq(Requests)
      BY <1>b, <1>2 DEF Collect, r
<1>7. QueueOnce'
  <2>1. \A i \in DOMAIN queue' : queue'[i] # r /\ queue'[i] \in Requests /\ request[queue'[i]] = "queued"
        BY <1>a, <1>6 DEF QueueOnce
  <2>2. \A i, k \in DOMAIN queue' : queue'[i] = queue'[k] => i = k
    <3> SUFFICES ASSUME NEW i \in DOMAIN queue', NEW k \in DOMAIN queue', queue'[i] = queue'[k]
                 PROVE  i = k
        OBVIOUS
    <3>1. queue[i + 1] = queue[k + 1] /\ i + 1 \in DOMAIN queue /\ k + 1 \in DOMAIN queue
          BY <1>6
    <3>2. i + 1 = k + 1
          BY <1>a, <3>1 DEF QueueOnce
    <3> QED BY <1>6, <3>2
  <2> QED BY <1>3, <2>1, <2>2 DEF QueueOnce
<1>8. Results'
      BY <1>a, <1>1, <1>2, <1>3 DEF Results
<1>9. Question'
      BY <1>a, <1>1, <1>2, <1>3, <1>4 DEF Question, AsyncTyped
<1>10. AsyncTyped'
      BY <1>a, <1>b, <1>1, <1>2, <1>6 DEF AsyncTyped, Stages
<1> QED BY <1>2, <1>4, <1>5, <1>7, <1>8, <1>9, <1>10 DEF AsyncInv

\* Finish returns: everything that was added is in specs or in errs.
LEMMA ReturnStep ==
    ASSUME AsyncInv, NEW then, Return(then)
    PROVE  /\ Counted' /\ QueueOnce' /\ Results'
           /\ request' \in [Requests -> Stages]
           /\ \A r \in Requests : request'[r] = "new" <=> request[r] = "new"
           /\ Batch = specs \cup errs /\ specs \cap errs = {} /\ Batch \cap Invalid \subseteq errs
           /\ Batch' = {} /\ In({"returned"})' = In({"returned"}) \cup Batch
<1>a. AsyncTyped /\ Counted /\ QueueOnce /\ Results
      BY DEF AsyncInv
<1>b. request \in [Requests -> Stages] /\ queue \in Seq(Requests)
      BY <1>a DEF AsyncTyped
<1>1. /\ jobs = 0 /\ UNCHANGED <<jobs, queue, outcome>> /\ specs' = {} /\ errs' = {}
      /\ request' = [r \in Requests |-> IF request[r] = "collected" THEN "returned" ELSE request[r]]
      BY DEF Return
<1>2. Outstanding = {}
      BY <1>a, <1>1, OutstandingFinite, FS_EmptySet DEF Counted
<1>3. \A r \in Requests : request[r] \in {"new", "collected", "returned"}
      BY <1>b, <1>2 DEF Outstanding, In, Stages
<1>4. \A r \in Requests : request'[r] = IF request[r] = "collected" THEN "returned" ELSE request[r]
      BY <1>1
<1>5. Batch = In({"collected"}) /\ Outstanding' = {} /\ Batch' = {}
      BY <1>2, <1>3, <1>4 DEF Batch, Outstanding, In
<1>6. In({"returned"})' = In({"returned"}) \cup Batch
      BY <1>4, <1>5 DEF In
<1>7. outcome \in [Requests -> {"none", "spec", "error"}]
      BY <1>a DEF AsyncTyped
<1>8. Batch = specs \cup errs /\ specs \cap errs = {} /\ Batch \cap Invalid \subseteq errs
      BY <1>a, <1>5, <1>7 DEF Results, In
<1>9. Counted'
      BY <1>a, <1>1, <1>2, <1>5 DEF Counted
<1>10. \A i \in DOMAIN queue : queue[i] \in Requests
      BY <1>b
<1>11. QueueOnce'
      BY <1>a, <1>1, <1>4, <1>10 DEF QueueOnce
<1>12. Results'
      BY <1>a, <1>1, <1>3, <1>4 DEF Results
<1>13. request' \in [Requests -> Stages]
      BY <1>b, <1>1 DEF Stages
<1> QED BY <1>4, <1>5, <1>6, <1>8, <1>9, <1>11, <1>12, <1>13

\* ResolveAll goes on with the one spec it got, which is that of the source it
\* is at, or ends.
LEMMA ResolveReturnsStep ==
    ASSUME AsyncInv, ResolveReturns
    PROVE  AsyncTyped' /\ Question'
<1>a. AsyncTyped /\ Counted /\ QueueOnce /\ Results /\ Question
      BY DEF AsyncInv
<1>b. /\ all /\ asked' = asked /\ queue' = queue /\ jobs' = jobs /\ outcome' = outcome
      /\ specs' = {} /\ errs' = {} /\ client = "finishing"
      BY DEF ResolveReturns, Return
<1>c. PICK then \in {"idle", "nextSource"} : Return(then)
      BY DEF ResolveReturns
<1>d. /\ request' \in [Requests -> Stages]
      /\ \A r \in Requests : request'[r] = "new" <=> request[r] = "new"
      /\ Batch = specs \cup errs
      BY <1>c, ReturnStep
<1>e. \A r \in todo : request'[r] = "new"
      BY <1>a, <1>d DEF Question, AsyncTyped
<1>1. CASE errs = {} /\ Cardinality(specs) = 1
  <2>1. /\ answer' = [answer EXCEPT !.specs = @ \cup specs]
        /\ client' = (IF todo = {} THEN "idle" ELSE "nextSource")
        /\ all' = (todo # {}) /\ todo' = todo
        BY <1>1 DEF ResolveReturns, Return
  <2>2. PICK c \in asked \ todo : c \in Batch /\ answer.specs = (asked \ todo) \ {c}
        BY <1>a, <1>b DEF Question
  <2>3. c \in specs
        BY <1>1, <1>d, <2>2
  <2>4. specs = {c}
    <3>1. IsFiniteSet(specs)
          BY <1>a, FS_Subset DEF AsyncTyped
    <3>2. PICK x : specs = {x}
          BY <1>1, <3>1, FS_Singleton
    <3> QED BY <2>3, <3>2
  <2>5. answer'.specs = asked \ todo /\ answer'.ok = answer.ok
        BY <1>a, <2>1, <2>2, <2>4 DEF AsyncTyped
  <2>6. answer' \in [ok : BOOLEAN, specs : SUBSET Requests]
        BY <1>a, <2>1 DEF AsyncTyped
  <2>7. AsyncTyped'
        BY <1>a, <1>b, <1>d, <2>1, <2>6 DEF AsyncTyped
  <2>8. Question'
        BY <1>a, <1>b, <1>e, <2>1, <2>5 DEF Question
  <2> QED BY <2>7, <2>8
<1>2. CASE ~ (errs = {} /\ Cardinality(specs) = 1)
  <2>1. /\ answer' = [ok |-> FALSE, specs |-> {}] /\ client' = "idle" /\ all' = FALSE /\ todo' = {}
        BY <1>2 DEF ResolveReturns, Return
  <2>2. AsyncTyped'
        BY <1>a, <1>b, <1>d, <2>1 DEF AsyncTyped
  <2>3. Question'
        BY <2>1 DEF Question
  <2> QED BY <2>2, <2>3
<1> QED BY <1>1, <1>2

\* Every step of the asynchronous resolver keeps the invariant and is a step of
\* Resolver, or none.
LEMMA AsyncNext ==
    ASSUME AsyncInv, [Next]_vars
    PROVE  AsyncInv' /\ [Abstract!Next]_(Abstract!vars)
<1>a. AsyncTyped /\ Counted /\ QueueOnce /\ Results /\ Question
      BY DEF AsyncInv
<1>b. request \in [Requests -> Stages]
      BY <1>a DEF AsyncTyped
<1> USE DEF Abstract!vars
<1>1. ASSUME NEW r \in Requests, request[r] = "new", NEW then \in {"idle", "finishing"},
             StartResolving(r, then) \/ RefuseReference(r), UNCHANGED finishVars
      PROVE  Abstract!Next
  <2>1. UNCHANGED <<specs, errs, reply>>
        BY <1>1 DEF finishVars
  <2>2. /\ Batch' = Batch \cup {r} /\ r \notin Batch
        /\ request'[r] \in {"adding", "resolving"}
        /\ \A q \in Requests : q # r => request'[q] = request[q]
        BY <1>1, <2>1, AddStep
  <2>3. In({"returned"})' = In({"returned"}) /\ r \notin In({"returned"})
        BY <1>1, <2>2 DEF In
  <2>4. Abstract!Add(r)
        BY <2>1, <2>2, <2>3 DEF Abstract!Add
  <2> QED BY <2>4 DEF Abstract!Next
<1>2. ASSUME NEW r \in Requests, Add(r) PROVE AsyncInv' /\ Abstract!Next
  <2>1. /\ client = "idle" /\ request[r] = "new"
        /\ StartResolving(r, "idle") \/ RefuseReference(r)
        /\ UNCHANGED <<asked, todo, all, specs, errs, reply, answer>>
        BY <1>2 DEF Add, finishVars
  <2>2. /\ Counted' /\ QueueOnce' /\ Results'
        /\ request' \in [Requests -> Stages]
        /\ outcome' \in [Requests -> {"none", "spec", "error"}]
        /\ jobs' \in Nat /\ queue' = queue /\ client' \in {"idle", "adding"}
        BY <2>1, AddStep
  <2>3. AsyncTyped'
        BY <1>a, <2>1, <2>2 DEF AsyncTyped
  <2>4. Question'
        BY <1>a, <2>1, <2>2 DEF Question
  <2>5. Abstract!Next
        BY <1>1, <2>1 DEF finishVars
  <2> QED BY <2>2, <2>3, <2>4, <2>5 DEF AsyncInv
<1>3. ASSUME NEW r \in Requests, ResolveNext(r) PROVE AsyncInv' /\ Abstract!Next
  <2>1. /\ client = "nextSource" /\ r \in todo /\ todo' = todo \ {r}
        /\ StartResolving(r, "finishing") \/ RefuseReference(r)
        /\ UNCHANGED <<asked, all, specs, errs, reply, answer>>
        BY <1>3 DEF ResolveNext, finishVars
  <2>2. request[r] = "new" /\ all /\ answer.specs = asked \ todo
        BY <1>a, <2>1 DEF Question, AsyncTyped
  <2>3. /\ Counted' /\ QueueOnce' /\ Results'
        /\ request' \in [Requests -> Stages]
        /\ outcome' \in [Requests -> {"none", "spec", "error"}]
        /\ jobs' \in Nat /\ queue' = queue /\ client' \in {"finishing", "adding"}
        /\ \A q \in Requests : q # r => request'[q] = request[q]
        /\ r \in Batch'
        BY <2>1, <2>2, AddStep
  <2>4. AsyncTyped'
        BY <1>a, <2>1, <2>3 DEF AsyncTyped
  <2>5. r \in asked' \ todo' /\ answer'.specs = (asked' \ todo') \ {r}
        BY <1>a, <2>1, <2>2 DEF AsyncTyped
  <2>6. \A q \in todo' : request'[q] = "new"
        BY <1>a, <2>1, <2>3 DEF Question, AsyncTyped
  <2>7. Question'
        BY <1>a, <2>1, <2>2, <2>3, <2>5, <2>6 DEF Question
  <2>8. Abstract!Next
        BY <1>1, <2>1, <2>2 DEF finishVars
  <2> QED BY <2>3, <2>4, <2>7, <2>8 DEF AsyncInv
<1>4. ASSUME NEW r \in Requests, SendFromAdd(r) \/ SendResult(r)
      PROVE  AsyncInv' /\ UNCHANGED Abstract!vars
  <2>1. /\ request[r] \in {"adding", "sending"}
        /\ queue' = Append(queue, r) /\ request' = [request EXCEPT ![r] = "queued"]
        /\ UNCHANGED <<asked, todo, all, jobs, outcome, specs, errs, reply, answer>>
        /\ client' = client \/ (client = "adding" /\ client' = IF all THEN "finishing" ELSE "idle")
        BY <1>4 DEF SendFromAdd, SendResult, clientVars, finishVars
  <2>2. /\ Counted' /\ QueueOnce' /\ Results' /\ Batch' = Batch
        /\ queue' \in Seq(Requests) /\ request' \in [Requests -> Stages]
        /\ \A q \in Requests : request'[q] = "new" <=> request[q] = "new"
        BY <2>1, SendStep
  <2>3. AsyncTyped'
        BY <1>a, <2>1, <2>2 DEF AsyncTyped
  <2>4. Question'
        BY <1>a, <2>1, <2>2 DEF Question, AsyncTyped
  <2>5. In({"returned"})' = In({"returned"})
        BY <1>b, <2>1 DEF In
  <2> QED BY <2>1, <2>2, <2>3, <2>4, <2>5 DEF AsyncInv
<1>5. ASSUME NEW r \in Requests, NEW result \in {"spec", "error"}, ResolveReference(r, result)
      PROVE  AsyncInv' /\ UNCHANGED Abstract!vars
  <2>1. /\ request[r] = "resolving"
        /\ outcome' = [outcome EXCEPT ![r] = result] /\ request' = [request EXCEPT ![r] = "sending"]
        /\ UNCHANGED <<client, asked, todo, all, jobs, queue, specs, errs, reply, answer>>
        BY <1>5 DEF ResolveReference, clientVars, finishVars
  <2>2. /\ request'[r] = "sending" /\ \A q \in Requests : q # r => request'[q] = request[q]
        /\ outcome'[r] = result /\ \A q \in Requests : q # r => outcome'[q] = outcome[q]
        BY <1>a, <2>1 DEF AsyncTyped
  <2>3. /\ Outstanding' = Outstanding /\ Batch' = Batch /\ In({"returned"})' = In({"returned"})
        BY <2>1, <2>2 DEF Outstanding, Batch, In
  <2>4. AsyncTyped'
        BY <1>a, <2>1 DEF AsyncTyped, Stages
  <2>5. Counted'
        BY <1>a, <2>1, <2>3 DEF Counted
  <2>6. \A i \in DOMAIN queue : queue[i] \in Requests
        BY <1>a DEF AsyncTyped
  <2>7. QueueOnce'
        BY <1>a, <2>1, <2>2, <2>6 DEF QueueOnce
  <2>8. Results'
        BY <1>a, <2>1, <2>2 DEF Results
  <2>9. Question'
        BY <1>a, <2>1, <2>2, <2>3 DEF Question, AsyncTyped
  <2> QED BY <2>1, <2>3, <2>4, <2>5, <2>7, <2>8, <2>9 DEF AsyncInv
<1>6. CASE Collect
      BY <1>6, CollectStep
<1>7. ASSUME NEW then, Return(then) PROVE Abstract!Finish
  <2>1. /\ Batch = specs \cup errs /\ specs \cap errs = {} /\ Batch \cap Invalid \subseteq errs
        /\ Batch' = {} /\ In({"returned"})' = In({"returned"}) \cup Batch
        BY <1>7, ReturnStep
  <2>2. reply' = [specs |-> Batch \ errs, errors |-> errs]
        BY <1>7, <2>1 DEF Return
  <2> QED BY <2>1, <2>2 DEF Abstract!Finish
<1>8. CASE FinishReturns
  <2>1. Return("idle") /\ ~ all /\ UNCHANGED <<asked, todo, all, answer>>
        BY <1>8 DEF FinishReturns
  <2>2. /\ Counted' /\ QueueOnce' /\ Results' /\ request' \in [Requests -> Stages]
        BY <2>1, ReturnStep
  <2>3. /\ client' = "idle" /\ UNCHANGED <<jobs, queue, outcome>> /\ specs' = {} /\ errs' = {}
        BY <2>1 DEF Return
  <2>4. AsyncTyped'
        BY <1>a, <2>1, <2>2, <2>3 DEF AsyncTyped
  <2>5. Question'
        BY <1>a, <2>1, <2>3 DEF Question
  <2>6. Abstract!Next
        BY <1>7, <2>1 DEF Abstract!Next
  <2> QED BY <2>2, <2>4, <2>5, <2>6 DEF AsyncInv
<1>9. CASE ResolveReturns
  <2>1. PICK then \in {"idle", "nextSource"} : Return(then)
        BY <1>9 DEF ResolveReturns
  <2>2. Counted' /\ QueueOnce' /\ Results'
        BY <2>1, ReturnStep
  <2>3. AsyncTyped' /\ Question'
        BY <1>9, ResolveReturnsStep
  <2>4. Abstract!Next
        BY <1>7, <2>1 DEF Abstract!Next
  <2> QED BY <2>2, <2>3, <2>4 DEF AsyncInv
<1>10. ASSUME UNCHANGED <<jobs, queue, request, outcome, specs, errs, reply>>
       PROVE  Counted' /\ QueueOnce' /\ Results' /\ Batch' = Batch /\ UNCHANGED Abstract!vars
       BY <1>a, <1>10 DEF Counted, QueueOnce, Results, Batch, Outstanding, In
<1>11. CASE Finish
  <2>1. /\ UNCHANGED <<jobs, queue, request, outcome, specs, errs, reply>>
        /\ client = "idle" /\ client' = "finishing" /\ UNCHANGED <<asked, todo, all, answer>>
        BY <1>11 DEF Finish, finishVars
  <2>2. AsyncTyped'
        BY <1>a, <2>1 DEF AsyncTyped
  <2>3. Question'
        BY <1>a, <2>1 DEF Question
  <2> QED BY <1>10, <2>1, <2>2, <2>3 DEF AsyncInv
<1>12. ASSUME NEW sources \in SUBSET Requests, ResolveAll(sources)
       PROVE  AsyncInv' /\ UNCHANGED Abstract!vars
  <2>1. /\ UNCHANGED <<jobs, queue, request, outcome, specs, errs, reply>>
        /\ asked' = sources /\ todo' = sources /\ all' = TRUE /\ client' = "nextSource"
        /\ answer' = [ok |-> TRUE, specs |-> {}] /\ \A r \in sources : request[r] = "new"
        BY <1>12 DEF ResolveAll, finishVars
  <2>2. AsyncTyped'
        BY <1>a, <2>1 DEF AsyncTyped
  <2>3. Question'
        BY <1>a, <2>1 DEF Question
  <2> QED BY <1>10, <2>1, <2>2, <2>3 DEF AsyncInv
<1>13. CASE UNCHANGED vars
  <2>1. /\ UNCHANGED <<jobs, queue, request, outcome, specs, errs, reply>>
        /\ UNCHANGED <<client, asked, todo, all, answer>>
        BY <1>13 DEF vars, clientVars, finishVars
  <2>2. AsyncTyped'
        BY <1>a, <2>1 DEF AsyncTyped
  <2>3. Question'
        BY <1>a, <1>10, <2>1 DEF Question
  <2> QED BY <1>10, <2>1, <2>2, <2>3 DEF AsyncInv
<1> QED BY <1>2, <1>3, <1>4, <1>5, <1>6, <1>8, <1>9, <1>11, <1>12, <1>13
        DEF Next, Caller, Goroutine

-----------------------------------------------------------------------------
(* The blocking resolver.                                                  *)

BlockingInv ==
    /\ results \in Seq([request : Requests, ok : BOOLEAN])
    /\ \A i, k \in DOMAIN results : results[i].request = results[k].request => i = k
    /\ added \cup finished = {results[i].request : i \in DOMAIN results}
    /\ \A i \in DOMAIN results : results[i].ok => results[i].request \notin Invalid
    /\ finishes \in Nat
    /\ finishes = 0 => finished = {}

\* A new blockingResolver maps to the promise's initial state.
LEMMA BlockingInit == Blocking!Init => BlockingInv /\ Blocking!Abstract!Init
BY DEF Blocking!Init, BlockingInv, Blocking!Abstract!Init, Blocking!Abstract!NoReply

\* A client that finishes once gets an answer as Resolver promises it.
LEMMA BlockingNext ==
    ASSUME MaxFinishes <= 1, MaxFinishes \in Nat, BlockingInv, [Blocking!Next]_blockingVars
    PROVE  BlockingInv' /\ [Blocking!Abstract!Next]_(Blocking!Abstract!vars)
<1> USE DEF Blocking!Abstract!vars
<1> DEFINE Entry == [request : Requests, ok : BOOLEAN]
<1>1. ASSUME NEW r \in Requests, Blocking!Add(r) PROVE BlockingInv' /\ Blocking!Abstract!Next
  <2>1. /\ r \notin added \cup finished /\ added' = added \cup {r}
        /\ UNCHANGED <<finished, blockingReply, finishes>>
        BY <1>1 DEF Blocking!Add
  <2>2. PICK ok \in BOOLEAN : /\ ok => r \notin Invalid
                              /\ results' = Append(results, [request |-> r, ok |-> ok])
        BY <1>1 DEF Blocking!Add, Blocking!CanResolve
  <2> DEFINE e == [request |-> r, ok |-> ok]
  <2>3. e \in Entry /\ e.request = r /\ e.ok = ok
        OBVIOUS
  <2> HIDE DEF e, Entry
  <2>4. results \in Seq(Entry) /\ results' = Append(results, e)
        BY <2>2 DEF BlockingInv, e, Entry
  <2>5. /\ results' \in Seq(Entry) /\ Len(results) \in Nat
        /\ DOMAIN results = 1 .. Len(results) /\ DOMAIN results' = 1 .. Len(results) + 1
        /\ \A i \in 1 .. Len(results) : results'[i] = results[i]
        /\ results'[Len(results) + 1] = e
        BY <2>3, <2>4
  <2>6. \A i \in 1 .. Len(results) : results[i].request # r
        BY <2>1, <2>5 DEF BlockingInv
  <2>7. \A i, k \in DOMAIN results' : results'[i].request = results'[k].request => i = k
        BY <2>3, <2>5, <2>6 DEF BlockingInv
  <2>8. added' \cup finished' = {results'[i].request : i \in DOMAIN results'}
        BY <2>1, <2>3, <2>5 DEF BlockingInv
  <2>9. \A i \in DOMAIN results' : results'[i].ok => results'[i].request \notin Invalid
        BY <2>2, <2>3, <2>5 DEF BlockingInv
  <2>10. BlockingInv'
        BY <2>1, <2>5, <2>7, <2>8, <2>9 DEF BlockingInv, Entry
  <2>11. Blocking!Abstract!Add(r)
        BY <2>1 DEF Blocking!Abstract!Add
  <2> QED BY <2>10, <2>11 DEF Blocking!Abstract!Next
<1>2. CASE Blocking!Finish
  <2>1. /\ finishes = 0 /\ finished = {}
        /\ blockingReply' = [specs |-> Blocking!Reported(TRUE), errors |-> Blocking!Reported(FALSE)]
        /\ finished' = finished \cup added /\ added' = {} /\ finishes' = finishes + 1
        /\ results' = results
        BY <1>2 DEF Blocking!Finish, BlockingInv
  <2> DEFINE Good == Blocking!Reported(TRUE)
             Bad == Blocking!Reported(FALSE)
  <2>a. /\ \A x : x \in Good <=> \E i \in DOMAIN results : results[i].ok = TRUE /\ x = results[i].request
        /\ \A x : x \in Bad <=> \E i \in DOMAIN results : results[i].ok = FALSE /\ x = results[i].request
        BY DEF Blocking!Reported
  <2>b. \A i \in DOMAIN results : results[i].ok = TRUE \/ results[i].ok = FALSE
        BY DEF BlockingInv
  <2>c. \A x : x \in added <=> \E i \in DOMAIN results : x = results[i].request
    <3>1. added = {results[i].request : i \in DOMAIN results}
          BY <2>1 DEF BlockingInv
    <3> QED BY <3>1
  <2>d. /\ \A i, k \in DOMAIN results : results[i].request = results[k].request => i = k
        /\ \A i \in DOMAIN results : results[i].ok => results[i].request \notin Invalid
        BY DEF BlockingInv
  <2> HIDE DEF Good, Bad
  <2>2. Bad \subseteq added /\ Good = added \ Bad
    <3>1. Bad \subseteq added /\ Good \subseteq added
          BY <2>a, <2>c
    <3>2. \A x \in Good : x \notin Bad
          BY <2>a, <2>d
    <3>3. \A x \in added : x \in Good \/ x \in Bad
          BY <2>a, <2>b, <2>c
    <3> QED BY <3>1, <3>2, <3>3
  <2>3. added \cap Invalid \subseteq Bad
    <3>1. \A x \in Good : x \notin Invalid
          BY <2>a, <2>d
    <3> QED BY <2>2, <3>1
  <2>4. Blocking!Abstract!Finish
        BY <2>1, <2>2, <2>3 DEF Blocking!Abstract!Finish, Good, Bad
  <2>5. BlockingInv'
        BY <2>1 DEF BlockingInv
  <2> QED BY <2>4, <2>5 DEF Blocking!Abstract!Next
<1>3. CASE UNCHANGED blockingVars
      BY <1>3 DEF blockingVars, BlockingInv
<1> QED BY <1>1, <1>2, <1>3 DEF Blocking!Next

-----------------------------------------------------------------------------
(* The resolver of remote files.                                           *)

Running == Files!In({"resolving", "sending", "sent"})

FilesInv ==
    /\ filesClient \in {"adding", "finishing", "done"}
    /\ fetch \in [Requests -> {"new", "resolving", "sending", "sent", "ended"}]
    /\ fetched \in [Requests -> {"none", "spec", "error"}]
    /\ wg = Cardinality(Running)
    /\ filesClient = "adding" <=> closer = "none"
    /\ closer = "closed" => Running = {}
    /\ \A r \in Requests : fetch[r] \in {"sending", "sent", "ended"} =>
          fetched[r] # "none" /\ (r \in Invalid => fetched[r] = "error")
    /\ filesSpecs = {r \in Requests : fetch[r] \in {"sent", "ended"} /\ fetched[r] = "spec"}
    /\ filesErrs = {r \in Requests : fetch[r] \in {"sent", "ended"} /\ fetched[r] = "error"}

\* The wait group counts finitely many goroutines.
LEMMA RunningFinite == IsFiniteSet(Running) /\ Cardinality(Running) \in Nat
<1>1. Running \subseteq Requests
      BY DEF Running, Files!In
<1> QED BY <1>1, FS_Subset, FS_CardinalityType

\* A new remote file resolver maps to the promise's initial state.
LEMMA FilesInit == Files!Init => FilesInv /\ Files!Abstract!Init
<1> SUFFICES ASSUME Files!Init PROVE FilesInv /\ Files!Abstract!Init
    OBVIOUS
<1>1. Running = {} /\ Files!In({"resolving", "sending", "sent", "ended"}) = {}
      BY DEF Files!Init, Running, Files!In
<1>2. FilesInv
      BY <1>1, FS_EmptySet DEF Files!Init, FilesInv
<1>3. Files!Abstract!Init
      BY <1>1 DEF Files!Init, Files!Abstract!Init, Files!Abstract!NoReply
<1> QED BY <1>2, <1>3

\* Finish accounts for all that was added, although it is received in any order
\* and the channel is closed by a goroutine of its own.
LEMMA FilesNext ==
    ASSUME FilesInv, [Files!Next]_filesVars
    PROVE  FilesInv' /\ [Files!Abstract!Next]_(Files!Abstract!vars)
<1> USE DEF Files!Abstract!vars
<1>a. /\ fetch \in [Requests -> {"new", "resolving", "sending", "sent", "ended"}]
      /\ fetched \in [Requests -> {"none", "spec", "error"}]
      BY DEF FilesInv
<1> DEFINE Taken == Files!In({"resolving", "sending", "sent", "ended"})
<1>1. ASSUME NEW r \in Requests, Files!Add(r) PROVE FilesInv' /\ Files!Abstract!Next
  <2>1. /\ filesClient = "adding" /\ fetch[r] = "new" /\ wg' = wg + 1
        /\ fetch' = [fetch EXCEPT ![r] = "resolving"]
        /\ UNCHANGED <<filesClient, fetched, closer, filesSpecs, filesErrs, filesReply>>
        BY <1>1 DEF Files!Add
  <2>2. fetch'[r] = "resolving" /\ \A q \in Requests : q # r => fetch'[q] = fetch[q]
        BY <1>a, <2>1
  <2>3. /\ Running' = Running \cup {r} /\ r \notin Running
        /\ Taken' = Taken \cup {r} /\ r \notin Taken
        BY <2>1, <2>2 DEF Running, Files!In
  <2>4. wg' = Cardinality(Running')
        BY <2>1, <2>3, RunningFinite, FS_AddElement DEF FilesInv
  <2>5. FilesInv'
        BY <1>a, <2>1, <2>2, <2>4 DEF FilesInv
  <2>6. Files!Abstract!Add(r)
        BY <2>1, <2>3 DEF Files!Abstract!Add
  <2> QED BY <2>5, <2>6 DEF Files!Abstract!Next
<1>2. ASSUME NEW r \in Requests, Files!Resolve(r) PROVE FilesInv' /\ UNCHANGED Files!Abstract!vars
  <2>1. /\ fetch[r] = "resolving" /\ fetch' = [fetch EXCEPT ![r] = "sending"]
        /\ UNCHANGED <<filesClient, wg, closer, filesSpecs, filesErrs, filesReply>>
        BY <1>2 DEF Files!Resolve
  <2>2. PICK result \in {"spec", "error"} : /\ r \in Invalid => result = "error"
                                            /\ fetched' = [fetched EXCEPT ![r] = result]
        BY <1>2 DEF Files!Resolve
  <2>3. /\ fetch'[r] = "sending" /\ \A q \in Requests : q # r => fetch'[q] = fetch[q]
        /\ fetched'[r] = result /\ \A q \in Requests : q # r => fetched'[q] = fetched[q]
        BY <1>a, <2>1, <2>2
  <2>4. Running' = Running /\ Taken' = Taken
        BY <2>1, <2>3 DEF Running, Files!In
  <2>5. FilesInv'
        BY <1>a, <2>1, <2>2, <2>3, <2>4 DEF FilesInv
  <2> QED BY <2>1, <2>4, <2>5
<1>3. ASSUME NEW r \in Requests, Files!Receive(r) PROVE FilesInv' /\ UNCHANGED Files!Abstract!vars
  <2>1. /\ fetch[r] = "sending" /\ fetch' = [fetch EXCEPT ![r] = "sent"]
        /\ filesSpecs' = filesSpecs \cup (IF fetched[r] = "spec" THEN {r} ELSE {})
        /\ filesErrs' = filesErrs \cup (IF fetched[r] = "error" THEN {r} ELSE {})
        /\ UNCHANGED <<filesClient, fetched, wg, closer, filesReply>>
        BY <1>3 DEF Files!Receive
  <2>2. fetch'[r] = "sent" /\ \A q \in Requests : q # r => fetch'[q] = fetch[q]
        BY <1>a, <2>1
  <2>3. Running' = Running /\ Taken' = Taken
        BY <2>1, <2>2 DEF Running, Files!In
  <2>4. FilesInv'
        BY <1>a, <2>1, <2>2, <2>3 DEF FilesInv
  <2> QED BY <2>1, <2>3, <2>4
<1>4. ASSUME NEW r \in Requests, Files!Done(r) PROVE FilesInv' /\ UNCHANGED Files!Abstract!vars
  <2>1. /\ fetch[r] = "sent" /\ fetch' = [fetch EXCEPT ![r] = "ended"] /\ wg' = wg - 1
        /\ UNCHANGED <<filesClient, fetched, closer, filesSpecs, filesErrs, filesReply>>
        BY <1>4 DEF Files!Done
  <2>2. fetch'[r] = "ended" /\ \A q \in Requests : q # r => fetch'[q] = fetch[q]
        BY <1>a, <2>1
  <2>3. Running' = Running \ {r} /\ r \in Running /\ Taken' = Taken
        BY <2>1, <2>2 DEF Running, Files!In
  <2>4. wg' = Cardinality(Running')
        BY <2>1, <2>3, RunningFinite, FS_RemoveElement DEF FilesInv
  <2>5. FilesInv'
        BY <1>a, <2>1, <2>2, <2>3, <2>4 DEF FilesInv
  <2> QED BY <2>1, <2>3, <2>5
<1>5. CASE Files!Finish
  <2>1. /\ filesClient = "adding" /\ filesClient' = "finishing" /\ closer' = "waiting"
        /\ UNCHANGED <<fetch, fetched, wg, filesSpecs, filesErrs, filesReply>>
        BY <1>5 DEF Files!Finish
  <2>2. Running' = Running /\ Taken' = Taken
        BY <2>1 DEF Running, Files!In
  <2>3. FilesInv'
        BY <2>1, <2>2 DEF FilesInv
  <2> QED BY <2>1, <2>2, <2>3
<1>6. CASE Files!Close
  <2>1. /\ closer = "waiting" /\ wg = 0 /\ closer' = "closed"
        /\ UNCHANGED <<filesClient, fetch, fetched, wg, filesSpecs, filesErrs, filesReply>>
        BY <1>6 DEF Files!Close
  <2>2. Running' = Running /\ Taken' = Taken
        BY <2>1 DEF Running, Files!In
  <2>3. Running = {}
        BY <2>1, RunningFinite, FS_EmptySet DEF FilesInv
  <2>4. FilesInv'
        BY <2>1, <2>2, <2>3 DEF FilesInv
  <2> QED BY <2>1, <2>2, <2>4
<1>7. CASE Files!FinishReturns
  <2>1. /\ filesClient = "finishing" /\ closer = "closed" /\ filesClient' = "done"
        /\ filesReply' = [specs |-> filesSpecs, errors |-> filesErrs]
        /\ UNCHANGED <<fetch, fetched, wg, closer, filesSpecs, filesErrs>>
        BY <1>7 DEF Files!FinishReturns
  <2>2. Running' = Running /\ Taken' = Taken
        BY <2>1 DEF Running, Files!In
  <2>3. FilesInv'
        BY <2>1, <2>2 DEF FilesInv
  <2>4. Running = {}
        BY <2>1 DEF FilesInv
  <2>5. Taken = {r \in Requests : fetch[r] = "ended"}
        BY <2>4 DEF Running, Files!In
  <2>6. \A r \in Requests : fetch[r] \in {"sent", "ended"} <=> fetch[r] = "ended"
        BY <2>4 DEF Running, Files!In
  <2>7. filesErrs \subseteq Taken /\ filesSpecs = Taken \ filesErrs /\ Taken \cap Invalid \subseteq filesErrs
        BY <1>a, <2>5, <2>6 DEF FilesInv
  <2> HIDE DEF Taken
  <2>8. \E bad \in SUBSET Taken :
          /\ Taken \cap Invalid \subseteq bad
          /\ filesReply' = [specs |-> Taken \ bad, errors |-> bad]
        BY <2>1, <2>7
  <2>9. Files!Abstract!Finish
        BY <2>1, <2>2, <2>8 DEF Files!Abstract!Finish, Taken
  <2> QED BY <2>3, <2>9 DEF Files!Abstract!Next
<1>8. CASE UNCHANGED filesVars
  <2>1. Running' = Running /\ Taken' = Taken
        BY <1>8 DEF filesVars, Running, Files!In
  <2>2. FilesInv'
        BY <1>8, <2>1 DEF filesVars, FilesInv
  <2> QED BY <1>8, <2>1, <2>2 DEF filesVars
<1> QED BY <1>1, <1>2, <1>3, <1>4, <1>5, <1>6, <1>7, <1>8 DEF Files!Next, Files!Goroutine

-----------------------------------------------------------------------------
(* All three.                                                              *)

AllInv == AsyncInv /\ BlockingInv /\ FilesInv

\* A step of any resolver keeps the invariants of the two that have goroutines, and
\* is a step of the promise for both.
LEMMA ConcurrentStep ==
    ASSUME AsyncInv, FilesInv, [AllNext]_allVars
    PROVE  /\ AsyncInv' /\ FilesInv'
           /\ [Abstract!Next]_(Abstract!vars)
           /\ [Files!Abstract!Next]_(Files!Abstract!vars)
<1>1. [Next]_vars /\ [Files!Next]_filesVars
      BY DEF AllNext, AsyncStep, BlockingStep, FilesStep, NothingLeft, allVars
<1> QED BY <1>1, AsyncNext, FilesNext

\* Whichever resolver moves, its invariant is kept and its step is one of the promise.
LEMMA AllStep ==
    ASSUME MaxFinishes <= 1, MaxFinishes \in Nat, AllInv, [AllNext]_allVars
    PROVE  /\ AllInv'
           /\ [Abstract!Next]_(Abstract!vars)
           /\ [Blocking!Abstract!Next]_(Blocking!Abstract!vars)
           /\ [Files!Abstract!Next]_(Files!Abstract!vars)
<1>1. [Next]_vars /\ [Blocking!Next]_blockingVars /\ [Files!Next]_filesVars
      BY DEF AllNext, AsyncStep, BlockingStep, FilesStep, NothingLeft, allVars
<1> QED BY <1>1, AsyncNext, BlockingNext, FilesNext DEF AllInv

\* The three resolvers start in the promise's initial state.
LEMMA AllInitial ==
    AllInit => AllInv /\ Abstract!Init /\ Blocking!Abstract!Init /\ Files!Abstract!Init
<1> SUFFICES ASSUME AllInit
             PROVE  AllInv /\ Abstract!Init /\ Blocking!Abstract!Init /\ Files!Abstract!Init
    OBVIOUS
<1>1. Init /\ Blocking!Init /\ Files!Init
      BY DEF AllInit
<1>2. Batch = {} /\ In({"returned"}) = {}
      BY <1>1 DEF Init, Batch, Outstanding, In
<1>3. Abstract!Init
      BY <1>1, <1>2 DEF Init, Abstract!Init, Abstract!NoReply
<1> QED BY <1>1, <1>3, AsyncInit, BlockingInit, FilesInit DEF AllInv

\* Each of the three resolvers keeps the promise of the interface, for any
\* requests and any order of their results (the blocking one for a client that
\* calls Finish once).
THEOREM Promise == (MaxFinishes \in Nat /\ MaxFinishes <= 1) => (AllSafety => PromiseKept)
<1> SUFFICES ASSUME MaxFinishes \in Nat, MaxFinishes <= 1 PROVE AllSafety => PromiseKept
    OBVIOUS
<1>1. AllInv /\ [AllNext]_allVars =>
        /\ AllInv'
        /\ [Abstract!Next]_(Abstract!vars)
        /\ [Blocking!Abstract!Next]_(Blocking!Abstract!vars)
        /\ [Files!Abstract!Next]_(Files!Abstract!vars)
      BY AllStep
<1> QED BY AllInitial, <1>1, PTL
        DEF AllSafety, PromiseKept, ResolverSpec, Abstract!Spec, Blocking!ResolverSpec,
            Blocking!Abstract!Spec, Files!ResolverSpec, Files!Abstract!Spec

\* The two resolvers with goroutines keep it without a bound: the asynchronous
\* one over any number of batches, nothing of which shows up in a later Finish,
\* the remote file resolver for any number of files.
THEOREM ConcurrentPromise == AllSafety => ResolverSpec /\ Files!ResolverSpec
<1>1. AsyncInv /\ FilesInv /\ [AllNext]_allVars =>
        /\ AsyncInv' /\ FilesInv'
        /\ [Abstract!Next]_(Abstract!vars) /\ [Files!Abstract!Next]_(Files!Abstract!vars)
      BY ConcurrentStep
<1>2. AllInit => AsyncInv /\ FilesInv /\ Abstract!Init /\ Files!Abstract!Init
      BY AllInitial DEF AllInv
<1> QED BY <1>1, <1>2, PTL
        DEF AllSafety, ResolverSpec, Abstract!Spec, Files!ResolverSpec, Files!Abstract!Spec

\* ResolveAll never answers with the spec of another source, whatever is left in
\* the queue by the Adds before it and however many calls came before.
THEOREM Answered == AllSafety => []AnswersTheQuestion
<1>1. AsyncInv /\ FilesInv /\ [AllNext]_allVars => AsyncInv' /\ FilesInv'
      BY ConcurrentStep
<1>2. AllInit => AsyncInv /\ FilesInv
      BY AllInitial DEF AllInv
<1>3. AsyncInv => AnswersTheQuestion
      BY DEF AsyncInv, Question, AnswersTheQuestion
<1> QED BY <1>1, <1>2, <1>3, PTL DEF AllSafety
=============================================================================
