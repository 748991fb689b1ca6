------------------------- MODULE GenManifestsProofs -------------------------
(***************************************************************************)
(* Proofs about the worker queue and gen-manifests, for any number of      *)
(* jobs, any finite set of workers, any number of runs of the command and  *)
(* any files in the directory it starts on.                                *)
(*                                                                         *)
(* The first half is about WorkerQueue alone.  Its inductive invariant is  *)
(* built in layers, each proved on top of the ones before it: the types,   *)
(* the positions of the goroutines (Control), and then what went through   *)
(* errQueue and msgQueue.                                                  *)
(*                                                                         *)
(* The second half is about GenManifests.  Its inductive invariant is the  *)
(* queue's (IInv), which a step of the command either takes over from the  *)
(* queue or restarts, with three parts about the checksums: the types,     *)
(* what a run has recorded (Recorded) and what the deletion of stale files *)
(* still has to look at (Sweeping).                                        *)
(***************************************************************************)
EXTENDS GenManifests, FiniteSetTheorems, TLAPS

\* Taking the head of one channel and appending it behind the log of another
\* leaves their concatenation as it was.
LEMMA MoveHead ==
    ASSUME NEW S, NEW s \in Seq(S), NEW t \in Seq(S), t # <<>>
    PROVE  /\ Append(s, Head(t)) \in Seq(S) /\ Tail(t) \in Seq(S)
           /\ Append(s, Head(t)) \o Tail(t) = s \o t
<1> DEFINE u == Append(s, Head(t)) \o Tail(t)
           v == s \o t
<1>1. Head(t) \in S /\ Tail(t) \in Seq(S) /\ Len(Tail(t)) = Len(t) - 1 /\ Len(t) # 0
      BY SMT
<1>2. Append(s, Head(t)) \in Seq(S) /\ Len(Append(s, Head(t))) = Len(s) + 1
      BY <1>1, SMT
<1>3. u \in Seq(S) /\ v \in Seq(S) /\ Len(u) = Len(v)
      BY <1>1, <1>2, SMT
<1>4. ASSUME NEW i \in 1 .. Len(v) PROVE u[i] = v[i]
      BY <1>1, <1>2, SMT
<1>5. u = v
      BY <1>3, <1>4, SMT
<1> QED BY <1>1, <1>2, <1>5

\* A send on a channel extends the log of everything that went through it.
LEMMA AppendLog ==
    ASSUME NEW S, NEW s \in Seq(S), NEW t \in Seq(S), NEW e \in S
    PROVE  /\ Append(t, e) \in Seq(S)
           /\ s \o Append(t, e) = Append(s \o t, e)
           /\ s \o t \in Seq(S)
<1> DEFINE u == s \o Append(t, e)
           v == Append(s \o t, e)
<1>1. Append(t, e) \in Seq(S) /\ Len(Append(t, e)) = Len(t) + 1 /\ s \o t \in Seq(S)
      BY SMT
<1>2. u \in Seq(S) /\ v \in Seq(S) /\ Len(u) = Len(v)
      BY <1>1, SMT
<1>3. ASSUME NEW i \in 1 .. Len(v) PROVE u[i] = v[i]
      BY <1>1, SMT
<1>4. u = v
      BY <1>2, <1>3, SMT
<1> QED BY <1>1, <1>4

\* The values of a sequence after an Append, and when it keeps them distinct.
LEMMA AppendValues ==
    ASSUME NEW S, NEW s \in Seq(S), NEW e \in S
    PROVE  /\ Values(Append(s, e)) = Values(s) \cup {e}
           /\ (Distinct(s) /\ e \notin Values(s)) => Distinct(Append(s, e))
<1>1. /\ DOMAIN s = 1 .. Len(s) /\ DOMAIN Append(s, e) = 1 .. Len(s) + 1
      /\ Len(s) \in Nat
      /\ \A i \in 1 .. Len(s) : Append(s, e)[i] = s[i]
      /\ Append(s, e)[Len(s) + 1] = e
      BY SMT
<1>2. Values(Append(s, e)) = Values(s) \cup {e}
      BY <1>1, SMT DEF Values
<1>3. (Distinct(s) /\ e \notin Values(s)) => Distinct(Append(s, e))
      BY <1>1, SMT DEF Values, Distinct
<1> QED BY <1>2, <1>3

-----------------------------------------------------------------------------

USE WorkerQueueAssumption DEF WorkerQueueAssumption

\* A worker holds a job exactly while it is inside the body of its loop.
Holding == \A w \in Workers : job[w] = 0 <=> worker[w] \in {"receive", "left"}

Typed == TypeOK /\ Holding

\* A worker inside the body of its loop holds one of the jobs.
LEMMA HoldsJob ==
    ASSUME Typed, NEW w \in Workers, worker[w] \notin {"receive", "left"}
    PROVE  job[w] \in Jobs
<1>1. job[w] \in 0 .. NJobs /\ job[w] # 0
      BY DEF Typed, Holding, TypeOK
<1> QED BY <1>1 DEF Jobs

\* Every step keeps the variables in their types.
LEMMA TypedInit == Init => Typed
<1>1. Init => Holding
      BY DEF Init, Holding
<1>2. 0 \in 0 .. NJobs
      OBVIOUS
<1>3. <<>> \in Seq(Messages) /\ <<>> \in Seq(Jobs)
      OBVIOUS
<1> QED BY <1>1, <1>2, <1>3 DEF Init, Typed, TypeOK

\* Every step keeps the types and the bounds of the two buffers.
LEMMA TypedStep ==
    ASSUME Typed, [Next]_vars
    PROVE  Typed'
<1>1. CASE SubmitJob
      BY <1>1, SMT DEF SubmitJob, Typed, Holding, TypeOK, vars, mainVars, msgVars, errVars
<1>2. CASE CloseJobs
      BY <1>2 DEF CloseJobs, Typed, Holding, TypeOK, vars, mainVars, msgVars, errVars
<1>3. CASE CloseMessages
      BY <1>3 DEF CloseMessages, Typed, Holding, TypeOK, vars, mainVars, msgVars, errVars
<1>4. CASE CloseErrors
      BY <1>4 DEF CloseErrors, Typed, Holding, TypeOK, vars, mainVars, msgVars, errVars
<1>5. CASE Return
      BY <1>5 DEF Return, Typed, Holding, TypeOK, vars, mainVars, msgVars, errVars
<1>6. ASSUME NEW w \in Workers, Receive(w) PROVE Typed'
      BY <1>6, SMT DEF Receive, Typed, Holding, TypeOK, vars, mainVars, msgVars, errVars
<1>7. ASSUME NEW w \in Workers, Leave(w) PROVE Typed'
      BY <1>7 DEF Leave, Typed, Holding, TypeOK, vars, mainVars, msgVars, errVars
<1>8. ASSUME NEW w \in Workers, SendStarting(w) PROVE Typed'
  <2>1. <<job[w], "starting">> \in Messages
        BY <1>8, HoldsJob DEF SendStarting, Messages
  <2>2. msgQueue' \in Seq(Messages)
        BY <1>8, <2>1 DEF SendStarting, SendMessage, Typed, TypeOK
  <2> QED BY <1>8, <2>2 DEF SendStarting, SendMessage, Typed, Holding, TypeOK, mainVars, errVars
<1>9. ASSUME NEW w \in Workers, NEW ok \in BOOLEAN, Run(w, ok) PROVE Typed'
  <2>1. failed' \subseteq Jobs
        BY <1>9, HoldsJob DEF Run, Typed, TypeOK
  <2> QED BY <1>9, <2>1 DEF Run, Typed, Holding, TypeOK, mainVars, msgVars, errVars
<1>10. ASSUME NEW w \in Workers, SendFinished(w) PROVE Typed'
  <2>1. <<job[w], "finished">> \in Messages
        BY <1>10, HoldsJob DEF SendFinished, Messages
  <2>2. msgQueue' \in Seq(Messages)
        BY <1>10, <2>1 DEF SendFinished, SendMessage, Typed, TypeOK
  <2> QED BY <1>10, <2>2 DEF SendFinished, SendMessage, Typed, Holding, TypeOK, mainVars, errVars
<1>11. ASSUME NEW w \in Workers, ReportError(w) PROVE Typed'
  <2>1. errQueue' \in Seq(Jobs)
    <3>1. job[w] \in Jobs /\ errQueue \in Seq(Jobs)
          BY <1>11, HoldsJob DEF ReportError, Typed, TypeOK
    <3>2. Append(errQueue, job[w]) \in Seq(Jobs)
          BY <3>1
    <3> QED BY <1>11, <3>2 DEF ReportError
  <2> QED BY <1>11, <2>1 DEF ReportError, Typed, Holding, TypeOK, mainVars, msgVars
<1>12. CASE PrintMessage
      BY <1>12 DEF PrintMessage, Typed, Holding, TypeOK, mainVars, errVars
<1>13. CASE PrinterLeaves
      BY <1>13 DEF PrinterLeaves, Typed, Holding, TypeOK, mainVars, errVars
<1>14. CASE CollectError
      BY <1>14 DEF CollectError, Typed, Holding, TypeOK, mainVars, msgVars
<1>15. CASE CollectorLeaves
      BY <1>15 DEF CollectorLeaves, Typed, Holding, TypeOK, mainVars, msgVars
<1>16. CASE UNCHANGED vars
      BY <1>16 DEF Typed, Holding, TypeOK, vars, mainVars, msgVars, errVars
<1> QED BY <1>1, <1>2, <1>3, <1>4, <1>5, <1>6, <1>7, <1>8, <1>9, <1>10, <1>11,
           <1>12, <1>13, <1>14, <1>15, <1>16
        DEF Next, Main, Worker, Printer, Collector, Returned

\* The types and bounds hold throughout.
LEMMA TypeInvariant == Spec => []Typed
<1>1. Typed /\ [Next]_vars => Typed'
      BY TypedStep
<1> QED BY TypedInit, <1>1, PTL DEF Spec

-----------------------------------------------------------------------------

\* Where main and the goroutines can be together: what is closed when, and
\* who has already left.
Control ==
    /\ received <= sent
    /\ main = "submit" <=> ~ jobsClosed
    /\ main # "submit" => sent = NJobs
    /\ msgClosed <=> main \in {"closeErrors", "waitUtils", "returned"}
    /\ errClosed <=> main \in {"waitUtils", "returned"}
    /\ msgClosed => WorkersLeft
    /\ \A w \in Workers : worker[w] = "left" => (jobsClosed /\ received = sent)
    /\ printer = "left" => (msgClosed /\ msgQueue = <<>>)
    /\ collector = "left" => (errClosed /\ errQueue = <<>>)
    /\ main = "returned" => (printer = "left" /\ collector = "left")

\* The goroutines' positions agree with main's at the start.
LEMMA ControlInit == Init => Control
BY DEF Init, Control

\* They do after every step: main passes workersWg.Wait() only when all workers have left.
LEMMA ControlStep ==
    ASSUME Typed, Control, [Next]_vars
    PROVE  Control'
<1> USE DEF Control, WorkersLeft, mainVars, msgVars, errVars
<1>1. CASE SubmitJob
      BY <1>1, SMT DEF SubmitJob, Typed, TypeOK
<1>2. CASE CloseJobs
      BY <1>2 DEF CloseJobs
<1>3. CASE CloseMessages
      BY <1>3 DEF CloseMessages
<1>4. CASE CloseErrors
      BY <1>4 DEF CloseErrors
<1>5. CASE Return
      BY <1>5 DEF Return
<1>6. ASSUME NEW w \in Workers, Receive(w) PROVE Control'
      BY <1>6, SMT DEF Receive, Typed, TypeOK
<1>7. ASSUME NEW w \in Workers, Leave(w) PROVE Control'
      BY <1>7 DEF Leave, Typed, TypeOK
<1>8. ASSUME NEW w \in Workers, SendStarting(w) PROVE Control'
      BY <1>8 DEF SendStarting, SendMessage, Typed, TypeOK
<1>9. ASSUME NEW w \in Workers, NEW ok \in BOOLEAN, Run(w, ok) PROVE Control'
      BY <1>9 DEF Run, Typed, TypeOK
<1>10. ASSUME NEW w \in Workers, SendFinished(w) PROVE Control'
      BY <1>10 DEF SendFinished, SendMessage, Typed, TypeOK
<1>11. ASSUME NEW w \in Workers, ReportError(w) PROVE Control'
      BY <1>11 DEF ReportError, Typed, TypeOK
<1>12. CASE PrintMessage
      BY <1>12 DEF PrintMessage
<1>13. CASE PrinterLeaves
      BY <1>13 DEF PrinterLeaves
<1>14. CASE CollectError
      BY <1>14 DEF CollectError
<1>15. CASE CollectorLeaves
      BY <1>15 DEF CollectorLeaves
<1>16. CASE UNCHANGED vars
      BY <1>16 DEF vars
<1> QED BY <1>1, <1>2, <1>3, <1>4, <1>5, <1>6, <1>7, <1>8, <1>9, <1>10, <1>11,
           <1>12, <1>13, <1>14, <1>15, <1>16
        DEF Next, Main, Worker, Printer, Collector, Returned

\* No worker can send on a channel that main has closed.
THEOREM SafeClose == Spec => []NoSendAfterClose
<1>1. Typed /\ Control /\ [Next]_vars => Control'
      BY ControlStep
<1>2. Control => NoSendAfterClose
      BY DEF Control, NoSendAfterClose
<1> QED BY TypeInvariant, ControlInit, <1>1, <1>2, PTL DEF Spec

-----------------------------------------------------------------------------

\* The jobs the workers hold: received ones, one worker each, and failed
\* exactly from the end of the job body on.
Held ==
    /\ \A w \in Workers : job[w] <= received
    /\ \A v, w \in Workers : (job[v] = job[w] /\ job[v] # 0) => v = w
    /\ failed \subseteq 1 .. received
    /\ \A w \in Workers : worker[w] \in {"starting", "running"} => job[w] \notin failed
    /\ \A w \in Workers : worker[w] = "reporting" => job[w] \in failed

\* Nobody holds a job at the start.
LEMMA HeldInit == Init => Held
<1> SUFFICES ASSUME Init PROVE Held
    OBVIOUS
<1>1. \A w \in Workers : job[w] = 0 /\ worker[w] = "receive"
      BY DEF Init
<1>2. received = 0 /\ failed = {}
      BY DEF Init
<1> QED BY <1>1, <1>2 DEF Held

\* A job is taken from the queue by one worker, and kept until the worker is done with it.
LEMMA HeldStep ==
    ASSUME Typed, Held, [Next]_vars
    PROVE  Held'
<1> USE DEF Held, mainVars, msgVars, errVars
<1>1. ASSUME UNCHANGED <<received, worker, job, failed>> PROVE Held'
      BY <1>1
<1>2. ASSUME NEW w \in Workers, Receive(w) PROVE Held'
      BY <1>2, SMTT(30) DEF Receive, Typed, TypeOK, Holding
<1>3. ASSUME NEW w \in Workers, Leave(w) PROVE Held'
      BY <1>3 DEF Leave, Typed, TypeOK
<1>4. ASSUME NEW w \in Workers, SendStarting(w) PROVE Held'
      BY <1>4 DEF SendStarting, Typed, TypeOK
<1>5. ASSUME NEW w \in Workers, NEW ok \in BOOLEAN, Run(w, ok) PROVE Held'
  <2>1. job[w] \in Nat /\ job[w] # 0 /\ received \in Nat
    <3>1. job[w] \in Jobs
          BY <1>5, HoldsJob DEF Run
    <3> QED BY <3>1 DEF Jobs, Typed, TypeOK
  <2>2. failed' \subseteq failed \cup {job[w]} /\ job[w] \in 1 .. received
        BY <1>5, <2>1 DEF Run
  <2>3. UNCHANGED <<job, received>>
        BY <1>5 DEF Run
  <2>4. \A v \in Workers : v # w => worker'[v] = worker[v] /\ job[v] # job[w]
        BY <1>5, <2>1 DEF Run, Typed, TypeOK
  <2>5. worker'[w] = "finishing"
        BY <1>5 DEF Run, Typed, TypeOK
  <2>6. failed \subseteq failed'
        BY <1>5 DEF Run
  <2>7. failed' \subseteq 1 .. received'
        BY <2>2, <2>3
  <2>8. \A v \in Workers : worker'[v] \in {"starting", "running"} => job'[v] \notin failed'
        BY <2>2, <2>3, <2>4, <2>5
  <2>9. \A v \in Workers : worker'[v] = "reporting" => job'[v] \in failed'
        BY <2>3, <2>4, <2>5, <2>6
  <2> QED BY <2>3, <2>7, <2>8, <2>9
<1>6. ASSUME NEW w \in Workers, SendFinished(w) PROVE Held'
      BY <1>6 DEF SendFinished, Typed, TypeOK
<1>7. ASSUME NEW w \in Workers, ReportError(w) PROVE Held'
      BY <1>7 DEF ReportError, Typed, TypeOK
<1> QED BY <1>1, <1>2, <1>3, <1>4, <1>5, <1>6, <1>7
        DEF Next, Main, Worker, Printer, Collector, Returned, SubmitJob, CloseJobs,
            CloseMessages, CloseErrors, Return, PrintMessage, PrinterLeaves,
            CollectError, CollectorLeaves, vars

-----------------------------------------------------------------------------

\* A step that neither sends nor receives an error, and leaves the set of
\* jobs with an error to deliver as it was, keeps ErrorsOnce.
LEMMA ErrorsFrame ==
    ASSUME ErrorsOnce, ErrorLog' = ErrorLog, (failed \ Unreported)' = failed \ Unreported
    PROVE  ErrorsOnce'
BY DEF ErrorsOnce

\* Every step keeps each error in one place.
LEMMA ErrorsStep ==
    ASSUME Typed, Held, ErrorsOnce, [Next]_vars
    PROVE  ErrorsOnce'
<1>a. errQueue \in Seq(Jobs) /\ errors \in Seq(Jobs) /\ ErrorLog \in Seq(Jobs)
      BY DEF Typed, TypeOK, ErrorLog
<1>b. worker \in [Workers -> {"receive", "starting", "running", "finishing", "reporting", "left"}]
      BY DEF Typed, TypeOK
<1>c. job \in [Workers -> 0 .. NJobs]
      BY DEF Typed, TypeOK
<1>1. ASSUME UNCHANGED <<worker, job, failed, errQueue, errors>> PROVE ErrorsOnce'
      BY <1>1 DEF ErrorsOnce, ErrorLog, Unreported
<1>2. ASSUME NEW w \in Workers, Receive(w) PROVE ErrorsOnce'
  <2>1. Unreported' = Unreported
        BY <1>2, <1>b, <1>c DEF Receive, Unreported
  <2> QED BY <1>2, <2>1, ErrorsFrame DEF Receive, errVars, ErrorLog
<1>3. ASSUME NEW w \in Workers, Leave(w) PROVE ErrorsOnce'
  <2>1. Unreported' = Unreported
        BY <1>3, <1>b, <1>c DEF Leave, Unreported
  <2> QED BY <1>3, <2>1, ErrorsFrame DEF Leave, errVars, ErrorLog
<1>4. ASSUME NEW w \in Workers, SendStarting(w) PROVE ErrorsOnce'
  <2>1. Unreported' = Unreported
        BY <1>4, <1>b, <1>c DEF SendStarting, Unreported
  <2> QED BY <1>4, <2>1, ErrorsFrame DEF SendStarting, errVars, ErrorLog
<1>5. ASSUME NEW w \in Workers, NEW ok \in BOOLEAN, Run(w, ok) PROVE ErrorsOnce'
  <2>1. Unreported' = Unreported \cup {job[w]}
        BY <1>5, <1>b, <1>c DEF Run, Unreported
  <2>2. job[w] \notin failed
        BY <1>5 DEF Run, Held
  <2>3. failed' = failed \/ failed' = failed \cup {job[w]}
        BY <1>5 DEF Run
  <2>4. (failed \ Unreported)' = failed \ Unreported
        BY <2>1, <2>2, <2>3
  <2> QED BY <1>5, <2>4, ErrorsFrame DEF Run, errVars, ErrorLog
<1>6. ASSUME NEW w \in Workers, SendFinished(w) PROVE ErrorsOnce'
  <2>1. CASE job[w] \in failed
    <3>1. Unreported' = Unreported
          BY <1>6, <2>1, <1>b, <1>c DEF SendFinished, Unreported
    <3> QED BY <1>6, <3>1, ErrorsFrame DEF SendFinished, errVars, ErrorLog
  <2>2. CASE job[w] \notin failed
    <3>1. Unreported \ {job[w]} \subseteq Unreported' /\ Unreported' \subseteq Unreported
          BY <1>6, <2>2, <1>b, <1>c DEF SendFinished, Unreported
    <3>2. (failed \ Unreported)' = failed \ Unreported
          BY <1>6, <3>1, <2>2 DEF SendFinished
    <3> QED BY <1>6, <3>2, ErrorsFrame DEF SendFinished, errVars, ErrorLog
  <2> QED BY <2>1, <2>2
<1>7. ASSUME NEW w \in Workers, ReportError(w) PROVE ErrorsOnce'
  <2>1. job[w] \in Jobs /\ job[w] \in failed /\ job[w] \in Unreported /\ job[w] # 0
        BY <1>7, HoldsJob DEF ReportError, Unreported, Held, Jobs
  <2>2. ErrorLog' = Append(ErrorLog, job[w])
        BY <1>7, <1>a, <2>1, AppendLog DEF ReportError, ErrorLog
  <2>3. Unreported' = Unreported \ {job[w]}
    <3>1. \A v \in Workers : v # w => job[v] # job[w] /\ job'[v] = job[v] /\ worker'[v] = worker[v]
          BY <1>7, <2>1, <1>b, <1>c DEF ReportError, Held
    <3>2. worker'[w] = "receive"
          BY <1>7, <1>b DEF ReportError
    <3> QED BY <3>1, <3>2 DEF Unreported
  <2>4. failed' = failed
        BY <1>7 DEF ReportError
  <2>5. job[w] \notin Values(ErrorLog)
        BY <2>1 DEF ErrorsOnce
  <2>6. Values(ErrorLog') = Values(ErrorLog) \cup {job[w]} /\ Distinct(ErrorLog')
        BY <2>1, <2>2, <2>5, <1>a, AppendValues DEF ErrorsOnce
  <2>7. Values(ErrorLog') = failed' \ Unreported'
        BY <2>1, <2>3, <2>4, <2>6 DEF ErrorsOnce
  <2> QED BY <2>6, <2>7 DEF ErrorsOnce
<1>8. CASE CollectError
  <2>1. ErrorLog' = ErrorLog
        BY <1>8, <1>a, MoveHead DEF CollectError, ErrorLog
  <2>2. (failed \ Unreported)' = failed \ Unreported
        BY <1>8 DEF CollectError, Unreported
  <2> QED BY <2>1, <2>2, ErrorsFrame
<1> QED BY <1>1, <1>2, <1>3, <1>4, <1>5, <1>6, <1>7, <1>8
        DEF Next, Main, Worker, Printer, Collector, Returned, SubmitJob, CloseJobs,
            CloseMessages, CloseErrors, Return, PrintMessage, PrinterLeaves,
            CollectorLeaves, vars, mainVars, msgVars, errVars

\* There are no errors at the start.
LEMMA ErrorsInit == Init => ErrorsOnce
<1> SUFFICES ASSUME Init PROVE ErrorsOnce
    OBVIOUS
<1>1. ErrorLog = <<>>
      BY DEF Init, ErrorLog
<1>2. failed = {}
      BY DEF Init
<1>3. Values(<<>>) = {} /\ Distinct(<<>>)
      BY DEF Values, Distinct
<1> QED BY <1>1, <1>2, <1>3 DEF ErrorsOnce

\* No error is lost between a worker and the slice wait returns, or twice in it.
THEOREM ErrorDelivery == Spec => []ErrorsOnce
<1>1. Typed /\ Held /\ [Next]_vars => Held'
      BY HeldStep
<1>2. Typed /\ Held /\ ErrorsOnce /\ [Next]_vars => ErrorsOnce'
      BY ErrorsStep
<1> QED BY TypeInvariant, HeldInit, ErrorsInit, <1>1, <1>2, PTL DEF Spec

-----------------------------------------------------------------------------

\* Jobs that have not sent their first, or their last message.
NotStarted == {job[w] : w \in {v \in Workers : worker[v] = "starting"}}
NotFinished ==
    {job[w] : w \in {v \in Workers : worker[v] \in {"starting", "running", "finishing"}}}

\* Every message that a job received so far has sent is on its way, in order.
StartsBefore(log, k) == \E i \in 1 .. k - 1 : log[i] = <<log[k][1], "starting">>
OrderedLog(log) == \A k \in DOMAIN log : log[k][2] = "finished" => StartsBefore(log, k)

MessagesSent ==
    /\ \A j \in Jobs : /\ <<j, "starting">> \in Values(MessageLog)
                            <=> (j <= received /\ j \notin NotStarted)
                       /\ <<j, "finished">> \in Values(MessageLog)
                            <=> (j <= received /\ j \notin NotFinished)
    /\ OrderedLog(MessageLog)

\* Nothing has been sent at the start.
LEMMA MessagesInit == Init => MessagesSent
<1> SUFFICES ASSUME Init PROVE MessagesSent
    OBVIOUS
<1>1. MessageLog = <<>>
      BY DEF Init, MessageLog
<1>2. received = 0
      BY DEF Init
<1>3. Values(<<>>) = {} /\ DOMAIN <<>> = {}
      BY DEF Values
<1>4. \A j \in Jobs : ~ (j <= received)
      BY <1>2 DEF Jobs
<1> QED BY <1>1, <1>3, <1>4 DEF MessagesSent, OrderedLog

\* An ordered log stays ordered under an Append whose message may come now.
LEMMA AppendOrdered ==
    ASSUME NEW log \in Seq(Messages), OrderedLog(log), NEW m \in Messages,
           m[2] = "finished" => <<m[1], "starting">> \in Values(log)
    PROVE  OrderedLog(Append(log, m))
<1> DEFINE new == Append(log, m)
<1>1. /\ DOMAIN new = 1 .. Len(log) + 1 /\ DOMAIN log = 1 .. Len(log) /\ Len(log) \in Nat
      /\ \A i \in 1 .. Len(log) : new[i] = log[i]
      /\ new[Len(log) + 1] = m
      BY SMT
<1>2. ASSUME NEW k \in 1 .. Len(log), new[k][2] = "finished" PROVE StartsBefore(new, k)
  <2>1. log[k][2] = "finished" /\ new[k] = log[k]
        BY <1>1, <1>2
  <2>2. PICK i \in 1 .. k - 1 : log[i] = <<log[k][1], "starting">>
        BY <2>1, <1>1 DEF OrderedLog, StartsBefore
  <2>3. i \in 1 .. Len(log)
        BY <1>1
  <2> QED BY <2>1, <2>2, <2>3, <1>1 DEF StartsBefore
<1>3. ASSUME new[Len(log) + 1][2] = "finished" PROVE StartsBefore(new, Len(log) + 1)
  <2>1. PICK i \in 1 .. Len(log) : log[i] = <<m[1], "starting">>
        BY <1>1, <1>3 DEF Values
  <2>2. i \in 1 .. (Len(log) + 1) - 1
        BY <1>1
  <2> QED BY <2>1, <2>2, <1>1 DEF StartsBefore
<1>4. \A k \in DOMAIN new : k \in 1 .. Len(log) \/ k = Len(log) + 1
      BY <1>1
<1> HIDE DEF new
<1>5. OrderedLog(new)
      BY <1>2, <1>3, <1>4 DEF OrderedLog
<1> QED BY <1>5 DEF new

\* A step that neither sends nor prints a message keeps MessagesSent.
LEMMA MessagesFrame ==
    ASSUME MessagesSent, MessageLog' = MessageLog, received' = received,
           NotStarted' = NotStarted, NotFinished' = NotFinished
    PROVE  MessagesSent'
BY DEF MessagesSent

\* Every step keeps the log of messages in agreement with the workers' positions.
LEMMA MessagesStep ==
    ASSUME Typed, Held, MessagesSent, [Next]_vars
    PROVE  MessagesSent'
<1>a. msgQueue \in Seq(Messages) /\ printed \in Seq(Messages) /\ MessageLog \in Seq(Messages)
      BY DEF Typed, TypeOK, MessageLog
<1>b. worker \in [Workers -> {"receive", "starting", "running", "finishing", "reporting", "left"}]
      BY DEF Typed, TypeOK
<1>c. job \in [Workers -> 0 .. NJobs] /\ received \in Nat
      BY DEF Typed, TypeOK
<1>1. ASSUME UNCHANGED <<worker, job, received, msgQueue, printed>> PROVE MessagesSent'
      BY <1>1, MessagesFrame DEF MessageLog, NotStarted, NotFinished
<1>2. ASSUME NEW w \in Workers, Receive(w) PROVE MessagesSent'
  <2>1. job'[w] = received + 1 /\ worker'[w] = "starting" /\ worker[w] = "receive"
        BY <1>2, <1>b, <1>c DEF Receive
  <2>2. \A v \in Workers : v # w => job'[v] = job[v] /\ worker'[v] = worker[v]
        BY <1>2, <1>b, <1>c DEF Receive
  <2>3. NotStarted' = NotStarted \cup {received + 1} /\ NotFinished' = NotFinished \cup {received + 1}
        BY <2>1, <2>2 DEF NotStarted, NotFinished
  <2>4. received' = received + 1 /\ MessageLog' = MessageLog
        BY <1>2 DEF Receive, MessageLog, msgVars
  <2>5. \A j \in Jobs : (j <= received' /\ j # received + 1) <=> j <= received
        BY <2>4, <1>c DEF Jobs
  <2> QED BY <2>3, <2>4, <2>5 DEF MessagesSent
<1>3. ASSUME NEW w \in Workers, Leave(w) PROVE MessagesSent'
  <2>1. NotStarted' = NotStarted /\ NotFinished' = NotFinished
        BY <1>3, <1>b, <1>c DEF Leave, NotStarted, NotFinished
  <2> QED BY <1>3, <2>1, MessagesFrame DEF Leave, msgVars, MessageLog
<1>4. ASSUME NEW w \in Workers, SendStarting(w) PROVE MessagesSent'
  <2>1. job[w] \in Jobs /\ job[w] # 0 /\ worker[w] = "starting"
        BY <1>4, HoldsJob DEF SendStarting, Jobs
  <2> DEFINE m == <<job[w], "starting">>
  <2>2. m \in Messages
        BY <2>1 DEF Messages
  <2>3. MessageLog' = Append(MessageLog, m)
        BY <1>4, <1>a, <2>2, AppendLog DEF SendStarting, SendMessage, MessageLog
  <2>4. Values(MessageLog') = Values(MessageLog) \cup {m}
    <3> HIDE DEF m
    <3>1. Values(Append(MessageLog, m)) = Values(MessageLog) \cup {m}
          BY <2>2, <1>a, AppendValues
    <3> QED BY <2>3, <3>1
  <2>5. \A v \in Workers : v # w => job[v] # job[w] /\ worker'[v] = worker[v]
        BY <1>4, <2>1, <1>b DEF SendStarting, Held
  <2>6. worker'[w] = "running" /\ job' = job /\ received' = received
        BY <1>4, <1>b DEF SendStarting
  <2>7. NotStarted' = NotStarted \ {job[w]} /\ NotFinished' = NotFinished
        BY <2>1, <2>5, <2>6 DEF NotStarted, NotFinished
  <2>8. job[w] <= received
        BY DEF Held
  <2>9. OrderedLog(MessageLog')
        BY <2>2, <2>3, <1>a, AppendOrdered DEF MessagesSent
  <2> QED BY <2>1, <2>4, <2>6, <2>7, <2>8, <2>9 DEF MessagesSent
<1>5. ASSUME NEW w \in Workers, NEW ok \in BOOLEAN, Run(w, ok) PROVE MessagesSent'
  <2>1. NotStarted' = NotStarted /\ NotFinished' = NotFinished
        BY <1>5, <1>b, <1>c DEF Run, NotStarted, NotFinished
  <2> QED BY <1>5, <2>1, MessagesFrame DEF Run, msgVars, MessageLog
<1>6. ASSUME NEW w \in Workers, SendFinished(w) PROVE MessagesSent'
  <2>1. job[w] \in Jobs /\ job[w] # 0 /\ worker[w] = "finishing"
        BY <1>6, HoldsJob DEF SendFinished, Jobs
  <2> DEFINE m == <<job[w], "finished">>
  <2>2. m \in Messages
        BY <2>1 DEF Messages
  <2>3. MessageLog' = Append(MessageLog, m)
        BY <1>6, <1>a, <2>2, AppendLog DEF SendFinished, SendMessage, MessageLog
  <2>4. Values(MessageLog') = Values(MessageLog) \cup {m}
    <3> HIDE DEF m
    <3>1. Values(Append(MessageLog, m)) = Values(MessageLog) \cup {m}
          BY <2>2, <1>a, AppendValues
    <3> QED BY <2>3, <3>1
  <2>5. \A v \in Workers : v # w => job[v] # job[w] /\ worker'[v] = worker[v] /\ job'[v] = job[v]
        BY <1>6, <2>1, <1>b, <1>c DEF SendFinished, Held
  <2>6. worker'[w] \in {"reporting", "receive"} /\ received' = received
        BY <1>6, <1>b DEF SendFinished
  <2>7. NotStarted' = NotStarted /\ NotFinished' = NotFinished \ {job[w]}
        BY <2>1, <2>5, <2>6 DEF NotStarted, NotFinished
  <2>8. job[w] <= received /\ job[w] \notin NotStarted
        BY <2>1, <2>5 DEF Held, NotStarted
  <2>9. <<m[1], "starting">> \in Values(MessageLog)
        BY <2>1, <2>8 DEF MessagesSent
  <2>10. OrderedLog(MessageLog')
        BY <2>2, <2>3, <2>9, <1>a, AppendOrdered DEF MessagesSent
  <2> QED BY <2>1, <2>4, <2>6, <2>7, <2>8, <2>10 DEF MessagesSent
<1>7. ASSUME NEW w \in Workers, ReportError(w) PROVE MessagesSent'
  <2>1. NotStarted' = NotStarted /\ NotFinished' = NotFinished
        BY <1>7, <1>b, <1>c DEF ReportError, NotStarted, NotFinished
  <2> QED BY <1>7, <2>1, MessagesFrame DEF ReportError, msgVars, MessageLog
<1>8. CASE PrintMessage
  <2>1. MessageLog' = MessageLog
        BY <1>8, <1>a, MoveHead DEF PrintMessage, MessageLog
  <2> QED BY <1>8, <2>1, MessagesFrame DEF PrintMessage, NotStarted, NotFinished
<1> QED BY <1>1, <1>2, <1>3, <1>4, <1>5, <1>6, <1>7, <1>8
        DEF Next, Main, Worker, Printer, Collector, Returned, SubmitJob, CloseJobs,
            CloseMessages, CloseErrors, Return, CollectError, PrinterLeaves,
            CollectorLeaves, vars, mainVars, msgVars, errVars

-----------------------------------------------------------------------------

\* The inductive invariant of the queue.
IInv == Typed /\ Control /\ Held /\ ErrorsOnce /\ MessagesSent

\* The inductive invariant holds when newWorkerQueue has returned.
LEMMA InvariantInit == Init => IInv
BY TypedInit, ControlInit, HeldInit, ErrorsInit, MessagesInit DEF IInv

\* Every step of main, the workers, the printer and the collector keeps it.
LEMMA InvariantStep ==
    ASSUME IInv, [Next]_vars
    PROVE  IInv'
<1>1. Typed /\ Control /\ Held /\ ErrorsOnce /\ MessagesSent
      BY DEF IInv
<1>2. Typed'
      BY <1>1, TypedStep
<1>3. Control'
      BY <1>1, ControlStep
<1>4. Held'
      BY <1>1, HeldStep
<1>5. ErrorsOnce'
      BY <1>1, ErrorsStep
<1>6. MessagesSent'
      BY <1>1, MessagesStep
<1> QED BY <1>2, <1>3, <1>4, <1>5, <1>6 DEF IInv

\* The inductive invariant of the worker queue: types, the agreement of the goroutines'
\* positions (Control), who holds which job (Held), where each error is (ErrorsOnce) and what has
\* been sent (MessagesSent).
THEOREM Invariant == Spec => []IInv
<1>1. IInv /\ [Next]_vars => IInv'
      BY InvariantStep
<1> QED BY InvariantInit, <1>1, PTL DEF Spec

\* Every variable keeps its type.
THEOREM TypeCorrect == Spec => []TypeOK
<1>1. IInv => TypeOK
      BY DEF IInv, Typed
<1> QED BY Invariant, <1>1, PTL

\* A job's start is printed before its end, for any number of workers.
THEOREM PrintedInOrder == Spec => []StartBeforeFinish
<1>1. IInv => StartBeforeFinish
  <2> SUFFICES ASSUME IInv, NEW k \in DOMAIN printed, printed[k][2] = "finished"
               PROVE  \E i \in 1 .. k - 1 : printed[i] = <<printed[k][1], "starting">>
      BY DEF StartBeforeFinish
  <2>1. msgQueue \in Seq(Messages) /\ printed \in Seq(Messages)
        BY DEF IInv, Typed, TypeOK
  <2>2. /\ Len(printed) \in Nat /\ DOMAIN printed = 1 .. Len(printed)
        /\ \A i \in 1 .. Len(printed) : i \in DOMAIN MessageLog /\ MessageLog[i] = printed[i]
        BY <2>1, SMT DEF MessageLog
  <2>3. PICK i \in 1 .. k - 1 : MessageLog[i] = <<MessageLog[k][1], "starting">>
        BY <2>2 DEF IInv, MessagesSent, OrderedLog, StartsBefore
  <2>4. i \in 1 .. Len(printed)
        BY <2>2
  <2> QED BY <2>2, <2>3, <2>4
<1> QED BY Invariant, <1>1, PTL

\* What wait returns, and what has been printed when it returns, is complete.
THEOREM Complete == Spec => []ReturnsEverything
<1>1. IInv => ReturnsEverything
  <2> SUFFICES ASSUME IInv, main = "returned", Workers # {}
               PROVE  /\ received = NJobs
                      /\ Values(printed) = Messages
                      /\ Distinct(errors) /\ Values(errors) = failed
      BY DEF ReturnsEverything
  <2>1. PICK w \in Workers : TRUE
        OBVIOUS
  <2>2. /\ msgQueue = <<>> /\ errQueue = <<>> /\ received = NJobs
        /\ \A v \in Workers : worker[v] = "left"
        BY <2>1 DEF IInv, Control, WorkersLeft
  <2>3. Unreported = {} /\ NotStarted = {} /\ NotFinished = {}
        BY <2>2 DEF Unreported, NotStarted, NotFinished
  <2>4. /\ errors \in Seq(Jobs) /\ printed \in Seq(Messages)
        BY DEF IInv, Typed, TypeOK
  <2>5. ErrorLog = errors /\ MessageLog = printed
        BY <2>2, <2>4 DEF ErrorLog, MessageLog
  <2>6. Distinct(errors) /\ Values(errors) = failed
        BY <2>3, <2>5 DEF IInv, ErrorsOnce
  <2>7. \A j \in Jobs : <<j, "starting">> \in Values(printed) /\ <<j, "finished">> \in Values(printed)
    <3>1. \A j \in Jobs : j <= received
          BY <2>2 DEF Jobs
    <3> QED BY <2>3, <2>5, <3>1 DEF IInv, MessagesSent
  <2>8. Values(printed) \subseteq Messages
        BY <2>4 DEF Values
  <2>9. Messages \subseteq Values(printed)
    <3> SUFFICES ASSUME NEW m \in Messages PROVE m \in Values(printed)
        OBVIOUS
    <3>1. m = <<m[1], m[2]>> /\ m[1] \in Jobs /\ m[2] \in {"starting", "finished"}
          BY DEF Messages
    <3> QED BY <3>1, <2>7
  <2> QED BY <2>2, <2>6, <2>8, <2>9
<1> QED BY Invariant, <1>1, PTL
-----------------------------------------------------------------------------

\* Fewer jobs than workers are being run while a worker waits for one.
LEMMA IdleWorker ==
    ASSUME Typed, NEW w \in Workers, worker[w] = "receive"
    PROVE  Cardinality(HeldBeforeEnd) < NWorkers
<1> DEFINE busy == {v \in Workers : worker[v] \in {"starting", "running"}}
<1>1. IsFiniteSet(Workers \ {w}) /\ Cardinality(Workers \ {w}) = NWorkers - 1 /\ NWorkers \in Nat
      BY FS_RemoveElement, FS_CardinalityType DEF NWorkers
<1>2. busy \subseteq Workers \ {w}
      OBVIOUS
<1>3. IsFiniteSet(busy) /\ Cardinality(busy) <= Cardinality(Workers \ {w})
      BY <1>1, <1>2, FS_Subset
<1> DEFINE f == [v \in busy |-> job[v]]
<1>4. f \in Surjection(busy, HeldBeforeEnd)
      BY DEF Surjection, HeldBeforeEnd
<1> HIDE DEF busy, f
<1>5. IsFiniteSet(HeldBeforeEnd) /\ Cardinality(HeldBeforeEnd) <= Cardinality(busy)
      BY <1>3, <1>4, FS_Surjection
<1>6. Cardinality(HeldBeforeEnd) \in Nat /\ Cardinality(busy) \in Nat
      BY <1>3, <1>5, FS_CardinalityType
<1> QED BY <1>1, <1>3, <1>5, <1>6

\* Every step of the queue is a step of the pool, or none.
LEMMA PoolStep ==
    ASSUME Workers # {}, IInv, IInv', [Next]_vars
    PROVE  [Pool!Next]_(Pool!vars)
<1>a. Typed /\ Held /\ Control
      BY DEF IInv
<1>b. worker \in [Workers -> {"receive", "starting", "running", "finishing", "reporting", "left"}]
      BY <1>a DEF Typed, TypeOK
<1>c. job \in [Workers -> 0 .. NJobs] /\ received \in Nat
      BY <1>a DEF Typed, TypeOK
<1> USE DEF Pool!vars
<1>1. ASSUME UNCHANGED <<worker, job, received, failed, main>>, main # "returned" \/ UNCHANGED errors
      PROVE  UNCHANGED Pool!vars
      BY <1>1 DEF HeldBeforeEnd
<1>2. ASSUME NEW w \in Workers, Receive(w) PROVE Pool!Next
  <2> DEFINE j == received + 1
  <2>1. j \in Jobs /\ worker[w] = "receive"
        BY <1>2, <1>a, <1>c DEF Receive, Typed, TypeOK, Jobs
  <2>2. \A v \in Workers : v # w => job'[v] = job[v] /\ worker'[v] = worker[v]
        BY <1>2, <1>b, <1>c DEF Receive
  <2>3. job'[w] = j /\ worker'[w] = "starting" /\ received' = j
        BY <1>2, <1>b, <1>c DEF Receive
  <2>4. HeldBeforeEnd' = HeldBeforeEnd \cup {j}
        BY <2>1, <2>2, <2>3 DEF HeldBeforeEnd
  <2>5. \A v \in Workers : job[v] # j
        BY <1>a, <1>c DEF Held
  <2>6. j \notin HeldBeforeEnd /\ j \notin 1 .. received
        BY <2>5, <1>c DEF HeldBeforeEnd
  <2>7. ((1 .. received) \ HeldBeforeEnd)' = (1 .. received) \ HeldBeforeEnd
        BY <2>3, <2>4, <2>6, <1>c
  <2>8. UNCHANGED <<main, failed, errors>>
        BY <1>2 DEF Receive, mainVars, errVars
  <2>9. Pool!Cardinality(HeldBeforeEnd) < NWorkers
    <3>1. Pool!Cardinality(HeldBeforeEnd) = Cardinality(HeldBeforeEnd)
          BY DEF Pool!Cardinality, Cardinality
    <3> QED BY <2>1, <3>1, <1>a, IdleWorker
  <2>10. /\ (main' = "returned") = (main = "returned")
         /\ (IF main' = "returned" THEN Values(errors') ELSE {})
              = IF main = "returned" THEN Values(errors) ELSE {}
        BY <2>8
  <2>11. Pool!Start(j)
        BY <2>4, <2>6, <2>7, <2>8, <2>9, <2>10 DEF Pool!Start
  <2> QED BY <2>1, <2>11 DEF Pool!Next, Pool!Jobs, Jobs
<1>3. ASSUME NEW w \in Workers, NEW ok \in BOOLEAN, Run(w, ok) PROVE Pool!Next
  <2> DEFINE j == job[w]
  <2>1. j \in Jobs /\ worker[w] = "running" /\ j \in 1 .. received
    <3>1. j \in Jobs /\ worker[w] = "running"
          BY <1>3, <1>a, HoldsJob DEF Run
    <3> QED BY <3>1, <1>a, <1>c DEF Held, Jobs
  <2>2. \A v \in Workers : v # w => job[v] # j /\ worker'[v] = worker[v]
        BY <1>3, <2>1, <1>a, <1>b DEF Run, Held, Jobs
  <2>3. job' = job /\ worker'[w] = "finishing" /\ received' = received
        BY <1>3, <1>b DEF Run
  <2>4. HeldBeforeEnd' = HeldBeforeEnd \ {j} /\ j \in HeldBeforeEnd
        BY <2>1, <2>2, <2>3 DEF HeldBeforeEnd
  <2>5. ((1 .. received) \ HeldBeforeEnd)' = ((1 .. received) \ HeldBeforeEnd) \cup {j}
        BY <2>1, <2>3, <2>4
  <2>6. UNCHANGED <<main, errors>> /\ failed' = IF ok THEN failed ELSE failed \cup {j}
        BY <1>3 DEF Run, mainVars, errVars
  <2>7. Pool!Finish(j, ok)
        BY <2>4, <2>5, <2>6 DEF Pool!Finish
  <2> QED BY <2>1, <2>7 DEF Pool!Next, Pool!Jobs, Jobs
<1>4. CASE Return
  <2>1. main' = "returned" /\ main # "returned"
        BY <1>4 DEF Return
  <2>2. UNCHANGED <<worker, job, received, failed, errors>>
        BY <1>4 DEF Return, errVars
  <2>3. WorkersLeft /\ received = NJobs /\ Values(errors) = failed
    <3>1. msgClosed /\ WorkersLeft
          BY <1>4, <1>a DEF Return, Control
    <3>2. PICK w \in Workers : TRUE
          OBVIOUS
    <3>3. received = NJobs
          BY <1>4, <3>1, <3>2, <1>a DEF Return, Control, WorkersLeft
    <3>4. errQueue = <<>> /\ errors \in Seq(Jobs)
          BY <1>4, <1>a DEF Return, Control, Typed, TypeOK
    <3>5. ErrorLog = errors
          BY <3>4 DEF ErrorLog
    <3>6. Unreported = {}
          BY <3>1 DEF WorkersLeft, Unreported
    <3>7. Values(errors) = failed
          BY <3>5, <3>6 DEF IInv, ErrorsOnce
    <3> QED BY <3>1, <3>3, <3>7
  <2>4. HeldBeforeEnd = {} /\ HeldBeforeEnd' = {}
        BY <2>2, <2>3 DEF HeldBeforeEnd, WorkersLeft
  <2>5. Pool!Return
        BY <2>1, <2>2, <2>3, <2>4 DEF Pool!Return, Pool!Jobs
  <2> QED BY <2>5 DEF Pool!Next
<1>5. ASSUME NEW w \in Workers, Leave(w) \/ SendStarting(w) \/ SendFinished(w) \/ ReportError(w)
      PROVE  UNCHANGED Pool!vars
  <2>1. UNCHANGED <<received, failed, main, errors>>
        BY <1>5 DEF Leave, SendStarting, SendFinished, ReportError, mainVars, errVars
  <2>2. \A v \in Workers :
          /\ worker'[v] \in {"starting", "running"} <=> worker[v] \in {"starting", "running"}
          /\ worker[v] \in {"starting", "running"} => job'[v] = job[v]
    <3>1. \A v \in Workers : v # w => job'[v] = job[v] /\ worker'[v] = worker[v]
          BY <1>5, <1>b, <1>c DEF Leave, SendStarting, SendFinished, ReportError
    <3>2. \/ worker[w] = "receive" /\ worker'[w] = "left"
          \/ worker[w] = "starting" /\ worker'[w] = "running" /\ job' = job
          \/ worker[w] = "finishing" /\ worker'[w] \in {"reporting", "receive"}
          \/ worker[w] = "reporting" /\ worker'[w] = "receive"
          BY <1>5, <1>b DEF Leave, SendStarting, SendFinished, ReportError
    <3> QED BY <3>1, <3>2
  <2>3. HeldBeforeEnd' = HeldBeforeEnd
        BY <2>2 DEF HeldBeforeEnd
  <2> QED BY <2>1, <2>3
<1>6. ASSUME SubmitJob \/ CloseJobs \/ CloseMessages \/ CloseErrors \/ Printer \/ Collector
             \/ UNCHANGED vars
      PROVE  UNCHANGED Pool!vars
  <2>1. UNCHANGED <<worker, job, received, failed>>
        BY <1>6 DEF SubmitJob, CloseJobs, CloseMessages, CloseErrors, Printer, PrintMessage,
                    PrinterLeaves, Collector, CollectError, CollectorLeaves, vars
  <2>2. (main' = "returned") = (main = "returned")
        BY <1>6 DEF SubmitJob, CloseJobs, CloseMessages, CloseErrors, Printer, PrintMessage,
                    PrinterLeaves, Collector, CollectError, CollectorLeaves, vars, mainVars
  <2>3. main = "returned" => UNCHANGED errors
        BY <1>6, <1>a DEF SubmitJob, CloseJobs, CloseMessages, CloseErrors, Printer, PrintMessage,
                    PrinterLeaves, Collector, CollectError, CollectorLeaves, Control,
                    vars, errVars
  <2> QED BY <2>1, <2>2, <2>3 DEF HeldBeforeEnd
<1> QED BY <1>2, <1>3, <1>4, <1>5, <1>6 DEF Next, Main, Worker, Returned

\* The queue, for any number of jobs and workers, is the pool that main expects:
\* each job is run once, never more at a time than there are workers, and what
\* wait returns are the failed jobs.
THEOREM Implements == Workers # {} => (Spec => PoolSafety)
<1> SUFFICES ASSUME Workers # {} PROVE Spec => PoolSafety
    OBVIOUS
<1>1. Init => Pool!Init
  <2> SUFFICES ASSUME Init PROVE Pool!Init
      OBVIOUS
  <2>1. HeldBeforeEnd = {} /\ received = 0 /\ failed = {} /\ main = "submit"
        BY DEF Init, HeldBeforeEnd
  <2> QED BY <2>1 DEF Pool!Init
<1>2. IInv /\ IInv' /\ [Next]_vars => [Pool!Next]_(Pool!vars)
      BY PoolStep
<1> QED BY <1>1, <1>2, Invariant, PTL DEF Spec, PoolSafety, Pool!Safety
-----------------------------------------------------------------------------
(* The command around the queue.                                           *)

USE WorkerQueueAssumption DEF WorkerQueueAssumption

GenTyped ==
    /\ dir \in [Names -> Content]
    /\ processed \subseteq Jobs
    /\ toVisit \subseteq Names
    /\ exit \in {"running", "0", "1", "killed"}

\* The checksums recorded are those of the jobs that ended well, and they are
\* in the directory.
Recorded ==
    /\ processed = ((1 .. received) \ HeldBeforeEnd) \ failed
    /\ \A j \in processed : dir[j] = "digest"

\* While stale files are deleted, and after that, the queue has returned
\* without an error, and a file that no job recorded is gone or to be visited.
Sweeping ==
    (toVisit # {} \/ exit = "0") =>
        /\ main = "returned" /\ errors = <<>>
        /\ \A n \in Names \ processed : dir[n] = "absent" \/ n \in toVisit
        /\ exit = "0" => toVisit = {}

GenInv == IInv /\ GenTyped /\ Recorded /\ Sweeping

-----------------------------------------------------------------------------

\* A queue that has returned without an error has recorded every job.
LEMMA AllRecorded ==
    ASSUME IInv, GenTyped, Recorded, main = "returned", errors = <<>>
    PROVE  failed = {} /\ processed = Jobs /\ WorkersLeft
<1>1. Workers # {}
      BY GenManifestsAssumption DEF GenManifestsAssumption
<1>2. PICK w \in Workers : TRUE
      BY <1>1
<1>3. WorkersLeft /\ received = NJobs /\ errQueue = <<>>
      BY <1>2 DEF IInv, Control, WorkersLeft
<1>4. Unreported = {} /\ HeldBeforeEnd = {}
      BY <1>3 DEF WorkersLeft, Unreported, HeldBeforeEnd
<1>5. ErrorLog = <<>>
      BY <1>3 DEF ErrorLog
<1>6. Values(<<>>) = {}
      BY DEF Values
<1>7. failed = {}
      BY <1>4, <1>5, <1>6 DEF IInv, ErrorsOnce
<1> QED BY <1>3, <1>4, <1>7 DEF Recorded, Jobs

\* The job a worker is at the end of is counted among those recorded once it
\* has ended without an error, and no other job is.
LEMMA RunEffect ==
    ASSUME IInv, NEW w \in Workers, NEW ok \in BOOLEAN, Run(w, ok)
    PROVE  /\ job[w] \in Jobs
           /\ (((1 .. received) \ HeldBeforeEnd) \ failed)'
                = (((1 .. received) \ HeldBeforeEnd) \ failed) \cup IF ok THEN {job[w]} ELSE {}
<1>a. Typed /\ Held
      BY DEF IInv
<1>b. worker \in [Workers -> {"receive", "starting", "running", "finishing", "reporting", "left"}]
      BY <1>a DEF Typed, TypeOK
<1>c. job \in [Workers -> 0 .. NJobs] /\ received \in Nat
      BY <1>a DEF Typed, TypeOK
<1> DEFINE j == job[w]
<1>1. j \in Jobs /\ worker[w] = "running"
      BY <1>a, HoldsJob DEF Run
<1>2. j \in 1 .. received /\ j \notin failed /\ j # 0
      BY <1>1, <1>a, <1>c DEF Held, Jobs
<1>3. \A v \in Workers : v # w => job[v] # j /\ worker'[v] = worker[v]
      BY <1>2, <1>a, <1>b DEF Run, Held
<1>4. job' = job /\ worker'[w] = "finishing" /\ received' = received
      BY <1>b DEF Run
<1>5. HeldBeforeEnd' = HeldBeforeEnd \ {j} /\ j \in HeldBeforeEnd
      BY <1>1, <1>3, <1>4 DEF HeldBeforeEnd
<1>6. failed' = IF ok THEN failed ELSE failed \cup {j}
      BY DEF Run
<1> QED BY <1>1, <1>2, <1>4, <1>5, <1>6

\* A step of the queue that is not the end of a job records nothing.
LEMMA QueueEffect ==
    ASSUME IInv, QueueStep
    PROVE  (((1 .. received) \ HeldBeforeEnd) \ failed)' = ((1 .. received) \ HeldBeforeEnd) \ failed
<1>a. Typed /\ Held
      BY DEF IInv
<1>b. worker \in [Workers -> {"receive", "starting", "running", "finishing", "reporting", "left"}]
      BY <1>a DEF Typed, TypeOK
<1>c. job \in [Workers -> 0 .. NJobs] /\ received \in Nat
      BY <1>a DEF Typed, TypeOK
<1>1. CASE Main \/ Printer \/ Collector
  <2>1. UNCHANGED <<worker, job, received, failed>>
        BY <1>1 DEF Main, SubmitJob, CloseJobs, CloseMessages, CloseErrors, Return,
                    Printer, PrintMessage, PrinterLeaves, Collector, CollectError, CollectorLeaves
  <2> QED BY <2>1 DEF HeldBeforeEnd
<1>2. ASSUME NEW w \in Workers, Receive(w)
      PROVE  (((1 .. received) \ HeldBeforeEnd) \ failed)' = ((1 .. received) \ HeldBeforeEnd) \ failed
  <2> DEFINE j == received + 1
  <2>1. \A v \in Workers : v # w => job'[v] = job[v] /\ worker'[v] = worker[v]
        BY <1>2, <1>b, <1>c DEF Receive
  <2>2. /\ worker[w] = "receive" /\ job'[w] = j /\ worker'[w] = "starting" /\ received' = j
        /\ failed' = failed
        BY <1>2, <1>b, <1>c DEF Receive
  <2>3. HeldBeforeEnd' = HeldBeforeEnd \cup {j}
        BY <2>1, <2>2 DEF HeldBeforeEnd
  <2>4. 1 .. received' = (1 .. received) \cup {j} /\ j \notin 1 .. received
        BY <2>2, <1>c
  <2> QED BY <2>2, <2>3, <2>4
<1>3. ASSUME NEW w \in Workers, Leave(w) \/ SendStarting(w) \/ SendFinished(w) \/ ReportError(w)
      PROVE  (((1 .. received) \ HeldBeforeEnd) \ failed)' = ((1 .. received) \ HeldBeforeEnd) \ failed
  <2>1. UNCHANGED <<received, failed>>
        BY <1>3 DEF Leave, SendStarting, SendFinished, ReportError
  <2>2. \A v \in Workers : v # w => job'[v] = job[v] /\ worker'[v] = worker[v]
        BY <1>3, <1>b, <1>c DEF Leave, SendStarting, SendFinished, ReportError
  <2>3. \/ worker[w] = "receive" /\ worker'[w] = "left"
        \/ worker[w] = "starting" /\ worker'[w] = "running" /\ job' = job
        \/ worker[w] = "finishing" /\ worker'[w] \in {"reporting", "receive"}
        \/ worker[w] = "reporting" /\ worker'[w] = "receive"
        BY <1>3, <1>b DEF Leave, SendStarting, SendFinished, ReportError
  <2>4. HeldBeforeEnd' = HeldBeforeEnd
        BY <2>2, <2>3 DEF HeldBeforeEnd
  <2> QED BY <2>1, <2>4
<1> QED BY <1>1, <1>2, <1>3 DEF QueueStep

-----------------------------------------------------------------------------

\* gen-manifests starts on any directory, with nothing recorded.
LEMMA GenInit_Inv == GenInit => GenInv
<1> SUFFICES ASSUME GenInit PROVE GenInv
    OBVIOUS
<1>1. IInv
      BY InvariantInit DEF GenInit
<1>2. GenTyped
      BY DEF GenInit, GenTyped, Content
<1>3. processed = {} /\ received = 0
      BY DEF GenInit, Init
<1>4. Recorded
      BY <1>3 DEF Recorded
<1>5. Sweeping
      BY DEF GenInit, Sweeping
<1> QED BY <1>1, <1>2, <1>4, <1>5 DEF GenInv

\* The steps of the command that are steps of the queue keep the queue's invariant.
LEMMA QueueStepInv ==
    ASSUME IInv, QueueNext
    PROVE  IInv'
<1>1. QueueStep => Next
      BY DEF QueueStep, Next, Worker
<1>2. ASSUME NEW w \in Workers, RunJob(w) PROVE Next
      BY <1>2 DEF RunJob, Next, Worker
<1>3. Next
      BY <1>1, <1>2 DEF QueueNext
<1> QED BY <1>3, InvariantStep

\* Once the queue has returned it takes no step.
LEMMA QueueStays ==
    ASSUME IInv, main = "returned", QueueNext
    PROVE  FALSE
<1>1. /\ WorkersLeft /\ printer = "left" /\ collector = "left"
      BY DEF IInv, Control
<1> QED BY <1>1 DEF QueueNext, QueueStep, RunJob, WorkersLeft, Main, SubmitJob, CloseJobs,
               CloseMessages, CloseErrors, Return, Printer, PrintMessage, PrinterLeaves,
               Collector, CollectError, CollectorLeaves, Receive, Leave, SendStarting,
               SendFinished, ReportError, Run

\* Every step of the jobs, of main's tail, of a kill and of a rerun keeps the invariant.
LEMMA GenStep ==
    ASSUME GenInv, [GenNext]_allVars
    PROVE  GenInv'
<1>a. IInv /\ GenTyped /\ Recorded /\ Sweeping
      BY DEF GenInv
<1>b. Jobs \subseteq Names
      BY DEF Names
<1>1. CASE QueueNext
  <2>1. IInv'
        BY <1>1, <1>a, QueueStepInv
  <2>2. main # "returned"
        BY <1>1, <1>a, QueueStays
  <2>3. exit = "running" /\ UNCHANGED <<toVisit, exit>> /\ toVisit = {}
        BY <1>1, <1>a, <2>2 DEF QueueNext, Sweeping
  <2>4. Sweeping'
        BY <2>3 DEF Sweeping
  <2>5. CASE QueueStep
    <3>1. UNCHANGED <<dir, processed>>
          BY <2>5 DEF QueueStep
    <3>2. GenTyped'
          BY <1>a, <2>3, <3>1 DEF GenTyped
    <3>3. Recorded'
          BY <1>a, <2>5, <3>1, QueueEffect DEF Recorded
    <3> QED BY <2>1, <2>4, <3>2, <3>3 DEF GenInv
  <2>6. ASSUME NEW w \in Workers, Run(w, TRUE), RecordChecksum(job[w]) PROVE GenInv'
    <3>1. job[w] \in Jobs /\ job[w] \in Names
          BY <1>a, <1>b, <2>6, RunEffect
    <3>2. GenTyped'
          BY <1>a, <2>3, <2>6, <3>1 DEF GenTyped, RecordChecksum, Content
    <3>3. processed' = (((1 .. received) \ HeldBeforeEnd) \ failed)'
          BY <1>a, <2>6, RunEffect DEF Recorded, RecordChecksum
    <3>4. \A j \in processed' : dir'[j] = "digest"
          BY <1>a, <1>b, <2>6, <3>1 DEF Recorded, RecordChecksum, GenTyped
    <3>5. Recorded'
          BY <3>3, <3>4 DEF Recorded
    <3> QED BY <2>1, <2>4, <3>2, <3>5 DEF GenInv
  <2>7. ASSUME NEW w \in Workers, Run(w, FALSE), FailChecksum(job[w]) PROVE GenInv'
    <3>1. job[w] \in Jobs /\ job[w] \in Names
          BY <1>a, <1>b, <2>7, RunEffect
    <3>2. GenTyped'
          BY <1>a, <2>3, <2>7, <3>1 DEF GenTyped, FailChecksum, Content
    <3>3. processed' = (((1 .. received) \ HeldBeforeEnd) \ failed)'
          BY <1>a, <2>7, RunEffect DEF Recorded, FailChecksum
    <3>4. \A j \in processed' : dir'[j] = "digest"
          BY <1>a, <1>b, <2>7, <3>1 DEF Recorded, FailChecksum, GenTyped
    <3>5. Recorded'
          BY <3>3, <3>4 DEF Recorded
    <3> QED BY <2>1, <2>4, <3>2, <3>5 DEF GenInv
  <2> QED BY <1>1, <2>5, <2>6, <2>7 DEF QueueNext, RunJob
<1>2. ASSUME UNCHANGED vars PROVE IInv' /\ (UNCHANGED <<dir, processed>> => Recorded')
  <2>1. IInv'
        BY <1>2, <1>a, InvariantStep
  <2>2. HeldBeforeEnd' = HeldBeforeEnd
        BY <1>2 DEF vars, HeldBeforeEnd
  <2> QED BY <1>2, <1>a, <2>1, <2>2 DEF vars, Recorded
<1>3. CASE AfterWait
  <2>1. /\ IInv' /\ Recorded'
        /\ main = "returned" /\ exit = "running" /\ toVisit = {}
        /\ UNCHANGED <<main, errors, dir, processed>>
        BY <1>2, <1>3 DEF AfterWait, vars, mainVars, errVars
  <2>2. \/ exit' = "1" /\ toVisit' = {}
        \/ /\ errors = <<>> /\ toVisit' = {n \in Names : dir[n] # "absent"}
           /\ exit' = IF toVisit' = {} THEN "0" ELSE "running"
        BY <1>3, <2>1 DEF AfterWait
  <2>3. GenTyped'
        BY <1>a, <2>1, <2>2 DEF GenTyped
  <2>4. Sweeping'
        BY <2>1, <2>2 DEF Sweeping
  <2> QED BY <2>1, <2>3, <2>4 DEF GenInv
<1>4. ASSUME NEW n \in Names, VisitEntry(n) PROVE GenInv'
  <2>1. /\ IInv' /\ UNCHANGED <<main, errors, processed>> /\ n \in toVisit /\ exit = "running"
        BY <1>2, <1>4 DEF VisitEntry, vars, mainVars, errVars
  <2>2. \/ /\ n \in processed /\ dir' = dir /\ toVisit' = toVisit \ {n}
           /\ exit' = IF toVisit' = {} THEN "0" ELSE exit
        \/ /\ n \notin processed /\ dir' = [dir EXCEPT ![n] = "absent"] /\ toVisit' = toVisit \ {n}
           /\ exit' = IF toVisit' = {} THEN "0" ELSE exit
        \/ n \notin processed /\ dir' = dir /\ toVisit' = {} /\ exit' = "1"
        BY <1>4 DEF VisitEntry
  <2>3. GenTyped'
        BY <1>a, <2>1, <2>2 DEF GenTyped, Content
  <2>4. \A m \in Names : m # n \/ dir' = dir => dir'[m] = dir[m]
        BY <1>a, <2>2 DEF GenTyped
  <2>5. HeldBeforeEnd' = HeldBeforeEnd /\ UNCHANGED <<received, failed>>
        BY <1>4 DEF VisitEntry, vars, HeldBeforeEnd
  <2>6. Recorded'
        BY <1>a, <1>b, <2>1, <2>2, <2>4, <2>5 DEF Recorded, GenTyped
  <2>7. main = "returned" /\ errors = <<>>
        BY <1>a, <2>1 DEF Sweeping
  <2>8. \A m \in Names \ processed : dir[m] = "absent" \/ m \in toVisit
        BY <1>a, <2>1 DEF Sweeping
  <2>9. Sweeping'
    <3>1. CASE toVisit' = {} /\ exit' = "1"
          BY <3>1 DEF Sweeping
    <3>2. CASE toVisit' = toVisit \ {n} /\ exit' = IF toVisit' = {} THEN "0" ELSE exit
      <4>1. n \in processed \/ dir'[n] = "absent"
            BY <1>a, <2>1, <2>2, <3>2 DEF GenTyped
      <4>2. \A m \in Names \ processed : dir'[m] = "absent" \/ m \in toVisit'
            BY <2>4, <2>8, <3>2, <4>1
      <4> QED BY <2>1, <2>7, <3>2, <4>2 DEF Sweeping
    <3> QED BY <2>2, <3>1, <3>2
  <2> QED BY <2>1, <2>3, <2>6, <2>9 DEF GenInv
<1>5. CASE Killed
  <2>1. /\ IInv' /\ UNCHANGED <<main, errors, processed, toVisit>>
        /\ exit = "running" /\ exit' = "killed"
        BY <1>2, <1>5 DEF Killed, vars, mainVars, errVars
  <2>2. PICK torn \in SUBSET {job[w] : w \in {v \in Workers : worker[v] = "running"}} :
          dir' = [n \in Names |-> IF n \in torn /\ dir[n] # "digest" THEN "partial" ELSE dir[n]]
        BY <1>5 DEF Killed
  <2>3. GenTyped'
        BY <1>a, <2>1, <2>2 DEF GenTyped, Content
  <2>4. HeldBeforeEnd' = HeldBeforeEnd /\ UNCHANGED <<received, failed>>
        BY <1>5 DEF Killed, vars, HeldBeforeEnd
  <2>5. Recorded'
        BY <1>a, <1>b, <2>1, <2>2, <2>4 DEF Recorded, GenTyped
  <2>6. toVisit # {} => dir' = dir
    <3>1. SUFFICES ASSUME toVisit # {} PROVE dir' = dir
          OBVIOUS
    <3>2. WorkersLeft
          BY <3>1, <1>a, AllRecorded DEF Sweeping
    <3>3. torn = {}
          BY <3>2 DEF WorkersLeft
    <3> QED BY <2>2, <3>3, <1>a DEF GenTyped
  <2>7. Sweeping'
        BY <1>a, <2>1, <2>6 DEF Sweeping
  <2> QED BY <2>1, <2>3, <2>5, <2>7 DEF GenInv
<1>6. CASE RunAgain
  <2>1. Init'
        BY <1>6 DEF RunAgain, Init
  <2>2. Init' => IInv'
        BY InvariantInit, PTL
  <2>3. /\ processed' = {} /\ toVisit' = {} /\ exit' = "running" /\ dir' = dir /\ received' = 0
        BY <1>6 DEF RunAgain
  <2>4. GenTyped'
        BY <1>a, <2>3 DEF GenTyped
  <2>5. Recorded'
        BY <2>3 DEF Recorded
  <2>6. Sweeping'
        BY <2>3 DEF Sweeping
  <2> QED BY <2>1, <2>2, <2>4, <2>5, <2>6 DEF GenInv
<1>7. CASE UNCHANGED allVars
  <2>1. UNCHANGED <<vars, dir, processed, toVisit, exit>>
        BY <1>7 DEF allVars, genVars
  <2>2. IInv' /\ Recorded'
        BY <1>2, <2>1
  <2>3. GenTyped'
        BY <1>a, <2>1 DEF GenTyped
  <2>4. Sweeping'
        BY <1>a, <2>1 DEF Sweeping, vars, mainVars, errVars
  <2> QED BY <2>2, <2>3, <2>4 DEF GenInv
<1> QED BY <1>1, <1>3, <1>4, <1>5, <1>6, <1>7 DEF GenNext, Exited

\* Throughout any number of runs of gen-manifests, the queue's invariant holds, what a run
\* has recorded are the files its jobs wrote, and once the deletion of stale checksums has begun
\* every file that no job recorded is gone or still to be visited.
THEOREM GenInvariant == GenSpec => []GenInv
<1>1. GenInv /\ [GenNext]_allVars => GenInv'
      BY GenStep
<1> QED BY GenInit_Inv, <1>1, PTL DEF GenSpec

-----------------------------------------------------------------------------

\* A run that exits with status 0 leaves the directory that the configuration
\* generates, whatever failed, killed and repeated runs came before it.
THEOREM Exact == GenSpec => []ExitZeroMeansExact
<1>1. GenInv => ExitZeroMeansExact
  <2> SUFFICES ASSUME GenInv, exit = "0", NEW n \in Names
               PROVE  dir[n] = IF n \in Jobs THEN "digest" ELSE "absent"
      BY DEF ExitZeroMeansExact
  <2>1. main = "returned" /\ errors = <<>> /\ toVisit = {}
        BY DEF GenInv, Sweeping
  <2>2. processed = Jobs
        BY <2>1, AllRecorded DEF GenInv
  <2> QED BY <2>1, <2>2 DEF GenInv, Sweeping, Recorded
<1> QED BY GenInvariant, <1>1, PTL

\* Only a run that recorded every job removes a file, and only a stale one.
THEOREM Careful == GenSpec => OnlyStaleRemoved
<1> DEFINE A == \A n \in Names : (dir[n] # "absent" /\ dir'[n] = "absent") =>
                   n \in Stale /\ failed = {} /\ processed = Jobs
<1>1. GenInv /\ [GenNext]_allVars => [A]_allVars
  <2> SUFFICES ASSUME GenInv, GenNext, NEW n \in Names, dir[n] # "absent", dir'[n] = "absent"
               PROVE  n \in Stale /\ failed = {} /\ processed = Jobs
      OBVIOUS
  <2>a. IInv /\ GenTyped /\ Recorded /\ Sweeping
        BY DEF GenInv
  <2>1. CASE QueueNext
    <3>1. QueueStep => dir' = dir
          BY DEF QueueStep
    <3>2. PICK w \in Workers : RunJob(w)
          BY <2>1, <3>1 DEF QueueNext
    <3>3. dir' = [dir EXCEPT ![job[w]] = "digest"] \/ dir' = dir
            \/ dir' = [dir EXCEPT ![job[w]] = "partial"]
          BY <3>2 DEF RunJob, RecordChecksum, FailChecksum
    <3>4. dir'[n] # "absent"
          BY <3>3, <2>a DEF GenTyped
    <3> QED BY <3>4
  <2>2. ASSUME NEW m \in Names, VisitEntry(m) PROVE n \in Stale /\ failed = {} /\ processed = Jobs
    <3>1. n = m /\ m \notin processed /\ toVisit # {}
          BY <2>2, <2>a DEF VisitEntry, GenTyped
    <3>2. failed = {} /\ processed = Jobs
          BY <3>1, <2>a, AllRecorded DEF Sweeping
    <3> QED BY <3>1, <3>2 DEF Names
  <2>3. CASE Killed
    <3>1. dir'[n] # "absent"
          BY <2>3, <2>a DEF Killed, GenTyped
    <3> QED BY <3>1
  <2>4. CASE AfterWait \/ RunAgain \/ Exited
    <3>1. dir' = dir
          BY <2>4 DEF AfterWait, RunAgain, Exited, allVars, genVars
    <3> QED BY <3>1
  <2> QED BY <2>1, <2>2, <2>3, <2>4 DEF GenNext
<1> QED BY GenInvariant, <1>1, PTL DEF GenSpec, OnlyStaleRemoved
=============================================================================
