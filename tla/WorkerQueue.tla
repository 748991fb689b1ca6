---------------------------- MODULE WorkerQueue ----------------------------
(***************************************************************************)
(* The worker pool of cmd/gen-manifests (workerqueue.go) as main.go drives *)
(* it.  One main goroutine submits every manifest job and then waits; each *)
(* of the workers takes a job from jobQueue, sends its two messages on     *)
(* msgQueue and its error, if any, on errQueue; a printer and an error     *)
(* collector drain those two channels until main closes them.              *)
(*                                                                         *)
(* main submits the slice of jobs in order, and jobQueue is a FIFO channel,*)
(* so its contents are the jobs received+1 .. sent: two counters.          *)
(* The activeWorkers counter feeds one progress line only and is left out. *)
(***************************************************************************)
EXTENDS Naturals, Sequences, FiniteSets

CONSTANTS NJobs,     \* number of jobs main collected
          Workers    \* the worker goroutines that start() creates

ASSUME WorkerQueueAssumption == NJobs \in Nat /\ IsFiniteSet(Workers)

VARIABLES main,        \* where the main goroutine is, from submitJob to wait's return
          sent,        \* jobs pushed on jobQueue
          received,    \* jobs taken from jobQueue
          jobsClosed,  \* jobQueue is closed
          worker,      \* where each worker is in its loop
          job,         \* the job each worker holds (0: none)
          failed,      \* the jobs that ended with an error
          msgQueue, msgClosed, printer, printed,
          errQueue, errClosed, collector, errors

mainVars == <<main, sent, jobsClosed>>
msgVars == <<msgQueue, msgClosed, printer, printed>>
errVars == <<errQueue, errClosed, collector, errors>>
vars == <<mainVars, received, worker, job, failed, msgVars, errVars>>

Jobs == 1 .. NJobs
NWorkers == Cardinality(Workers)

\* The two messages of a job: "Starting job ..." and "Finished job ...".
Messages == Jobs \X {"starting", "finished"}

-----------------------------------------------------------------------------

\* newWorkerQueue followed by start: channels empty, every goroutine in its loop.
Init ==
    /\ main = "submit" /\ sent = 0 /\ jobsClosed = FALSE
    /\ received = 0
    /\ worker = [w \in Workers |-> "receive"]
    /\ job = [w \in Workers |-> 0]
    /\ failed = {}
    /\ msgQueue = <<>> /\ msgClosed = FALSE /\ printer = "printing" /\ printed = <<>>
    /\ errQueue = <<>> /\ errClosed = FALSE /\ collector = "collecting" /\ errors = <<>>

\* submitJob: a send on jobQueue, whose buffer holds NJobs jobs.
SubmitJob ==
    /\ main = "submit" /\ sent < NJobs
    /\ sent - received < NJobs
    /\ sent' = sent + 1
    /\ UNCHANGED <<main, jobsClosed, received, worker, job, failed, msgVars, errVars>>

\* wait: close(jobQueue).
CloseJobs ==
    /\ main = "submit" /\ sent = NJobs
    /\ main' = "waitWorkers" /\ jobsClosed' = TRUE
    /\ UNCHANGED <<sent, received, worker, job, failed, msgVars, errVars>>

\* What workerWG.Wait waits for.
WorkersLeft == \A w \in Workers : worker[w] = "left"

\* Mutant: closes msgQueue without workerWG.Wait.
CloseMessages_NoWorkerWait ==
    /\ main = "waitWorkers"
    /\ main' = "closeErrors" /\ msgClosed' = TRUE
    /\ UNCHANGED <<sent, jobsClosed, received, worker, job, failed,
                   msgQueue, printer, printed, errVars>>

\* wait: workerWG.Wait, then close(msgQueue).
CloseMessages ==
    /\ main = "waitWorkers" /\ WorkersLeft
    /\ main' = "closeErrors" /\ msgClosed' = TRUE
    /\ UNCHANGED <<sent, jobsClosed, received, worker, job, failed,
                   msgQueue, printer, printed, errVars>>

\* Mutant: wait() forgets close(errQueue).
CloseErrors_Forgotten ==
    /\ main = "closeErrors"
    /\ main' = "waitUtils"
    /\ UNCHANGED <<sent, jobsClosed, received, worker, job, failed, msgVars, errVars>>

\* wait: close(errQueue).
CloseErrors ==
    /\ main = "closeErrors"
    /\ main' = "waitUtils" /\ errClosed' = TRUE
    /\ UNCHANGED <<sent, jobsClosed, received, worker, job, failed, msgVars,
                   errQueue, collector, errors>>

\* Mutant: wait() returns without utilWG.Wait.
Return_NoUtilWait ==
    /\ main = "waitUtils"
    /\ main' = "returned"
    /\ UNCHANGED <<sent, jobsClosed, received, worker, job, failed, msgVars, errVars>>

\* wait: utilWG.Wait, then return wq.errors.
Return ==
    /\ main = "waitUtils" /\ printer = "left" /\ collector = "left"
    /\ main' = "returned"
    /\ UNCHANGED <<sent, jobsClosed, received, worker, job, failed, msgVars, errVars>>

-----------------------------------------------------------------------------

\* Mutant: two workers can be handed the same job.
Receive_NotRemoved(w) ==
    /\ worker[w] = "receive" /\ received < sent
    /\ received' = IF received + 1 < sent THEN received ELSE received + 1
    /\ job' = [job EXCEPT ![w] = received + 1]
    /\ worker' = [worker EXCEPT ![w] = "starting"]
    /\ UNCHANGED <<mainVars, failed, msgVars, errVars>>

\* startWorker: the range loop receives the next job.
Receive(w) ==
    /\ worker[w] = "receive" /\ received < sent
    /\ received' = received + 1
    /\ job' = [job EXCEPT ![w] = received + 1]
    /\ worker' = [worker EXCEPT ![w] = "starting"]
    /\ UNCHANGED <<mainVars, failed, msgVars, errVars>>

\* startWorker: the channel is closed and drained, the deferred workerWG.Done runs.
Leave(w) ==
    /\ worker[w] = "receive" /\ jobsClosed /\ received = sent
    /\ worker' = [worker EXCEPT ![w] = "left"]
    /\ UNCHANGED <<mainVars, received, job, failed, msgVars, errVars>>

\* A send on msgQueue (buffer of NWorkers): blocks while it is full, and a
\* send on a closed channel would panic.
SendMessage(m) ==
    /\ ~ msgClosed
    /\ Len(msgQueue) < NWorkers
    /\ msgQueue' = Append(msgQueue, m)
    /\ UNCHANGED <<msgClosed, printer, printed>>

\* Mutant: a select with a default drops the message.
SendStarting_DropWhenFull(w) ==
    /\ worker[w] = "starting"
    /\ SendMessage(<<job[w], "starting">>) \/ (Len(msgQueue) = NWorkers /\ UNCHANGED msgVars)
    /\ worker' = [worker EXCEPT ![w] = "running"]
    /\ UNCHANGED <<mainVars, received, job, failed, errVars>>

\* The job's first statement: msgq <- "Starting job".
SendStarting(w) ==
    /\ worker[w] = "starting"
    /\ SendMessage(<<job[w], "starting">>)
    /\ worker' = [worker EXCEPT ![w] = "running"]
    /\ UNCHANGED <<mainVars, received, job, failed, errVars>>

\* The body of the job: it succeeds, returns an error, or panics, which the
\* deferred recover turns into an error.
Run(w, ok) ==
    /\ worker[w] = "running"
    /\ failed' = IF ok THEN failed ELSE failed \cup {job[w]}
    /\ worker' = [worker EXCEPT ![w] = "finishing"]
    /\ UNCHANGED <<mainVars, received, job, msgVars, errVars>>

\* The job's outermost deferred function: msgq <- "Finished job".
SendFinished(w) ==
    /\ worker[w] = "finishing"
    /\ SendMessage(<<job[w], "finished">>)
    /\ worker' = [worker EXCEPT ![w] = IF job[w] \in failed THEN "reporting" ELSE "receive"]
    /\ job' = [job EXCEPT ![w] = IF job[w] \in failed THEN @ ELSE 0]
    /\ UNCHANGED <<mainVars, received, failed, errVars>>

\* Mutant: a select with a default drops the error.
ReportError_DropWhenFull(w) ==
    /\ worker[w] = "reporting"
    /\ ~ errClosed
    /\ errQueue' = IF Len(errQueue) < NWorkers THEN Append(errQueue, job[w]) ELSE errQueue
    /\ worker' = [worker EXCEPT ![w] = "receive"]
    /\ job' = [job EXCEPT ![w] = 0]
    /\ UNCHANGED <<mainVars, received, failed, msgVars, errClosed, collector, errors>>

\* startWorker: errQueue <- err (buffer of NWorkers).
ReportError(w) ==
    /\ worker[w] = "reporting"
    /\ ~ errClosed
    /\ Len(errQueue) < NWorkers
    /\ errQueue' = Append(errQueue, job[w])
    /\ worker' = [worker EXCEPT ![w] = "receive"]
    /\ job' = [job EXCEPT ![w] = 0]
    /\ UNCHANGED <<mainVars, received, failed, msgVars, errClosed, collector, errors>>

-----------------------------------------------------------------------------

\* startMessagePrinter: print the next message; leave when the channel is
\* closed and drained (utilWG.Done).
PrintMessage ==
    /\ printer = "printing" /\ msgQueue # <<>>
    /\ printed' = Append(printed, Head(msgQueue))
    /\ msgQueue' = Tail(msgQueue)
    /\ UNCHANGED <<mainVars, received, worker, job, failed, msgClosed, printer, errVars>>

PrinterLeaves ==
    /\ printer = "printing" /\ msgClosed /\ msgQueue = <<>>
    /\ printer' = "left"
    /\ UNCHANGED <<mainVars, received, worker, job, failed, msgQueue, msgClosed, printed, errVars>>

\* startErrorCollector: the same for errors, which only it appends to.
CollectError ==
    /\ collector = "collecting" /\ errQueue # <<>>
    /\ errors' = Append(errors, Head(errQueue))
    /\ errQueue' = Tail(errQueue)
    /\ UNCHANGED <<mainVars, received, worker, job, failed, msgVars, errClosed, collector>>

CollectorLeaves ==
    /\ collector = "collecting" /\ errClosed /\ errQueue = <<>>
    /\ collector' = "left"
    /\ UNCHANGED <<mainVars, received, worker, job, failed, msgVars, errQueue, errClosed, errors>>

Main == SubmitJob \/ CloseJobs \/ CloseMessages \/ CloseErrors \/ Return
Worker(w) ==
    \/ Receive(w) \/ Leave(w) \/ SendStarting(w) \/ SendFinished(w) \/ ReportError(w)
    \/ \E ok \in BOOLEAN : Run(w, ok)
Printer == PrintMessage \/ PrinterLeaves
Collector == CollectError \/ CollectorLeaves

\* wait has returned: main goes on alone, nothing of the queue is left to run.
Returned == main = "returned" /\ UNCHANGED vars

Next == Main \/ (\E w \in Workers : Worker(w)) \/ Printer \/ Collector \/ Returned

\* The Go scheduler runs every goroutine that can run, and every manifest job
\* ends: its network calls have timeouts.
Fairness ==
    /\ WF_vars(Main) /\ WF_vars(Printer) /\ WF_vars(Collector)
    /\ \A w \in Workers : WF_vars(Worker(w))

Spec == Init /\ [][Next]_vars
FairSpec == Spec /\ Fairness

-----------------------------------------------------------------------------

\* Type invariant: positions of the goroutines, counters and channel contents.
TypeOK ==
    /\ main \in {"submit", "waitWorkers", "closeErrors", "waitUtils", "returned"}
    /\ sent \in 0 .. NJobs /\ received \in 0 .. NJobs
    /\ worker \in [Workers -> {"receive", "starting", "running", "finishing", "reporting", "left"}]
    /\ job \in [Workers -> 0 .. NJobs]
    /\ failed \subseteq Jobs
    /\ msgQueue \in Seq(Messages) /\ printed \in Seq(Messages)
    /\ errQueue \in Seq(Jobs) /\ errors \in Seq(Jobs)
    /\ printer \in {"printing", "left"} /\ collector \in {"collecting", "left"}
    /\ jobsClosed \in BOOLEAN /\ msgClosed \in BOOLEAN /\ errClosed \in BOOLEAN

Values(s) == {s[i] : i \in DOMAIN s}
Distinct(s) == \A i, k \in DOMAIN s : s[i] = s[k] => i = k

\* Jobs whose error has not been handed to errQueue yet.
Unreported == {job[w] : w \in {v \in Workers : worker[v] \in {"finishing", "reporting"}}}

\* What went through each channel so far, in order.
ErrorLog == errors \o errQueue
MessageLog == printed \o msgQueue

\* The errors collected and those still in the channel are, once each, those
\* of the failed jobs that no worker still has to report: an error is neither
\* lost between worker and collector nor delivered twice.
ErrorsOnce ==
    /\ Distinct(ErrorLog)
    /\ Values(ErrorLog) = failed \ Unreported

\* Channels are closed under nobody's feet: once main has closed msgQueue or
\* errQueue no worker is left that could send on it (a send would panic).
NoSendAfterClose ==
    (msgClosed \/ errClosed) => WorkersLeft

\* wait's contract: when it returns, every job ran, no message is missing
\* from the output and the returned slice holds the error of every failed job.
ReturnsEverything ==
    (main = "returned" /\ Workers # {}) =>
        /\ received = NJobs
        /\ Values(printed) = Messages
        /\ Distinct(errors) /\ Values(errors) = failed

\* A reader of the output sees a job start before it finishes, whatever the
\* interleaving of the workers on msgQueue.
StartBeforeFinish ==
    \A k \in DOMAIN printed :
        printed[k][2] = "finished" => \E i \in 1 .. k - 1 : printed[i] = <<printed[k][1], "starting">>

\* wait returns: no goroutine of the pool ever waits for good on another one.
Termination == <>(main = "returned")

\* The queue implements JobPool.
HeldBeforeEnd == {job[w] : w \in {v \in Workers : worker[v] \in {"starting", "running"}}}
Pool == INSTANCE JobPool WITH
    NWorkers <- NWorkers,
    running <- HeldBeforeEnd,
    done <- (1 .. received) \ HeldBeforeEnd,
    returned <- main = "returned",
    result <- IF main = "returned" THEN Values(errors) ELSE {}
PoolSpec == Pool!Spec
PoolSafety == Pool!Safety
============================================================================
