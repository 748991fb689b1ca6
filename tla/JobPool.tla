------------------------------ MODULE JobPool ------------------------------
(***************************************************************************)
(* What cmd/gen-manifests expects of its worker queue: every job is run    *)
(* once, at most NWorkers at a time, and when the queue returns it returns *)
(* the errors of exactly the jobs that failed.                             *)
(***************************************************************************)
EXTENDS Naturals, FiniteSets

CONSTANTS NJobs, NWorkers

VARIABLES running,   \* jobs a worker has taken and not finished
          done,      \* jobs that ended
          failed,    \* jobs that ended with an error
          returned,  \* wait() has returned
          result     \* the failed jobs it returned

vars == <<running, done, failed, returned, result>>

Jobs == 1 .. NJobs

Init == running = {} /\ done = {} /\ failed = {} /\ returned = FALSE /\ result = {}

Start(j) ==
    /\ j \notin running \cup done
    /\ Cardinality(running) < NWorkers
    /\ running' = running \cup {j}
    /\ UNCHANGED <<done, failed, returned, result>>

Finish(j, ok) ==
    /\ j \in running
    /\ running' = running \ {j}
    /\ done' = done \cup {j}
    /\ failed' = IF ok THEN failed ELSE failed \cup {j}
    /\ UNCHANGED <<returned, result>>

Return ==
    /\ ~ returned
    /\ done = Jobs
    /\ returned' = TRUE
    /\ result' = failed
    /\ UNCHANGED <<running, done, failed>>

Next ==
    \/ \E j \in Jobs : Start(j) \/ \E ok \in BOOLEAN : Finish(j, ok)
    \/ Return

Safety == Init /\ [][Next]_vars
Spec == Safety /\ WF_vars(Next)
=============================================================================
