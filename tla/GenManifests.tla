---------------------------- MODULE GenManifests ----------------------------
(***************************************************************************)
(* gen-manifests --checksums-only: the jobs that the worker queue runs     *)
(* each write one checksum file (checksums.go), and main, once the queue   *)
(* returned without an error, deletes the files of the directory that no   *)
(* job of this run produced.  The process may be killed at any point and   *)
(* the command run again over the directory it left.                       *)
(*                                                                         *)
(* The checksum file of job j is called j; Stale are names no job has.     *)
(***************************************************************************)
EXTENDS WorkerQueue

CONSTANTS Stale,     \* names of files that no job of this run writes
          MaxRuns    \* bound: how often the command is run

ASSUME GenManifestsAssumption ==
    /\ IsFiniteSet(Stale) /\ Stale \cap Jobs = {}
    /\ MaxRuns \in Nat \ {0}
    /\ Workers # {}      \* -workers defaults to NumCPU + 1

VARIABLES dir,        \* what each checksum file holds
          processed,  \* Checksums.processed: the names of the checksums recorded
          toVisit,    \* directory entries deleteStaleChecksums has still to visit
          exit,       \* "running", then the exit status, or "killed"
          runs        \* runs of the command so far

genVars == <<dir, processed, toVisit, exit, runs>>
allVars == <<vars, genVars>>

Names == Jobs \cup Stale

\* A file is absent, holds the digest its job computes, another digest, or
\* what a write that failed half way left.
Content == {"absent", "digest", "other", "partial"}

GenInit ==
    /\ Init
    /\ dir \in [Names -> {"absent", "digest", "other"}]
    /\ processed = {} /\ toVisit = {} /\ exit = "running" /\ runs = 1

-----------------------------------------------------------------------------

\* Mutant: an existing file is taken to be up to date.
RecordChecksum_OnlyIfMissing(j) ==
    /\ dir' = [dir EXCEPT ![j] = IF @ = "absent" THEN "digest" ELSE @]
    /\ processed' = processed \cup {j}

\* recordManifestChecksum after writeChecksumFileIfChanged: the file is
\* rewritten unless it already has the digest; only then is it recorded.
RecordChecksum(j) ==
    /\ dir' = [dir EXCEPT ![j] = "digest"]
    /\ processed' = processed \cup {j}

\* The job fails before it reaches its checksum file, or in os.WriteFile.
FailChecksum(j) ==
    /\ \/ UNCHANGED dir
       \/ dir[j] # "digest" /\ dir' = [dir EXCEPT ![j] = "partial"]
    /\ UNCHANGED processed

\* A worker runs a job body: the queue's step and the job's effect together.
RunJob(w) ==
    \/ Run(w, TRUE) /\ RecordChecksum(job[w])
    \/ Run(w, FALSE) /\ FailChecksum(job[w])

\* Every other step of the queue leaves the checksums alone.
QueueStep ==
    /\ \/ Main \/ Printer \/ Collector
       \/ \E w \in Workers :
            Receive(w) \/ Leave(w) \/ SendStarting(w) \/ SendFinished(w) \/ ReportError(w)
    /\ UNCHANGED <<dir, processed>>

QueueNext ==
    /\ exit = "running"
    /\ QueueStep \/ \E w \in Workers : RunJob(w)
    /\ UNCHANGED <<toVisit, exit, runs>>

\* Mutant: stale files are deleted after a failed run too.
AfterWait_IgnoreErrors ==
    /\ main = "returned" /\ exit = "running" /\ toVisit = {}
    /\ toVisit' = {n \in Names : dir[n] # "absent"}
    /\ exit' = IF toVisit' = {} THEN "0" ELSE "running"
    /\ UNCHANGED <<vars, dir, processed, runs>>

\* main: len(errs) > 0 ends the run; otherwise deleteStaleChecksums reads the
\* directory, which may fail.
AfterWait ==
    /\ main = "returned" /\ exit = "running" /\ toVisit = {}
    /\ \/ errors # <<>> /\ exit' = "1" /\ UNCHANGED toVisit
       \/ errors = <<>> /\ exit' = "1" /\ UNCHANGED toVisit
       \/ /\ errors = <<>>
          /\ toVisit' = {n \in Names : dir[n] # "absent"}
          /\ exit' = IF toVisit' = {} THEN "0" ELSE "running"
    /\ UNCHANGED <<vars, dir, processed, runs>>

\* deleteStaleChecksums: skip a processed name, remove any other; the first
\* Remove that fails ends it.
VisitEntry(n) ==
    /\ exit = "running" /\ n \in toVisit
    /\ \/ /\ n \in processed /\ UNCHANGED dir
          /\ toVisit' = toVisit \ {n}
          /\ exit' = IF toVisit' = {} THEN "0" ELSE exit
       \/ /\ n \notin processed /\ dir' = [dir EXCEPT ![n] = "absent"]
          /\ toVisit' = toVisit \ {n}
          /\ exit' = IF toVisit' = {} THEN "0" ELSE exit
       \/ /\ n \notin processed /\ UNCHANGED dir
          /\ toVisit' = {} /\ exit' = "1"
    /\ UNCHANGED <<vars, processed, runs>>

\* The process is killed: only the directory survives, and a file that a
\* worker was writing may be left half written.
Killed ==
    /\ exit = "running" /\ exit' = "killed"
    /\ \E torn \in SUBSET {job[w] : w \in {v \in Workers : worker[v] = "running"}} :
         dir' = [n \in Names |-> IF n \in torn /\ dir[n] # "digest" THEN "partial" ELSE dir[n]]
    /\ UNCHANGED <<vars, processed, toVisit, runs>>

\* The command is run again on what the last run left.
RunAgain ==
    /\ exit # "running" /\ runs < MaxRuns
    /\ runs' = runs + 1 /\ exit' = "running"
    /\ main' = "submit" /\ sent' = 0 /\ jobsClosed' = FALSE /\ received' = 0
    /\ worker' = [w \in Workers |-> "receive"] /\ job' = [w \in Workers |-> 0]
    /\ failed' = {}
    /\ msgQueue' = <<>> /\ msgClosed' = FALSE /\ printer' = "printing" /\ printed' = <<>>
    /\ errQueue' = <<>> /\ errClosed' = FALSE /\ collector' = "collecting" /\ errors' = <<>>
    /\ processed' = {} /\ toVisit' = {}
    /\ UNCHANGED dir

Exited == exit # "running" /\ runs = MaxRuns /\ UNCHANGED allVars

GenNext ==
    \/ QueueNext \/ AfterWait \/ (\E n \in Names : VisitEntry(n))
    \/ Killed \/ RunAgain \/ Exited

GenSpec == GenInit /\ [][GenNext]_allVars

-----------------------------------------------------------------------------

\* Exit status 0 means the directory is exactly what this configuration
\* generates, whatever earlier failed or killed runs left in it: every job's
\* digest, no partial or outdated file, nothing stale.
ExitZeroMeansExact ==
    exit = "0" => \A n \in Names : dir[n] = IF n \in Jobs THEN "digest" ELSE "absent"

\* A checksum file is only ever removed when it is stale and the run that
\* removes it recorded all its jobs: a failing job can never cost the
\* directory another file.
OnlyStaleRemoved ==
    [][\A n \in Names : (dir[n] # "absent" /\ dir'[n] = "absent") =>
          n \in Stale /\ failed = {} /\ processed = Jobs]_allVars
============================================================================
