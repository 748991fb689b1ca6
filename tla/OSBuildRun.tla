------------------------------ MODULE OSBuildRun ------------------------------
(***************************************************************************)
(* runOSBuildWithProgress of pkg/progress/command.go: osbuild runs as a    *)
(* child that reports its status on one pipe and its output on another,    *)
(* which os/exec copies in a goroutine of its own; the caller reads the    *)
(* status pipe to its end and then waits for the child.                    *)
(***************************************************************************)
EXTENDS Naturals, Sequences

CONSTANTS PipeCap,     \* lines a pipe holds
          MaxLines     \* bound: lines osbuild writes on each

ASSUME OSBuildRunAssumption == PipeCap \in Nat \ {0} /\ MaxLines \in Nat

VARIABLES run,         \* "idle", "reading", "waiting", then "ok", "failed",
                       \* "unparsable" or "notStarted"
          statusPipe,  \* status lines in the pipe, "bad" ones do not parse
          writers,     \* who has the pipe's write end open
          reported,    \* status lines osbuild wrote
          forwarded,   \* status lines shown and kept for the build log
          child, exitCode, interrupted,
          plan,        \* how many lines osbuild will write on each
          output,      \* output lines in the other pipe
          written, copied, copier

parentVars == <<run, forwarded>>
statusVars == <<statusPipe, writers, reported>>
outputVars == <<output, written, copied, copier>>
childVars == <<child, exitCode, interrupted, plan>>
runVars == <<parentVars, statusVars, outputVars, childVars>>

RunInit ==
    /\ run = "idle" /\ forwarded = 0
    /\ statusPipe = <<>> /\ writers = {} /\ reported = 0
    /\ output = 0 /\ written = 0 /\ copied = 0 /\ copier = "none"
    /\ child = "none" /\ exitCode = "none" /\ interrupted = FALSE
    /\ plan \in [status : 0 .. MaxLines, output : 0 .. MaxLines]

-----------------------------------------------------------------------------

\* Mutant: our end of the pipe for writing stays open.
StartOSBuild_KeepWriteEnd ==
    /\ run = "idle"
    /\ run' = "reading" /\ child' = "running" /\ copier' = "copying"
    /\ writers' = {"parent", "child"}
    /\ UNCHANGED <<forwarded, statusPipe, reported, output, written, copied, exitCode, interrupted, plan>>

\* os.Pipe or cmd.Start may fail; our write end is closed right after Start.
StartOSBuild ==
    /\ run = "idle"
    /\ \/ run' = "notStarted" /\ UNCHANGED <<writers, child, copier>>
       \/ /\ run' = "reading" /\ child' = "running" /\ copier' = "copying"
          /\ writers' = {"child"}
    /\ UNCHANGED <<forwarded, statusPipe, reported, output, written, copied, exitCode, interrupted, plan>>

\* One Status: progress and messages go to the bar and the log.
ReadStatus ==
    /\ run = "reading" /\ statusPipe # <<>> /\ Head(statusPipe) = "good"
    /\ statusPipe' = Tail(statusPipe)
    /\ forwarded' = forwarded + 1
    /\ UNCHANGED <<run, writers, reported, outputVars, childVars>>

\* Mutant: the error is returned without the interrupt.
StatusUnparsable_NoSignal ==
    /\ run = "reading" /\ statusPipe # <<>> /\ Head(statusPipe) = "bad"
    /\ run' = "unparsable" /\ statusPipe' = <<>>
    /\ UNCHANGED <<forwarded, writers, reported, outputVars, childVars>>

\* A line that does not parse ends the reading: the deferred functions
\* interrupt osbuild, which nobody waits for, and close the pipe.
StatusUnparsable ==
    /\ run = "reading" /\ statusPipe # <<>> /\ Head(statusPipe) = "bad"
    /\ run' = "unparsable" /\ statusPipe' = <<>>
    /\ interrupted' = TRUE
    /\ UNCHANGED <<forwarded, writers, reported, outputVars, child, exitCode, plan>>

\* Mutant: reading ends when osbuild has ended.
EndOfStatus_ChildExited ==
    /\ run = "reading" /\ child = "exited"
    /\ run' = "waiting"
    /\ UNCHANGED <<forwarded, statusVars, outputVars, childVars>>

\* The pipe is empty and no write end is open.
EndOfStatus ==
    /\ run = "reading" /\ statusPipe = <<>> /\ writers = {}
    /\ run' = "waiting"
    /\ UNCHANGED <<forwarded, statusVars, outputVars, childVars>>

\* cmd.Wait: the child has exited and its output has been copied.
WaitReturns ==
    /\ run = "waiting" /\ child = "exited" /\ copier = "left"
    /\ run' = IF exitCode = "0" THEN "ok" ELSE "failed"
    /\ UNCHANGED <<forwarded, statusVars, outputVars, childVars>>

RunOSBuild == StartOSBuild \/ ReadStatus \/ StatusUnparsable \/ EndOfStatus \/ WaitReturns

-----------------------------------------------------------------------------

\* osbuild writes a status line: it blocks while the pipe is full, and breaks
\* when nobody reads it any more.
WriteStatus(line) ==
    /\ child = "running" /\ reported < plan.status
    /\ run # "unparsable" /\ Len(statusPipe) < PipeCap
    /\ statusPipe' = Append(statusPipe, line)
    /\ reported' = reported + 1
    /\ UNCHANGED <<parentVars, writers, outputVars, childVars>>

WriteOutput ==
    /\ child = "running" /\ written < plan.output
    /\ output < PipeCap
    /\ output' = output + 1 /\ written' = written + 1
    /\ UNCHANGED <<parentVars, statusVars, copied, copier, childVars>>

Exit(code) ==
    /\ child = "running"
    /\ child' = "exited" /\ exitCode' = code
    /\ writers' = writers \ {"child"}
    /\ UNCHANGED <<parentVars, statusPipe, reported, outputVars, interrupted, plan>>

\* It ends when it has written everything, was interrupted or has a pipe break.
Finished ==
    \/ reported = plan.status /\ written = plan.output
    \/ interrupted \/ run = "unparsable"

OSBuild ==
    \/ WriteOutput \/ \E line \in {"good", "bad"} : WriteStatus(line)
    \/ Finished /\ \E code \in {"0", "1"} : Exit(code)

\* It may crash, or be killed, at any time.
Crash == Exit("1")

\* os/exec's goroutine for stdout and stderr, which are one pipe.
CopyOutput ==
    /\ copier = "copying"
    /\ IF output > 0 THEN output' = output - 1 /\ copied' = copied + 1 /\ UNCHANGED copier
       ELSE child = "exited" /\ copier' = "left" /\ UNCHANGED <<output, copied>>
    /\ UNCHANGED <<parentVars, statusVars, written, childVars>>

-----------------------------------------------------------------------------

RunTypeOK ==
    /\ run \in {"idle", "reading", "waiting", "ok", "failed", "unparsable", "notStarted"}
    /\ statusPipe \in Seq({"good", "bad"}) /\ Len(statusPipe) <= PipeCap
    /\ writers \subseteq {"parent", "child"}
    /\ reported \in 0 .. MaxLines /\ forwarded \in 0 .. reported
    /\ output \in 0 .. PipeCap /\ copied \in 0 .. written /\ written \in 0 .. MaxLines
    /\ copier \in {"none", "copying", "left"} /\ child \in {"none", "running", "exited"}
    /\ exitCode \in {"none", "0", "1"} /\ interrupted \in BOOLEAN
    /\ plan \in [status : 0 .. MaxLines, output : 0 .. MaxLines]

\* However reading, copying and osbuild's end interleave: when the call ends
\* with osbuild's own result, all that osbuild reported was forwarded, the
\* output that goes into the error is complete, and success is osbuild's.
NothingLost ==
    run \in {"ok", "failed"} =>
        /\ forwarded = reported /\ copied = written
        /\ run = "ok" <=> exitCode = "0"

\* "We need to exit here (and kill osbuild in the defer)": whatever way the call
\* ends, osbuild has ended or was told to.
ChildNotForgotten ==
    run \in {"ok", "failed", "unparsable", "notStarted"} =>
        child # "running" \/ interrupted
=============================================================================
