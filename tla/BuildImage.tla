------------------------------ MODULE BuildImage ------------------------------
(***************************************************************************)
(* cmdBuild of cmd/image-builder/main.go from its first progress bar on:   *)
(* the manifest and osbuild's run are shown on one bar, the upload on a    *)
(* second one, and a goroutine stops the current bar when a signal comes.  *)
(***************************************************************************)
EXTENDS TerminalProgress, OSBuildRun

CONSTANT Signals   \* whether a signal may come

ASSUME BuildImageAssumption == Bars = {1, 2} /\ Callers = {"main", "signal"}

VARIABLES main,    \* the next statement of cmdBuild
          pbar,    \* the variable, which the goroutine shares
          goroutine  \* the signal's: "waiting" for it, then "stopping" and "left"

buildVars == <<barVars, runVars, main, pbar, goroutine>>

BuildInit ==
    /\ BarInit /\ of = [c \in Callers |-> 1] /\ RunInit
    /\ main = "start" /\ pbar = 1 /\ goroutine = "none"

-----------------------------------------------------------------------------

\* pbar.Start, and the goroutine for signals.
StartBar ==
    /\ main = "start"
    /\ Start(1)
    /\ main' = "prepare" /\ goroutine' = "waiting"
    /\ UNCHANGED <<runVars, pbar>>

\* generateManifest and the checks of the upload: an error goes to the defer.
Prepare ==
    /\ main = "prepare"
    /\ main' \in {"osbuild", "deferred"}
    /\ UNCHANGED <<barVars, runVars, pbar, goroutine>>

\* buildImage
RunBuild ==
    /\ main = "osbuild" /\ RunOSBuild
    /\ UNCHANGED <<barVars, main, pbar, goroutine>>

\* Its result; after osbuild the artifact is renamed, which may fail as well.
RunEnds ==
    /\ main = "osbuild"
    /\ \/ run \in {"ok", "failed", "unparsable", "notStarted"} /\ main' = "deferred"
       \/ run = "ok" /\ main' = "built"
    /\ UNCHANGED <<barVars, runVars, pbar, goroutine>>

\* A call of Stop in cmdBuild, up to where it returns.
StopBar(at, b, inside) ==
    /\ main = at
    /\ CallStop("main", b)
    /\ main' = inside
    /\ UNCHANGED <<runVars, pbar, goroutine>>

StopEnds(inside, next) ==
    /\ main = inside /\ stop["main"] = "away"
    /\ main' = next
    /\ UNCHANGED <<barVars, runVars, pbar, goroutine>>

\* A new bar is made and the upload, if there is one, starts it.
Upload ==
    /\ main = "upload"
    /\ pbar' = 2
    /\ \/ Start(2) /\ main' = "uploading"
       \/ UNCHANGED barVars /\ main' = "deferred"
    /\ UNCHANGED <<runVars, goroutine>>

\* uploadImageWithProgress starts the bar once more, unless the artifact
\* cannot be read.
UploadStarts ==
    /\ main = "uploading"
    /\ \/ Start(2) /\ main' = "sending"
       \/ UNCHANGED barVars /\ main' = "deferred"
    /\ UNCHANGED <<runVars, pbar, goroutine>>

\* After an error the bar is not stopped: the defer holds the first one.
UploadEnds ==
    /\ main = "sending"
    /\ main' \in {"uploaded", "deferred"}
    /\ UNCHANGED <<barVars, runVars, pbar, goroutine>>

Main ==
    \/ StartBar \/ Prepare \/ RunBuild \/ RunEnds \/ Upload \/ UploadStarts \/ UploadEnds
    \/ StopBar("built", 1, "stopBuilt") \/ StopEnds("stopBuilt", "upload")
    \/ StopBar("uploaded", 2, "stopUploaded") \/ StopEnds("stopUploaded", "deferred")
    \/ StopBar("deferred", 1, "stopDeferred") \/ StopEnds("stopDeferred", "exit")

\* A signal: the goroutine is told.  Typed on the terminal the signal reaches
\* osbuild as well, sent to the process it does not.
Signal ==
    /\ Signals /\ goroutine = "waiting"
    /\ goroutine' = "signalled"
    /\ interrupted' \in {interrupted, interrupted \/ child = "running"}
    /\ UNCHANGED <<barVars, parentVars, statusVars, outputVars, child, exitCode, plan, main, pbar>>

\* It stops whatever bar pbar holds by then.
SignalStops ==
    /\ goroutine = "signalled"
    /\ CallStop("signal", pbar)
    /\ goroutine' = "left"
    /\ UNCHANGED <<runVars, main, pbar>>

Alive == main # "exit" /\ ~ panicked

MainStep == Alive /\ Main
SignalStep == Alive /\ SignalStops

\* Steps of the other goroutines and of the child.
Others == UNCHANGED <<main, pbar, goroutine>>
LoopStep(b) == Alive /\ RenderLoop(b) /\ UNCHANGED runVars /\ Others
StopStep(c) == Alive /\ Stop(c) /\ UNCHANGED runVars /\ Others
ChildStep == Alive /\ OSBuild /\ UNCHANGED barVars /\ Others
CrashStep == Alive /\ Crash /\ UNCHANGED barVars /\ Others
CopyStep == Alive /\ CopyOutput /\ UNCHANGED barVars /\ Others

BuildNext ==
    \/ MainStep \/ (Alive /\ Signal) \/ SignalStep
    \/ ChildStep \/ CrashStep \/ CopyStep
    \/ (\E b \in Bars : LoopStep(b)) \/ (\E c \in Callers : StopStep(c))

Ended == ~ Alive /\ UNCHANGED buildVars

BuildSpec == BuildInit /\ [][BuildNext \/ Ended]_buildVars

\* The Go scheduler runs every goroutine that can run; osbuild ends once it has
\* nothing left to write, and the terminal, network and solver calls end.
BuildFairness ==
    /\ WF_buildVars(MainStep) /\ WF_buildVars(SignalStep)
    /\ WF_buildVars(ChildStep) /\ WF_buildVars(CopyStep)
    /\ \A b \in Bars : WF_buildVars(LoopStep(b))
    /\ \A c \in Callers : WF_buildVars(StopStep(c))

FairBuildSpec == BuildSpec /\ BuildFairness

-----------------------------------------------------------------------------

\* Type invariant of the command.
BuildTypeOK ==
    /\ BarTypeOK /\ RunTypeOK
    /\ pbar \in Bars /\ goroutine \in {"none", "waiting", "signalled", "left"}

\* osbuild's run always comes to its end, however much it writes and whatever
\* happens to it and to the bars.
RunReturns == (main = "osbuild") ~> (main # "osbuild" \/ panicked)

\* "without a timeout we hang here forever": every Stop returns, or the program
\* is over.
EveryStopReturns ==
    \A c \in Callers : (stop[c] # "away") ~> (stop[c] = "away" \/ ~ Alive)

\* It does if no two goroutines are in Stop of a bar at once, and renderLoop
\* answers within the second it is given.
UndisturbedStopReturns == [](late \cup contended = {}) => EveryStopReturns
=============================================================================
