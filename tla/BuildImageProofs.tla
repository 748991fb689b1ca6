--------------------------- MODULE BuildImageProofs ---------------------------
(***************************************************************************)
(* Proofs about BuildImage for pipes of any size and any amount of output: *)
(* osbuild's run loses nothing and forgets no child, and a Stop that was   *)
(* not disturbed leaves its bar quiet.  The two parts of the state change  *)
(* in separate steps, so each has an invariant of its own.                 *)
(***************************************************************************)
EXTENDS BuildImage, TLAPS

\* Where every status line is that osbuild wrote, and who has the pipe open.
StatusAccount ==
    /\ run # "unparsable" => forwarded + Len(statusPipe) = reported
    /\ writers = IF child = "running" THEN {"child"} ELSE {}
    /\ run \in {"waiting", "ok", "failed"} => statusPipe = <<>> /\ child = "exited"

\* The same for its output.
OutputAccount ==
    /\ copied + output = written
    /\ copier = "left" => output = 0 /\ child = "exited"

\* What the call knows of the child when it ends.
Outcome ==
    /\ run \in {"ok", "failed"} => copier = "left" /\ (run = "ok" <=> exitCode = "0")
    /\ run \in {"idle", "notStarted"} <=> child = "none"
    /\ run = "unparsable" => interrupted = TRUE

RunInv == RunTypeOK /\ StatusAccount /\ OutputAccount /\ Outcome

\* A bar whose Stops neither timed out nor met.
Disturbed == late \cup contended

\* At most one caller stops it, and stands where renderLoop expects it.
Handshake(b) ==
    /\ \A c, d \in Stopping(b) : c = d
    /\ \A c \in Stopping(b) :
         \/ stop[c] \in {"send", "blocked"} /\ loop[b] \in {"select", "drawing"}
         \/ stop[c] = "ack" /\ loop[b] \in {"last", "left"} /\ shutdownCh[b] # "nil"
    /\ loop[b] = "last" => \E c \in Stopping(b) : stop[c] = "ack"
    /\ shutdownCh[b] = "closed" => loop[b] = "left" /\ Stopping(b) # {}
    /\ shutdownCh[b] = "open" => loop[b] \in {"select", "drawing", "last"}
    /\ loop[b] \in {"select", "drawing", "last"} => shutdownCh[b] = "open"
    /\ b \notin stray
    /\ b \in stopped => loop[b] \in {"none", "left"}

BarInv ==
    /\ BarTypeOK
    /\ \A b \in Bars \ Disturbed : Handshake(b)
    /\ panicked => Disturbed # {}

-----------------------------------------------------------------------------

\* A pipe keeps its type, and loses or gains one line at a time.
LEMMA PipeStep ==
    ASSUME NEW S, NEW s \in Seq(S)
    PROVE  /\ s # <<>> => Tail(s) \in Seq(S) /\ Len(Tail(s)) = Len(s) - 1 /\ Len(s) > 0
           /\ \A e \in S : Append(s, e) \in Seq(S) /\ Len(Append(s, e)) = Len(s) + 1
           /\ Len(s) \in Nat /\ (s = <<>> <=> Len(s) = 0)
    BY SMT

\* The call of runOSBuildWithProgress preserves the invariant of its run.
LEMMA CallerKeepsRunInv == ASSUME RunInv, RunOSBuild PROVE RunInv'
<1> USE OSBuildRunAssumption DEF RunInv, RunTypeOK, StatusAccount, OutputAccount, Outcome,
        parentVars, statusVars, outputVars, childVars
<1>1. CASE StartOSBuild
      BY <1>1, SMT DEF StartOSBuild
<1>2. CASE ReadStatus
      BY <1>2, PipeStep, SMT DEF ReadStatus
<1>3. CASE StatusUnparsable
      BY <1>3, SMT DEF StatusUnparsable
<1>4. CASE EndOfStatus
      BY <1>4, SMT DEF EndOfStatus
<1>5. CASE WaitReturns
      BY <1>5, SMT DEF WaitReturns
<1> QED BY <1>1, <1>2, <1>3, <1>4, <1>5 DEF RunOSBuild

\* So do the child, which may crash, and the copying of its output.
LEMMA ChildKeepsRunInv == ASSUME RunInv, OSBuild \/ Crash \/ CopyOutput PROVE RunInv'
<1> USE OSBuildRunAssumption DEF RunInv, RunTypeOK, StatusAccount, OutputAccount, Outcome,
        parentVars, statusVars, outputVars, childVars
<1>1. ASSUME NEW line \in {"good", "bad"}, WriteStatus(line) PROVE RunInv'
      BY <1>1, PipeStep, SMT DEF WriteStatus
<1>2. CASE WriteOutput
      BY <1>2, SMT DEF WriteOutput
<1>3. ASSUME NEW code \in {"0", "1"}, Exit(code) PROVE RunInv'
      BY <1>3, SMT DEF Exit
<1>4. CASE CopyOutput
  <2>1. copier = "copying" /\ UNCHANGED <<parentVars, statusVars, written, childVars>>
        BY <1>4 DEF CopyOutput
  <2>2. CASE output > 0
    <3>1. output' = output - 1 /\ copied' = copied + 1 /\ copier' = copier
          BY <1>4, <2>2 DEF CopyOutput
    <3> QED BY <2>1, <2>2, <3>1, SMT
  <2>3. CASE ~ (output > 0)
    <3>1. child = "exited" /\ copier' = "left" /\ output' = output /\ copied' = copied
          BY <1>4, <2>3 DEF CopyOutput
    <3> QED BY <2>1, <2>3, <3>1, SMT
  <2> QED BY <2>2, <2>3
<1> QED BY <1>1, <1>2, <1>3, <1>4 DEF OSBuild, Crash

\* The run changes only by these steps and by a signal.
LEMMA StepKeepsRunInv ==
    ASSUME RunInv, BuildNext \/ Ended \/ UNCHANGED buildVars
    PROVE  RunInv'
<1>1. CASE UNCHANGED runVars
      BY <1>1 DEF RunInv, RunTypeOK, StatusAccount, OutputAccount, Outcome, runVars,
         parentVars, statusVars, outputVars, childVars
<1>2. CASE Signal
  <2>1. interrupted' \in BOOLEAN /\ (interrupted = TRUE => interrupted' = TRUE)
        BY <1>2, Zenon DEF Signal, RunInv, RunTypeOK
  <2>2. UNCHANGED <<run, forwarded, statusPipe, writers, reported, output, written, copied,
                    copier, child, exitCode, plan>>
        BY <1>2 DEF Signal, parentVars, statusVars, outputVars
  <2> QED BY <2>1, <2>2, SMT DEF RunInv, RunTypeOK, StatusAccount, OutputAccount, Outcome
<1>3. CASE Main
      BY <1>3, <1>1, CallerKeepsRunInv DEF Main, RunBuild, StartBar, Prepare, RunEnds, Upload,
         UploadStarts, UploadEnds, StopBar, StopEnds
<1>4. CASE \/ SignalStep \/ (\E b \in Bars : LoopStep(b)) \/ (\E c \in Callers : StopStep(c))
           \/ Ended \/ UNCHANGED buildVars
      BY <1>4, <1>1 DEF SignalStep, SignalStops, LoopStep, StopStep, Ended, buildVars
<1>5. CASE ChildStep \/ CrashStep \/ CopyStep
      BY <1>5, ChildKeepsRunInv DEF ChildStep, CrashStep, CopyStep
<1> QED BY <1>2, <1>3, <1>4, <1>5 DEF BuildNext, MainStep

\* The accounts of osbuild's two pipes (RunInv) hold throughout cmdBuild.
LEMMA RunInvariant == BuildSpec => []RunInv
<1>1. BuildInit => RunInv
  <2>1. SUFFICES ASSUME BuildInit PROVE RunInv
        OBVIOUS
  <2>2. <<>> \in Seq({"good", "bad"}) /\ Len(<<>>) = 0
        BY SMT
  <2>3. RunTypeOK
    <3>1. interrupted \in BOOLEAN /\ plan \in [status : 0 .. MaxLines, output : 0 .. MaxLines]
          BY <2>1, Zenon DEF BuildInit, RunInit
    <3>2. 0 \in 0 .. MaxLines /\ 0 \in 0 .. PipeCap /\ 0 \in 0 .. 0 /\ 0 <= PipeCap
          BY OSBuildRunAssumption, SMT
    <3>3. statusPipe \in Seq({"good", "bad"}) /\ Len(statusPipe) <= PipeCap
          BY <2>1, <2>2, <3>2, SMT DEF BuildInit, RunInit
    <3> QED BY <2>1, <3>1, <3>2, <3>3, Zenon DEF BuildInit, RunInit, RunTypeOK
  <2>4. StatusAccount /\ OutputAccount /\ Outcome
        BY <2>1, <2>2, SMT DEF BuildInit, RunInit, StatusAccount, OutputAccount, Outcome
  <2> QED BY <2>3, <2>4 DEF RunInv
<1>2. RunInv /\ [BuildNext \/ Ended]_buildVars => RunInv'
      BY StepKeepsRunInv
<1> QED BY <1>1, <1>2, PTL DEF BuildSpec

\* However the reading of the status, the copying of the output and osbuild's
\* end interleave, runOSBuildWithProgress returns osbuild's own result only
\* after it forwarded every status and copied all output.
THEOREM Accounted == BuildSpec => []NothingLost
<1>1. RunInv => NothingLost
      BY PipeStep, SMT DEF RunInv, RunTypeOK, StatusAccount, OutputAccount, Outcome, NothingLost
<1> QED BY <1>1, RunInvariant, PTL

\* When runOSBuildWithProgress has returned, osbuild has ended or was told to.
THEOREM NoOrphan == BuildSpec => []ChildNotForgotten
<1>1. RunInv => ChildNotForgotten
      BY SMT DEF RunInv, StatusAccount, Outcome, ChildNotForgotten, RunTypeOK
<1> QED BY <1>1, RunInvariant, PTL

-----------------------------------------------------------------------------

\* renderLoop preserves the handshake of every undisturbed bar.
LEMMA LoopKeepsBarInv ==
    ASSUME BarInv, NEW b \in Bars, RenderLoop(b)
    PROVE  BarInv'
<1> USE DEF BarInv, BarTypeOK, Handshake, Stopping, Blocked, Disturbed, history
<1>1. CASE Tick(b)
      BY <1>1, SMT DEF Tick
<1>2. CASE Drawn(b)
      BY <1>2, SMT DEF Drawn
<1>3. CASE Shutdown(b)
      BY <1>3, SMT DEF Shutdown
<1>4. CASE EndLoop(b)
      BY <1>4, SMT DEF EndLoop, CloseShutdown
<1>5. CASE EndStray(b)
      BY <1>5, SMT DEF EndStray, CloseShutdown
<1> QED BY <1>1, <1>2, <1>3, <1>4, <1>5 DEF RenderLoop

\* So does Start.
LEMMA StartKeepsBarInv ==
    ASSUME BarInv, NEW b \in Bars, Start(b)
    PROVE  BarInv'
    BY SMT DEF BarInv, BarTypeOK, Handshake, Stopping, Blocked, Disturbed, Start

\* A call of Stop finds the bar undisturbed only if nobody else is stopping it.
LEMMA CallKeepsBarInv ==
    ASSUME BarInv, NEW c \in Callers, NEW b \in Bars, CallStop(c, b)
    PROVE  BarInv'
    BY SMT DEF BarInv, BarTypeOK, Handshake, Stopping, Blocked, Disturbed, CallStop

\* The steps within Stop.
LEMMA StopKeepsBarInv ==
    ASSUME BarInv, NEW c \in Callers, Stop(c)
    PROVE  BarInv'
<1> USE DEF BarInv, BarTypeOK, Handshake, Stopping, Blocked, Disturbed, history
<1>1. CASE Send(c)
  <2>1. /\ stop[c] = "send" /\ shutdownCh[of[c]] \in {"nil", "open", "closed"}
        /\ UNCHANGED <<shutdownCh, loop, stray, of, stopped, late, contended>>
        BY <1>1, SMT DEF Send
  <2>2. CASE shutdownCh[of[c]] = "open"
    <3>1. stop' = [stop EXCEPT ![c] = "blocked"] /\ UNCHANGED panicked
          BY <1>1, <2>2, SMT DEF Send
    <3> QED BY <2>1, <3>1, SMT
  <2>3. CASE shutdownCh[of[c]] # "open"
    <3>1. of[c] \in Disturbed
          BY <2>1, <2>3, SMT
    <3>2. CASE shutdownCh[of[c]] = "nil"
      <4>1. stop' = [stop EXCEPT ![c] = "hung"] /\ UNCHANGED panicked
            BY <1>1, <3>2, SMT DEF Send
      <4> QED BY <2>1, <3>1, <4>1, SMT
    <3>3. CASE shutdownCh[of[c]] = "closed"
      <4>1. panicked' = TRUE /\ UNCHANGED stop
            BY <1>1, <3>3, SMT DEF Send
      <4> QED BY <2>1, <3>1, <4>1, SMT
    <3> QED BY <2>1, <2>3, <3>2, <3>3
  <2> QED BY <2>2, <2>3
<1>2. CASE Acknowledged(c)
      BY <1>2, SMT DEF Acknowledged, EndStop
<1>3. CASE Crossed(c)
      BY <1>3, SMT DEF Crossed
<1>4. CASE AckTimeout(c)
      BY <1>4, SMT DEF AckTimeout, EndStop
<1> QED BY <1>1, <1>2, <1>3, <1>4 DEF Stop

\* The variables of the command itself.
CommandTypeOK == pbar \in Bars /\ goroutine \in {"none", "waiting", "signalled", "left"}

\* Only cmdBuild and the goroutine for signals change pbar and goroutine.
LEMMA StepKeepsCommandType ==
    ASSUME CommandTypeOK, BuildNext \/ Ended \/ UNCHANGED buildVars
    PROVE  CommandTypeOK'
<1> USE BuildImageAssumption DEF CommandTypeOK
<1>1. CASE Main
      BY <1>1, SMT DEF Main, StartBar, RunBuild, Prepare, RunEnds, Upload, UploadStarts, UploadEnds,
         StopBar, StopEnds
<1>2. CASE Signal \/ SignalStops
      BY <1>2, SMT DEF Signal, SignalStops
<1>3. CASE UNCHANGED <<pbar, goroutine>>
      BY <1>3, SMT
<1> QED BY <1>1, <1>2, <1>3 DEF BuildNext, MainStep, SignalStep, ChildStep, CrashStep, CopyStep,
       LoopStep, StopStep, Others, Ended, buildVars

\* Every step of the command that concerns bars is one of these.
LEMMA StepKeepsBarInv ==
    ASSUME BarInv, CommandTypeOK, BuildNext \/ Ended \/ UNCHANGED buildVars
    PROVE  BarInv'
<1> USE BuildImageAssumption
<1>1. CASE UNCHANGED barVars
      BY <1>1 DEF barVars, history, BarInv, BarTypeOK, Handshake, Stopping, Disturbed
<1>2. CASE \/ StartBar \/ Upload \/ UploadStarts
      BY <1>1, <1>2, StartKeepsBarInv DEF StartBar, Upload, UploadStarts
<1>3. ASSUME NEW at, NEW b \in Bars, NEW inside, StopBar(at, b, inside)
      PROVE  BarInv'
      BY <1>3, CallKeepsBarInv DEF StopBar
<1>4. CASE Main
      BY <1>1, <1>2, <1>3, <1>4 DEF Main, RunBuild, Prepare, RunEnds, UploadEnds, StopEnds
<1>5. CASE SignalStops
      BY <1>5, CallKeepsBarInv DEF SignalStops, CommandTypeOK
<1>6. ASSUME NEW b \in Bars, LoopStep(b) PROVE BarInv'
      BY <1>6, LoopKeepsBarInv DEF LoopStep
<1>7. ASSUME NEW c \in Callers, StopStep(c) PROVE BarInv'
      BY <1>7, StopKeepsBarInv DEF StopStep
<1>8. CASE Signal \/ ChildStep \/ CrashStep \/ CopyStep \/ Ended \/ UNCHANGED buildVars
      BY <1>8, <1>1 DEF Signal, ChildStep, CrashStep, CopyStep, Ended, buildVars
<1> QED BY <1>4, <1>5, <1>6, <1>7, <1>8 DEF BuildNext, MainStep, SignalStep

\* The handshake between Stop and renderLoop (BarInv) holds throughout cmdBuild.
LEMMA BarInvariant == BuildSpec => [](BarInv /\ CommandTypeOK)
<1>1. BuildInit => BarInv /\ CommandTypeOK
  <2>1. SUFFICES ASSUME BuildInit PROVE BarInv /\ CommandTypeOK
        OBVIOUS
  <2>2. BarTypeOK
    <3>1. panicked \in BOOLEAN
          BY <2>1, Zenon DEF BuildInit, BarInit
    <3> QED BY <2>1, <3>1, SMT DEF BuildInit, BarInit, BarTypeOK
  <2>3. CommandTypeOK
        BY <2>1, BuildImageAssumption DEF BuildInit, CommandTypeOK
  <2>4. (\A b \in Bars : Handshake(b)) /\ ~ panicked
        BY <2>1, SMT DEF BuildInit, BarInit, Handshake, Stopping
  <2> QED BY <2>2, <2>3, <2>4 DEF BarInv
<1>2. BarInv /\ CommandTypeOK /\ [BuildNext \/ Ended]_buildVars => BarInv' /\ CommandTypeOK'
      BY StepKeepsBarInv, StepKeepsCommandType
<1> QED BY <1>1, <1>2, PTL DEF BuildSpec

\* Every state of the command is well typed, and a bar that is being rendered
\* has its channel open unless two Stops met or one timed out.
THEOREM TypeCorrect == BuildSpec => []BuildTypeOK
<1>1. RunInv /\ BarInv /\ CommandTypeOK => BuildTypeOK
      BY DEF RunInv, BarInv, CommandTypeOK, BuildTypeOK
<1> QED BY <1>1, RunInvariant, BarInvariant, PTL

\* When Stop has returned renderLoop draws no more and nothing panics, for any
\* interleaving in which no Stop timed out or met another one.
THEOREM Quiet == BuildSpec => []QuietAfterStop
<1>1. ASSUME BarInv PROVE QuietAfterStop
  <2>1. ASSUME NEW b \in stopped \ Disturbed PROVE loop[b] \in {"none", "left"}
        BY <1>1, <2>1, SMT DEF BarInv, BarTypeOK, Handshake
  <2>2. panicked => Disturbed # {}
        BY <1>1, Zenon DEF BarInv
  <2> QED BY <2>1, <2>2, Zenon DEF QuietAfterStop, Disturbed
<1> QED BY <1>1, BarInvariant, PTL
=============================================================================
