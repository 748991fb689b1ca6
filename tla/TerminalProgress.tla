--------------------------- MODULE TerminalProgress ---------------------------
(***************************************************************************)
(* terminalProgressBar of pkg/progress/progress.go: Start starts renderLoop*)
(* in a goroutine; Stop asks it to end with a send on shutdownCh and waits *)
(* for at most a second until renderLoop closes that channel.  Goroutines  *)
(* in Callers may call Stop, also of the same bar at the same time.        *)
(*                                                                         *)
(* What is drawn (messages, levels, the output kept in buf) is left out; a *)
(* channel's life is "open", "closed" and, in the field, "nil".            *)
(***************************************************************************)
EXTENDS Naturals, FiniteSets

CONSTANTS Bars, Callers

VARIABLES shutdownCh,  \* the field of each bar
          loop,        \* where each bar's renderLoop is
          stray,       \* bars with an older renderLoop that has still to end
          stop,        \* where each caller is in Stop
          of,          \* the bar it stops
          panicked,    \* the process died of a panic
          stopped,     \* bars for which a Stop has returned since Start
          late,        \* bars a Stop did not get its answer from in time
          contended    \* bars that two callers were stopping at once

history == <<stopped, late, contended>>
barVars == <<shutdownCh, loop, stray, stop, of, panicked, history>>

BarInit ==
    /\ shutdownCh = [b \in Bars |-> "nil"] /\ loop = [b \in Bars |-> "none"]
    /\ stop = [c \in Callers |-> "away"] /\ of \in [Callers -> Bars]
    /\ stray = {} /\ panicked = FALSE
    /\ stopped = {} /\ late = {} /\ contended = {}

Stopping(b) == {c \in Callers : stop[c] # "away" /\ of[c] = b}
Blocked(b) == {c \in Stopping(b) : stop[c] = "blocked"}

-----------------------------------------------------------------------------

\* Start: nothing if the bar is rendered already.
Start(b) ==
    /\ IF shutdownCh[b] # "nil" THEN UNCHANGED <<shutdownCh, loop, stray, stopped>>
       ELSE /\ shutdownCh' = [shutdownCh EXCEPT ![b] = "open"]
            /\ loop' = [loop EXCEPT ![b] = "select"]
            /\ stray' = IF loop[b] = "last" THEN stray \cup {b} ELSE stray
            /\ stopped' = stopped \ {b}
    /\ UNCHANGED <<stop, of, panicked, late, contended>>

\* renderLoop: 200 ms without a request to stop, then it draws.
Tick(b) ==
    /\ loop[b] = "select" /\ Blocked(b) = {} /\ shutdownCh[b] # "closed"
    /\ loop' = [loop EXCEPT ![b] = "drawing"]
    /\ UNCHANGED <<shutdownCh, stray, stop, of, panicked, history>>

Drawn(b) ==
    /\ loop[b] = "drawing"
    /\ loop' = [loop EXCEPT ![b] = "select"]
    /\ UNCHANGED <<shutdownCh, stray, stop, of, panicked, history>>

\* renderLoop receives what Stop sends, as the channel has no buffer, or finds
\* the channel closed by an older renderLoop.
Shutdown(b) ==
    /\ loop[b] = "select"
    /\ \/ \E c \in Blocked(b) : shutdownCh[b] = "open" /\ stop' = [stop EXCEPT ![c] = "ack"]
       \/ shutdownCh[b] = "closed" /\ UNCHANGED stop
    /\ loop' = [loop EXCEPT ![b] = "last"]
    /\ UNCHANGED <<shutdownCh, stray, of, panicked, history>>

\* close(shutdownCh): it panics a goroutine that is still sending on it, and
\* the caller if another Stop has set the field to nil or it is closed already.
CloseShutdown(b) ==
    /\ shutdownCh' = [shutdownCh EXCEPT ![b] = IF @ = "open" THEN "closed" ELSE @]
    /\ panicked' = (shutdownCh[b] # "open" \/ Blocked(b) # {})

\* Mutant: the channel is closed before the last drawing.
EndLoop_CloseFirst(b) ==
    /\ loop[b] = "last"
    /\ IF shutdownCh[b] = "open" THEN CloseShutdown(b) /\ UNCHANGED loop
       ELSE loop' = [loop EXCEPT ![b] = "left"] /\ UNCHANGED <<shutdownCh, panicked>>
    /\ UNCHANGED <<stray, stop, of, history>>

\* renderLoop draws a last time, shows the cursor and closes the channel.
EndLoop(b) ==
    /\ loop[b] = "last"
    /\ loop' = [loop EXCEPT ![b] = "left"]
    /\ CloseShutdown(b)
    /\ UNCHANGED <<stray, stop, of, history>>

\* So does the one of an earlier Start whose Stop did not wait for it.
EndStray(b) ==
    /\ b \in stray
    /\ stray' = stray \ {b}
    /\ CloseShutdown(b)
    /\ UNCHANGED <<loop, stop, of, history>>

RenderLoop(b) == Tick(b) \/ Drawn(b) \/ Shutdown(b) \/ EndLoop(b) \/ EndStray(b)

-----------------------------------------------------------------------------

\* Mutant: Stop of a bar that is not rendered is not noticed.
CallStop_NoNilCheck(c, b) ==
    /\ stop[c] = "away"
    /\ of' = [of EXCEPT ![c] = b]
    /\ stop' = [stop EXCEPT ![c] = "send"]
    /\ contended' = IF Stopping(b) # {} THEN contended \cup {b} ELSE contended
    /\ UNCHANGED <<shutdownCh, loop, stray, panicked, stopped, late>>

\* Stop returns at once if the bar is not rendered.
CallStop(c, b) ==
    /\ stop[c] = "away"
    /\ IF shutdownCh[b] = "nil"
       THEN stopped' = stopped \cup {b} /\ UNCHANGED <<stop, of, contended>>
       ELSE /\ of' = [of EXCEPT ![c] = b]
            /\ stop' = [stop EXCEPT ![c] = "send"]
            /\ contended' = IF Stopping(b) # {} THEN contended \cup {b} ELSE contended
            /\ UNCHANGED stopped
    /\ UNCHANGED <<shutdownCh, loop, stray, panicked, late>>

\* The send reads the field again, which another Stop may have changed: a
\* send on a nil channel never ends, one on a closed channel panics.
Send(c) ==
    /\ stop[c] = "send"
    /\ CASE shutdownCh[of[c]] = "open" -> stop' = [stop EXCEPT ![c] = "blocked"] /\ UNCHANGED panicked
         [] shutdownCh[of[c]] = "nil" -> stop' = [stop EXCEPT ![c] = "hung"] /\ UNCHANGED panicked
         [] shutdownCh[of[c]] = "closed" -> panicked' = TRUE /\ UNCHANGED stop
    /\ UNCHANGED <<shutdownCh, loop, stray, of, history>>

EndStop(c) ==
    /\ shutdownCh' = [shutdownCh EXCEPT ![of[c]] = "nil"]
    /\ stop' = [stop EXCEPT ![c] = "away"]
    /\ stopped' = stopped \cup {of[c]}
    /\ UNCHANGED <<loop, stray, of, panicked, contended>>

\* Mutant: Stop does not wait for renderLoop.
Acknowledged_NoWait(c) ==
    /\ stop[c] = "ack"
    /\ EndStop(c) /\ UNCHANGED late

\* The channel was closed: Stop clears the field and returns.
Acknowledged(c) ==
    /\ stop[c] = "ack" /\ shutdownCh[of[c]] = "closed"
    /\ EndStop(c) /\ UNCHANGED late

\* What it receives may be the request of another Stop, which thinks then
\* that renderLoop has it.
Crossed(c) ==
    /\ stop[c] = "ack" /\ shutdownCh[of[c]] = "open"
    /\ \E d \in Blocked(of[c]) :
         /\ shutdownCh' = [shutdownCh EXCEPT ![of[c]] = "nil"]
         /\ stop' = [stop EXCEPT ![c] = "away", ![d] = "ack"]
    /\ stopped' = stopped \cup {of[c]}
    /\ UNCHANGED <<loop, stray, of, panicked, late, contended>>

\* It was not, for a second: Stop goes on all the same.
AckTimeout(c) ==
    /\ stop[c] = "ack" /\ shutdownCh[of[c]] # "closed"
    /\ late' = late \cup {of[c]}
    /\ EndStop(c)

Stop(c) == Send(c) \/ Acknowledged(c) \/ Crossed(c) \/ AckTimeout(c)

-----------------------------------------------------------------------------

\* Type invariant; a rendered bar has a channel unless Stop was disturbed.
BarTypeOK ==
    /\ shutdownCh \in [Bars -> {"nil", "open", "closed"}]
    /\ loop \in [Bars -> {"none", "select", "drawing", "last", "left"}]
    /\ stop \in [Callers -> {"away", "send", "blocked", "ack", "hung"}]
    /\ of \in [Callers -> Bars] /\ panicked \in BOOLEAN
    /\ stray \subseteq Bars /\ stopped \subseteq Bars /\ late \subseteq Bars /\ contended \subseteq Bars
    /\ \A b \in Bars \ (late \cup contended) :
         loop[b] \in {"select", "drawing", "last"} => shutdownCh[b] = "open"

\* "close last to avoid race with b.out": when Stop has returned, renderLoop
\* has drawn for the last time and shown the cursor, and nothing panics, unless
\* it took longer than a second or two goroutines stopped the bar at once.
QuietAfterStop ==
    /\ \A b \in stopped \ (late \cup contended) : loop[b] \in {"none", "left"}
    /\ panicked => late \cup contended # {}
=============================================================================
