------------------------------- MODULE Session -------------------------------
(* One SSM session (internal/session/manager.go): the aws process that leads a *)
(* process group, the session-manager-plugin it starts in that group, os/exec's*)
(* watcher of the context, the wait goroutine that closes done, and any number *)
(* of goroutines that call Stop.                                               *)
(*                                                                             *)
(* Processes may ignore SIGTERM.  Timeouts (Stop's context, groupGrace,        *)
(* os/exec's WaitDelay) may pass at any moment.  A signal to the group fails   *)
(* with other than ESRCH only where kill(2) refuses a group that is left with  *)
(* a zombie alone, as macOS does: the group runs as the daemon's own user.     *)
EXTENDS RingBuffer, FiniteSets

CONSTANTS
  Stoppers, \* goroutines that may call Stop
  MaxChunk  \* the longest chunk of stderr that is copied at once

Processes == {"aws", "plugin"}

ASSUME SessionAssumption == MaxChunk \in Nat

VARIABLES
  run,      \* processes that run
  zombie,   \* aws has exited and nobody has waited for it yet
  killed,   \* processes that were sent SIGKILL
  ctxDone,  \* the context given to exec.CommandContext is done
  pipeOpen, \* os/exec copies stderr into the ring buffer
  wpc,      \* where the wait goroutine is
  ring, written, \* the ring buffer, and what a perfect one would hold
  stopPc    \* where a caller of Stop is

vars == <<run, zombie, killed, ctxDone, pipeOpen, wpc, ring, written, stopPc>>

\* Where Stop is: about to send SIGTERM, waiting for done, past SIGKILL, past a SIGTERM that
\* failed; and what it returned.
Places == {"idle", "term", "wait", "killed", "unsent", "ok", "timeout", "error"}

TypeOK ==
  /\ run \subseteq Processes /\ killed \subseteq Processes
  /\ zombie \in BOOLEAN /\ ctxDone \in BOOLEAN /\ pipeOpen \in BOOLEAN
  /\ wpc \in {"cmdwait", "term", "poll", "close", "done"}
  /\ ring.pos \in 0..(Size - 1) /\ ring.full \in BOOLEAN
  /\ stopPc \in [Stoppers -> Places]

\* Start has returned.
Init ==
  /\ run = {"aws"} /\ zombie = FALSE /\ killed = {}
  /\ ctxDone = FALSE /\ pipeOpen = TRUE
  /\ wpc = "cmdwait"
  /\ ring \in {EmptyRing(blank) : blank \in Byte} /\ written = <<>>
  /\ stopPc = [c \in Stoppers |-> "idle"]

groupVars == <<zombie, ctxDone, pipeOpen, ring, written>>

\* signalGroup(0): an unreaped leader still counts as a member.
GroupAlive == run # {} \/ zombie

\* signalGroup(SIGKILL).
KillGroup == killed' = killed \cup run

-----------------------------------------------------------------------------
(* The processes. *)

StartPlugin ==
  /\ "aws" \in run \ killed /\ "plugin" \notin run
  /\ run' = run \cup {"plugin"}
  /\ UNCHANGED <<killed, wpc, stopPc, groupVars>>

\* A process ends: by itself, of SIGTERM or of SIGKILL.
ProcessEnds(p) ==
  /\ p \in run
  /\ run' = run \ {p}
  /\ killed' = killed \ {p}
  /\ zombie' = (zombie \/ p = "aws")
  /\ UNCHANGED <<ctxDone, pipeOpen, wpc, ring, written, stopPc>>

\* A process writes to stderr, which os/exec copies into the ring buffer.
Stderr(chunk) ==
  /\ run # {} /\ pipeOpen
  /\ ring' = RingWrite(ring, chunk)
  /\ written' = Latest(written \o chunk)
  /\ UNCHANGED <<run, zombie, killed, ctxDone, pipeOpen, wpc, stopPc>>

-----------------------------------------------------------------------------
(* os/exec: CommandContext, Cancel and WaitDelay. *)

\* The service is stopped; cmd.Cancel sends SIGTERM to the group.
ContextDone ==
  /\ ~ctxDone
  /\ ctxDone' = TRUE
  /\ UNCHANGED <<run, zombie, killed, pipeOpen, wpc, ring, written, stopPc>>

\* WaitDelay after the context's end os/exec kills the process it started, not the group.
WaitDelayKills ==
  /\ ctxDone /\ wpc = "cmdwait" /\ "aws" \in run \ killed
  /\ killed' = killed \cup {"aws"}
  /\ UNCHANGED <<run, wpc, stopPc, groupVars>>

\* cmd.Wait: aws has exited and its stderr is closed, by its other holders or by WaitDelay.
CmdWaitReturns ==
  /\ wpc = "cmdwait" /\ zombie
  /\ zombie' = FALSE
  /\ pipeOpen' = FALSE
  /\ wpc' = "term"
  /\ UNCHANGED <<run, killed, ctxDone, ring, written, stopPc>>

-----------------------------------------------------------------------------
(* The wait goroutine after cmd.Wait: terminateGroup, classify, close(done). *)

\* Wrong on purpose: what aws leaves behind is nobody's business.
TerminateLeaderOnly ==
  /\ wpc = "term"
  /\ wpc' = "close"
  /\ UNCHANGED <<run, killed, stopPc, groupVars>>

TerminateGroup ==
  /\ wpc = "term"
  /\ wpc' = IF GroupAlive THEN "poll" ELSE "close"
  /\ UNCHANGED <<run, killed, stopPc, groupVars>>

\* Wrong on purpose: the poll waits for the group without a deadline.
PollGroupForever ==
  /\ wpc = "poll" /\ ~GroupAlive
  /\ wpc' = "close"
  /\ UNCHANGED <<run, killed, stopPc, groupVars>>

\* The poll sees the group gone, or groupGrace passes and what is left is killed.
PollGroup ==
  /\ wpc = "poll"
  /\ wpc' = "close"
  /\ IF GroupAlive THEN KillGroup ELSE UNCHANGED killed
  /\ UNCHANGED <<run, stopPc, groupVars>>

\* classify reads the captured stderr, and done closes.
CloseDone ==
  /\ wpc = "close"
  /\ wpc' = "done"
  /\ UNCHANGED <<run, killed, stopPc, groupVars>>

-----------------------------------------------------------------------------
(* Stop. *)

\* Stop finds done closed, or goes on to signal.
StopCalled(c) ==
  /\ stopPc[c] = "idle"
  /\ stopPc' = [stopPc EXCEPT ![c] = IF wpc = "done" THEN "ok" ELSE "term"]
  /\ UNCHANGED <<run, killed, wpc, groupVars>>

\* signalGroup(SIGTERM).
StopTerminates(c) ==
  /\ stopPc[c] = "term"
  /\ stopPc' = [stopPc EXCEPT ![c] = "wait"]
  /\ UNCHANGED <<run, killed, wpc, groupVars>>

\* The signal fails when nothing but the unreaped leader is left.
SignalMayFail == zombie /\ run = {}

StopTermFails(c) ==
  /\ stopPc[c] = "term" /\ SignalMayFail
  /\ stopPc' = [stopPc EXCEPT ![c] = "unsent"]
  /\ UNCHANGED <<run, killed, wpc, groupVars>>

StopKillFails(c) ==
  /\ stopPc[c] = "wait" /\ SignalMayFail
  /\ stopPc' = [stopPc EXCEPT ![c] = "error"]
  /\ UNCHANGED <<run, killed, wpc, groupVars>>

StopSeesDone(c) ==
  /\ stopPc[c] = "wait" /\ wpc = "done"
  /\ stopPc' = [stopPc EXCEPT ![c] = "ok"]
  /\ UNCHANGED <<run, killed, wpc, groupVars>>

\* Wrong on purpose: after the timeout Stop gives up without SIGKILL.
StopTimesOutQuietly(c) ==
  /\ stopPc[c] = "wait"
  /\ stopPc' = [stopPc EXCEPT ![c] = "killed"]
  /\ UNCHANGED <<run, killed, wpc, groupVars>>

\* Stop's context is done: signalGroup(SIGKILL).
StopTimesOut(c) ==
  /\ stopPc[c] = "wait"
  /\ KillGroup
  /\ stopPc' = [stopPc EXCEPT ![c] = "killed"]
  /\ UNCHANGED <<run, wpc, groupVars>>

\* done or groupGrace after SIGKILL: the context's error either way.  After a SIGTERM that
\* failed: its error.
StopReturns(c) ==
  /\ stopPc[c] \in {"killed", "unsent"}
  /\ stopPc' = [stopPc EXCEPT ![c] = IF stopPc[c] = "killed" THEN "timeout" ELSE "error"]
  /\ UNCHANGED <<run, killed, wpc, groupVars>>

StopStep(c) ==
  \/ StopTerminates(c) \/ StopTermFails(c) \/ StopSeesDone(c)
  \/ StopTimesOut(c) \/ StopKillFails(c) \/ StopReturns(c)

WaitStep == CmdWaitReturns \/ TerminateGroup \/ PollGroup \/ CloseDone

-----------------------------------------------------------------------------

Chunks == UNION {[1..n -> Byte] : n \in 1..MaxChunk}

\* A finished session with no Stop in progress.
Over ==
  /\ wpc = "done" /\ run = {} /\ ctxDone
  /\ \A c \in Stoppers : stopPc[c] \in {"ok", "timeout", "error"}
  /\ UNCHANGED vars

Next ==
  \/ StartPlugin \/ \E p \in Processes : ProcessEnds(p)
  \/ \E chunk \in Chunks : Stderr(chunk)
  \/ ContextDone \/ WaitDelayKills \/ WaitStep
  \/ \E c \in Stoppers : StopCalled(c) \/ StopStep(c)
  \/ Over

\* A killed process ends; timers fire; goroutines run.  Nobody has to obey SIGTERM.
Spec ==
  /\ Init /\ [][Next]_vars
  /\ WF_vars(WaitDelayKills) /\ WF_vars(WaitStep)
  /\ \A p \in Processes : WF_vars(p \in killed /\ ProcessEnds(p))
  /\ \A c \in Stoppers : WF_vars(StopStep(c))

-----------------------------------------------------------------------------

\* "The session ends only once its whole process group is gone, so a plugin that outlives
\* aws is terminated with it": when done closes, or when Stop returns, whichever way it does,
\* every process has ended or has its SIGKILL.
NothingOutlives ==
  (wpc = "done" \/ \E c \in Stoppers : stopPc[c] \in {"ok", "timeout", "error"}) => run \subseteq killed

\* After cmd.Wait aws has exited and was reaped; from terminateGroup's end on, and once a Stop
\* has lost its patience, what is left of the group has its SIGKILL, and aws, which alone starts
\* a plugin, is not left without one.
GroupWindsDown ==
  /\ zombie \/ wpc # "cmdwait" => "aws" \notin run
  /\ wpc # "cmdwait" => ~zombie
  /\ wpc = "close" => run \subseteq killed
  /\ \A c \in Stoppers :
       /\ stopPc[c] = "killed" => run \subseteq killed
       /\ stopPc[c] \in {"unsent", "error"} => run = {}
       /\ stopPc[c] = "ok" => wpc = "done"

Inv ==
  /\ TypeOK
  /\ NothingOutlives
  /\ GroupWindsDown

\* The capture that classify reads is the end of stderr, so a late credentials message is
\* never lost to wrap-around and an old one never survives it.
CaptureIsLatest == RingBytes(ring) = written

\* done closes once the service is stopped, once somebody stops the session, and once aws
\* exits with the plugin still running.
SessionEnds ==
  (ctxDone \/ "aws" \notin run \/ \E c \in Stoppers : stopPc[c] # "idle") ~> wpc = "done"

-----------------------------------------------------------------------------
(* The session that Engine assumes. *)

Waiting(c) == stopPc[c] \in {"wait", "unsent"}
Returned(c) == stopPc[c] \in {"killed", "ok", "timeout", "error"}
GaveUp(c) == stopPc[c] \in {"killed", "timeout", "error"}

Proc ==
  CASE wpc = "done" -> "gone"
    [] wpc # "done" /\ \E c \in Stoppers : GaveUp(c) -> "kill"
    [] OTHER -> IF ctxDone \/ \E c \in Stoppers : Waiting(c) THEN "term" ELSE "live"

Calls ==
  [c \in Stoppers |-> IF Waiting(c) THEN "waiting" ELSE IF Returned(c) THEN "returned" ELSE "idle"]

Life == INSTANCE SessionLife WITH proc <- Proc, cancelled <- ctxDone, calls <- Calls

\* The processes, signals and timers of a session add up to the session that the engine's
\* goroutines rely on: signalled or cancelled it moves towards its end only, once it was killed
\* it is gone in the end, and no Stop returns while it is neither.
ImplementsLife == Life!Spec

=============================================================================
