------------------------------ MODULE Lifecycle ------------------------------
(* The daemon process and the commands that start and end it: the PID file,    *)
(* the DNS port and the socket (cmd/daemon.go, internal/daemon/lifecycle.go,   *)
(* server.go), and up, down, down -f and restart (cmd/up.go, down.go,          *)
(* restart.go).                                                                *)
(*                                                                             *)
(* A process name is free for a new process once the old one is gone; what the *)
(* files still say of it is "dead", so a PID that another program reuses is    *)
(* left out.  A process with a fatal signal pending runs no more of its code,  *)
(* and holds what it holds until the kernel has ended it.  Polls give up when  *)
(* what they wait for cannot come any more, those of down and restart any time.*)
EXTENDS Naturals, FiniteSets

CONSTANTS Clis, Daemons

NoFile == "none"   \* the file does not exist
Torn == "torn"     \* WriteFile has truncated the PID file and not yet written it
Dead == "dead"     \* it is of a process that is gone
Marks == {NoFile, Torn, Dead}

ASSUME LifecycleAssumption ==
  /\ IsFiniteSet(Daemons) /\ IsFiniteSet(Clis) /\ Daemons \cap Marks = {}

VARIABLES
  dpc,        \* where a daemon process is in runDaemon
  pidFile,    \* whose PID the PID file holds
  sock,       \* who bound the socket that the path leads to
  port,       \* who holds the DNS port
  doomed,     \* processes with a fatal signal pending
  cpc, cmd,   \* where a CLI process is, and its command
  seen,       \* the process it has launched, or whose PID it has read
  overlapped  \* two commands have run at once (history)

fileVars == <<pidFile, sock>>
cliVars == <<cpc, cmd, seen, overlapped>>
vars == <<dpc, fileVars, port, doomed, cliVars>>

\* Before listen and after it, after dns, and after the check of the PID file.
Starting == {"check", "write", "fill", "load", "dns", "unlink", "listen"}
Listening == {"notify", "serve", "stop", "close", "failing"}
HasPort == {"unlink", "listen", "drain", "dnsstop"} \cup Listening
Locked == {"write", "fill", "load", "dns", "rmsock", "rmpid"} \cup HasPort
Launching == {"up", "restart"}
Commands == Launching \cup {"down", "kill"}   \* kill is down -f

TypeOK ==
  /\ dpc \in [Daemons -> {"off", "check", "refused", "exit"} \cup Locked]
  /\ pidFile \in Daemons \cup Marks
  /\ sock \in Daemons \cup {NoFile, Dead}
  /\ port \in Daemons \cup {NoFile}
  /\ doomed \subseteq {d \in Daemons : dpc[d] # "off"}
  /\ cpc \in [Clis -> {"idle", "probe", "launch", "await", "send", "reply", "readpid",
                       "signal", "poll", "rmsock", "rmpid"}]
  /\ cmd \in [Clis -> Commands] /\ seen \in [Clis -> Daemons \cup Marks]
  /\ overlapped \in BOOLEAN
  /\ \A c \in Clis : cpc[c] = "probe" => cmd[c] # "kill"

Init ==
  /\ dpc = [d \in Daemons |-> "off"]
  /\ pidFile = NoFile /\ sock = NoFile /\ port = NoFile /\ doomed = {}
  /\ cpc = [c \in Clis |-> "idle"] /\ cmd = [c \in Clis |-> "up"]
  /\ seen = [c \in Clis |-> NoFile] /\ overlapped = FALSE

-----------------------------------------------------------------------------
(* runDaemon. *)

Alive(d) == dpc[d] # "off"
DaemonGoto(d, where) == dpc' = [dpc EXCEPT ![d] = where]

\* A process is gone: the kernel closes its sockets, its files stay.
Gone(d) ==
  LET Of(x) == IF x = d THEN Dead ELSE x
  IN  /\ DaemonGoto(d, "off")
      /\ pidFile' = Of(pidFile) /\ sock' = Of(sock)
      /\ port' = IF port = d THEN NoFile ELSE port
      /\ doomed' = doomed \ {d}
      /\ seen' = [c \in Clis |-> Of(seen[c])]

\* Wrong on purpose: any PID file counts as stale.
CheckFileOnly(d) ==
  /\ dpc[d] = "check"
  /\ DaemonGoto(d, "write")
  /\ UNCHANGED <<fileVars, port, doomed, cliVars>>

\* WritePIDFile: a PID file that can be read and names a running process is refused.
CheckPID(d) ==
  /\ dpc[d] = "check"
  /\ DaemonGoto(d, IF pidFile \in Daemons THEN "refused" ELSE "write")
  /\ UNCHANGED <<fileVars, port, doomed, cliVars>>

TruncatePID(d) ==
  /\ dpc[d] = "write"
  /\ pidFile' = Torn
  /\ DaemonGoto(d, "fill")
  /\ UNCHANGED <<sock, port, doomed, cliVars>>

WritePID(d) ==
  /\ dpc[d] = "fill"
  /\ pidFile' = d
  /\ DaemonGoto(d, "load")
  /\ UNCHANGED <<sock, port, doomed, cliVars>>

\* From here on every return runs the deferred Cleanup.
LoadConfig(d) ==
  /\ dpc[d] = "load"
  /\ \E where \in {"dns", "rmsock"} : DaemonGoto(d, where)
  /\ UNCHANGED <<fileVars, port, doomed, cliVars>>

\* Wrong on purpose: a DNS server that does not start is only logged.
StartDNSAnyway(d) ==
  /\ dpc[d] = "dns"
  /\ port' = IF port = NoFile THEN d ELSE port
  /\ DaemonGoto(d, "unlink")
  /\ UNCHANGED <<fileVars, doomed, cliVars>>

StartDNS(d) ==
  /\ dpc[d] = "dns"
  /\ IF port = NoFile THEN port' = d /\ DaemonGoto(d, "unlink")
                      ELSE UNCHANGED port /\ DaemonGoto(d, "rmsock")
  /\ UNCHANGED <<fileVars, doomed, cliVars>>

\* Wrong on purpose: what is at the path is left to net.Listen.
KeepOldSocket(d) ==
  /\ dpc[d] = "unlink"
  /\ DaemonGoto(d, "listen")
  /\ UNCHANGED <<fileVars, port, doomed, cliVars>>

\* NewServer removes what is at the path.
RemoveOldSocket(d) ==
  /\ dpc[d] = "unlink"
  /\ sock' = NoFile
  /\ DaemonGoto(d, "listen")
  /\ UNCHANGED <<pidFile, port, doomed, cliVars>>

ListenSocket(d) ==
  /\ dpc[d] = "listen"
  /\ IF sock = NoFile THEN sock' = d /\ DaemonGoto(d, "notify")
                      ELSE UNCHANGED sock /\ DaemonGoto(d, "dnsstop")
  /\ UNCHANGED <<pidFile, port, doomed, cliVars>>

\* signal.Notify, then Serve.
StartServing(d) ==
  /\ dpc[d] = "notify"
  /\ DaemonGoto(d, "serve")
  /\ UNCHANGED <<fileVars, port, doomed, cliVars>>

\* The signal's goroutine: Engine.Stop returns and the context is cancelled.
CancelContext(d) ==
  /\ dpc[d] = "stop"
  /\ DaemonGoto(d, "close")
  /\ UNCHANGED <<fileVars, port, doomed, cliVars>>

\* Accept fails for another reason than the context's end: Serve returns, and waits for none
\* of its handlers.
AcceptFails(d) ==
  /\ dpc[d] \in {"serve", "stop"}
  /\ DaemonGoto(d, "failing")
  /\ UNCHANGED <<fileVars, port, doomed, cliVars>>

\* The goroutine that the context's end has woken: closing a unix listener unlinks its path,
\* whoever bound it last.  Where it was the deferred cancel that woke it, it is taken to have
\* run when resolver.Stop returns.
CloseListener(d) ==
  /\ dpc[d] \in {"close", "failing"}
  /\ sock' = NoFile
  /\ DaemonGoto(d, IF dpc[d] = "close" THEN "drain" ELSE "dnsstop")
  /\ UNCHANGED <<pidFile, port, doomed, cliVars>>

\* Every handler has returned.  One that writes to a client that does not read may never.
Drained(d) ==
  /\ dpc[d] = "drain"
  /\ DaemonGoto(d, "dnsstop")
  /\ UNCHANGED <<fileVars, port, doomed, cliVars>>

StopDNS(d) ==
  /\ dpc[d] = "dnsstop"
  /\ port' = NoFile
  /\ DaemonGoto(d, "rmsock")
  /\ UNCHANGED <<fileVars, doomed, cliVars>>

\* Cleanup removes by name, too.
CleanupSocket(d) ==
  /\ dpc[d] = "rmsock"
  /\ sock' = NoFile
  /\ DaemonGoto(d, "rmpid")
  /\ UNCHANGED <<pidFile, port, doomed, cliVars>>

CleanupPID(d) ==
  /\ dpc[d] = "rmpid"
  /\ pidFile' = NoFile
  /\ DaemonGoto(d, "exit")
  /\ UNCHANGED <<sock, port, doomed, cliVars>>

\* Wrong on purpose: Cleanup is deferred before the PID file is checked.
RefusedCleansUp(d) ==
  \/ /\ dpc[d] = "refused"
     /\ DaemonGoto(d, "rmsock")
     /\ UNCHANGED <<fileVars, port, doomed, cliVars>>
  \/ /\ dpc[d] = "exit"
     /\ Gone(d)
     /\ UNCHANGED <<cpc, cmd, overlapped>>

Exit(d) ==
  /\ dpc[d] \in {"refused", "exit"}
  /\ Gone(d)
  /\ UNCHANGED <<cpc, cmd, overlapped>>

\* A panic, or a signal that is not of these commands.
Crash(d) ==
  /\ Alive(d)
  /\ Gone(d)
  /\ UNCHANGED <<cpc, cmd, overlapped>>

\* The kernel ends a process that was sent a fatal signal.
Killed(d) ==
  /\ d \in doomed
  /\ Gone(d)
  /\ UNCHANGED <<cpc, cmd, overlapped>>

DaemonStep(d) ==
  /\ d \notin doomed
  /\ \/ CheckPID(d) \/ TruncatePID(d) \/ WritePID(d) \/ LoadConfig(d) \/ StartDNS(d)
     \/ RemoveOldSocket(d) \/ ListenSocket(d) \/ StartServing(d)
     \/ CancelContext(d) \/ CloseListener(d)
     \/ StopDNS(d) \/ CleanupSocket(d) \/ CleanupPID(d) \/ Exit(d)

-----------------------------------------------------------------------------
(* The commands. *)

\* Client.IsRunning: the path leads to a listener.
IsRunning == sock \in Daemons /\ dpc[sock] \in Listening

Busy == {c \in Clis : cpc[c] # "idle"}

\* The CLI process goes on in the given command; it remembers a process as long as it needs it.
CliGoto(c, where, name, d) ==
  /\ cpc' = [cpc EXCEPT ![c] = where]
  /\ cmd' = [cmd EXCEPT ![c] = IF where = "idle" THEN "up" ELSE name]
  /\ seen' = [seen EXCEPT ![c] =
                IF where \in {"await", "reply", "signal", "poll"} THEN d ELSE NoFile]
Observes == UNCHANGED <<dpc, fileVars, port, doomed, overlapped>>

\* A command starts; one that may launch a daemon needs a name for it (a bound of the model).
Command(c, name) ==
  /\ cpc[c] = "idle"
  /\ name \in Launching =>
       Cardinality({d \in Daemons : ~Alive(d)}) > Cardinality({b \in Busy : cmd[b] \in Launching})
  /\ CliGoto(c, IF name = "kill" THEN "readpid" ELSE "probe", name, NoFile)
  /\ overlapped' = (overlapped \/ Busy # {})
  /\ UNCHANGED <<dpc, fileVars, port, doomed>>

\* ensureDaemon, and the first question of down and of restart, which goes on as up.
Probe(c) ==
  /\ cpc[c] = "probe"
  /\ IF IsRunning
     THEN CliGoto(c, "send", cmd[c], NoFile)
     ELSE CliGoto(c, [up |-> "launch", down |-> "idle", restart |-> "probe"][cmd[c]],
                  IF cmd[c] = "restart" THEN "up" ELSE cmd[c], NoFile)
  /\ Observes

Launch(c) ==
  /\ cpc[c] = "launch"
  /\ \E d \in Daemons :
       /\ dpc[d] = "off"
       /\ DaemonGoto(d, "check")
       /\ CliGoto(c, "await", cmd[c], d)
  /\ UNCHANGED <<fileVars, port, doomed, overlapped>>

\* Five seconds are enough for the launched process to listen or to give up.
Await(c) ==
  /\ cpc[c] = "await"
  /\ IsRunning \/ seen[c] \notin {d \in Daemons : dpc[d] \in Starting}
  /\ CliGoto(c, IF IsRunning THEN "send" ELSE "idle", cmd[c], NoFile)
  /\ Observes

\* SendCommand connects, if there still is somebody to connect to.
Send(c) ==
  /\ cpc[c] = "send"
  /\ CliGoto(c, "reply", cmd[c], IF IsRunning THEN sock ELSE NoFile)
  /\ Observes

\* The daemon answers once it serves; if it ends first, or nobody was there, it is an error,
\* which restart ignores.  A down that names targets, or is refused, is done.
Reply(c) ==
  /\ cpc[c] = "reply"
  /\ seen[c] \in Daemons => dpc[seen[c]] # "notify"
  /\ \E where \in {"readpid", "idle"} :
       /\ cmd[c] = "restart" => where = "readpid"
       /\ where = "readpid" => cmd[c] = "restart" \/ (cmd[c] = "down" /\ seen[c] \in Daemons)
       /\ CliGoto(c, where, cmd[c], NoFile)
  /\ Observes

\* killDaemon cleans up at once if the PID file cannot be read; restart goes on to wait.
ReadPID(c) ==
  /\ cpc[c] = "readpid"
  /\ CliGoto(c, IF pidFile \notin {NoFile, Torn} THEN "signal"
                ELSE IF cmd[c] = "restart" THEN "poll" ELSE "rmsock", cmd[c], pidFile)
  /\ Observes

\* SIGINT ends a process that has not called signal.Notify; a later one than the first is
\* not read.  SIGKILL ends any.  down -f does not wait for that.
Signal(c) ==
  /\ cpc[c] = "signal"
  /\ cpc' = [cpc EXCEPT ![c] = IF cmd[c] = "kill" THEN "rmsock" ELSE "poll"]
  /\ LET d == seen[c]
     IN  IF d = Dead THEN UNCHANGED <<dpc, doomed>>
         ELSE IF cmd[c] = "kill" \/ dpc[d] \in Starting \cup {"notify"}
         THEN doomed' = doomed \cup {d} /\ UNCHANGED dpc
         ELSE /\ dpc' = [dpc EXCEPT ![d] = IF @ = "serve" THEN "stop" ELSE @]
              /\ UNCHANGED doomed
  /\ seen' = [seen EXCEPT ![c] = IF cmd[c] = "down" THEN @ ELSE NoFile]
  /\ UNCHANGED <<fileVars, port, cmd, overlapped>>

\* down waits for the process to be gone before it cleans up.
PollProcess(c) ==
  /\ cpc[c] = "poll" /\ cmd[c] = "down"
  /\ seen[c] = Dead
  /\ CliGoto(c, "rmsock", "down", NoFile)
  /\ Observes

\* Wrong on purpose: the wait for the process has no end.
PollNeverTimesOut(c) ==
  /\ cpc[c] = "poll" /\ cmd[c] = "down" /\ seen[c] = Dead
  /\ CliGoto(c, "idle", "down", NoFile)
  /\ Observes

\* "Daemon did not stop in time."
PollTimesOut(c) ==
  /\ cpc[c] = "poll" /\ cmd[c] = "down"
  /\ CliGoto(c, "idle", "down", NoFile)
  /\ Observes

\* restart waits for the listener to be gone, three seconds at most, and goes on as up.
PollSocket(c) ==
  /\ cpc[c] = "poll" /\ cmd[c] = "restart"
  /\ CliGoto(c, "probe", "up", NoFile)
  /\ Observes

\* Cleanup by killDaemon.
CliCleanupSocket(c) ==
  /\ cpc[c] = "rmsock"
  /\ sock' = NoFile
  /\ CliGoto(c, "rmpid", cmd[c], NoFile)
  /\ UNCHANGED <<dpc, pidFile, port, doomed, overlapped>>

CliCleanupPID(c) ==
  /\ cpc[c] = "rmpid"
  /\ pidFile' = NoFile
  /\ CliGoto(c, "idle", cmd[c], NoFile)
  /\ UNCHANGED <<dpc, sock, port, doomed, overlapped>>

CliStep(c) ==
  \/ Probe(c) \/ Launch(c) \/ Await(c) \/ Send(c) \/ Reply(c) \/ ReadPID(c) \/ Signal(c)
  \/ PollProcess(c) \/ PollTimesOut(c) \/ PollSocket(c)
  \/ CliCleanupSocket(c) \/ CliCleanupPID(c)

-----------------------------------------------------------------------------

Next ==
  \/ \E d \in Daemons : DaemonStep(d) \/ Crash(d) \/ Killed(d)
  \/ \E d \in Daemons \ doomed : Drained(d) \/ AcceptFails(d)
  \/ \E c \in Clis : CliStep(c) \/ \E name \in Commands : Command(c, name)

\* Processes run or are ended by what was sent to them, and poll loops end.  Nobody has to enter
\* a command, and a handler that is stuck keeps its daemon from ending.
Spec ==
  /\ Init /\ [][Next]_vars
  /\ \A d \in Daemons : WF_vars(DaemonStep(d)) /\ WF_vars(Killed(d))
  /\ \A c \in Clis : WF_vars(CliStep(c))

-----------------------------------------------------------------------------

\* The DNS port is what keeps daemons apart: who holds it is past resolver.Start and not yet
\* past its Stop, so however many are started at once only one serves.
PortHasHolder == \A d \in Daemons : dpc[d] \in HasPort <=> port = d

\* A PID file that names a running process was written by it.
PidFileIsWritten ==
  pidFile \in Daemons => dpc[pidFile] \notin {"off", "check", "refused", "write", "fill"}

\* A process that a command remembers is there: only what is gone is remembered as dead.
SeenIsThere ==
  \A c \in Clis :
    /\ seen[c] \in Daemons => Alive(seen[c])
    /\ cpc[c] = "signal" => seen[c] \in Daemons \cup {Dead}

Writing == {"write", "fill"}

\* What keeps daemons and commands out of each other's way as long as commands do not overlap:
\* whoever starts is awaited, so that nobody else starts or cleans up.  A process that down -f
\* has doomed does nothing any more, but may still hold the port.
OneCommand == \A b, c \in Clis : cpc[b] # "idle" /\ cpc[c] # "idle" => b = c
Running == Daemons \ doomed
StartIsAwaited ==
  \A d \in Daemons : dpc[d] \in Starting =>
    d \notin doomed /\ \E c \in Clis : cpc[c] = "await" /\ seen[c] = d
NobodyListensYet ==
  (\E c \in Clis : cpc[c] = "launch") \/ (\E d \in Daemons : dpc[d] \in Starting)
    => \A e \in Daemons : dpc[e] \in Listening => e \in doomed /\ sock # e
LockNamesHolder ==
  \A d \in Running :
    /\ dpc[d] \in Locked \ Writing => pidFile = d
    /\ dpc[d] \in Writing => \A e \in Running : dpc[e] \in Locked => e = d
SocketIsOwn ==
  \A d \in Running :
    /\ dpc[d] \in Listening => sock = d
    /\ dpc[d] = "listen" => sock = NoFile
EndedBeforeCleanup ==
  \A c \in Clis, d \in Running :
    dpc[d] \in Locked =>
      /\ cpc[c] \notin {"rmsock", "rmpid"}
      /\ cpc[c] = "signal" \/ (cpc[c] = "poll" /\ cmd[c] = "down") => seen[c] = d

\* The inductive invariant.
IInv ==
  /\ TypeOK /\ PortHasHolder /\ PidFileIsWritten /\ SeenIsThere
  /\ ~overlapped => /\ OneCommand /\ StartIsAwaited /\ NobodyListensYet
                    /\ LockNamesHolder /\ SocketIsOwn /\ EndedBeforeCleanup

\* lifecycle.go: "Returns an error if another daemon is already running."  While commands do
\* not overlap, one process at most is past the check of the PID file and not yet cleaned up,
\* apart from what down -f has sent SIGKILL.
PidLockHolds ==
  ~overlapped => \A d, e \in Running : dpc[d] \in Locked /\ dpc[e] \in Locked => d = e

\* While commands do not overlap, a daemon that serves is the one that the socket and the PID
\* file lead to: no daemon and no command removes the files of another.
ServingIsReachable ==
  ~overlapped => \A d \in Running : dpc[d] = "serve" => sock = d /\ pidFile = d

\* What a crash, a kill or a failed start leaves behind does not keep the next daemon from
\* starting.
LeftoversDoNotBlock ==
  [][\A d \in Daemons :
       (/\ dpc[d] \in {"check", "dns", "listen"} /\ ~overlapped
        /\ \A e \in Daemons \ {d} : ~Alive(e))
         => dpc'[d] \notin {"refused", "rmsock", "dnsstop"}]_vars

\* Every command returns to the shell, even if the daemon hangs as it shuts down.
CommandEnds == \A c \in Clis : []<>(cpc[c] = "idle")

=============================================================================
