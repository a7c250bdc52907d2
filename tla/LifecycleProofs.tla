-------------------------- MODULE LifecycleProofs --------------------------
(* For any number of daemons and commands: the DNS port has one holder, and as *)
(* long as commands do not overlap nobody runs beside a daemon, other than one *)
(* that was sent SIGKILL, removes its files, or is kept from starting by what  *)
(* another left behind.                                                        *)
EXTENDS Lifecycle, TLAPS

LEMMA InitIInv == Init => IInv
<1> SUFFICES ASSUME Init PROVE IInv
  OBVIOUS
<1>1. TypeOK
  BY DEF Init, TypeOK, Marks, NoFile, Commands, Launching
<1>2. PortHasHolder /\ PidFileIsWritten /\ SeenIsThere
  BY LifecycleAssumption
  DEF Init, PortHasHolder, PidFileIsWritten, SeenIsThere, Marks, NoFile, HasPort, Listening
<1>3. /\ OneCommand /\ StartIsAwaited /\ NobodyListensYet
      /\ LockNamesHolder /\ SocketIsOwn /\ EndedBeforeCleanup
  BY DEF Init, OneCommand, StartIsAwaited, NobodyListensYet, LockNamesHolder, SocketIsOwn,
         EndedBeforeCleanup, Running, Locked, HasPort, Listening, Starting, Writing
<1> QED
  BY <1>1, <1>2, <1>3 DEF IInv

LEMMA DaemonKeeps ==
  ASSUME IInv, NEW d \in Daemons,
         DaemonStep(d) \/ (d \notin doomed /\ (Drained(d) \/ AcceptFails(d)))
           \/ Crash(d) \/ Killed(d)
  PROVE  IInv'
<1> USE LifecycleAssumption DEF IInv, TypeOK, PortHasHolder, PidFileIsWritten, SeenIsThere, OneCommand,
  StartIsAwaited, NobodyListensYet, LockNamesHolder, SocketIsOwn, EndedBeforeCleanup, Running, NoFile,
  Torn, Dead, Marks, Commands, Launching, Locked, HasPort, Listening, Starting, Writing,
  fileVars, cliVars, DaemonGoto, Alive
<1>1. CASE d \notin doomed /\ CheckPID(d)
  BY <1>1 DEF CheckPID
<1>2. CASE d \notin doomed /\ TruncatePID(d)
  BY <1>2 DEF TruncatePID
<1>3. CASE d \notin doomed /\ WritePID(d)
  BY <1>3 DEF WritePID
<1>4. CASE d \notin doomed /\ LoadConfig(d)
  BY <1>4 DEF LoadConfig
<1>5. CASE d \notin doomed /\ StartDNS(d)
  BY <1>5 DEF StartDNS
<1>6. CASE d \notin doomed /\ RemoveOldSocket(d)
  BY <1>6 DEF RemoveOldSocket
<1>7. CASE d \notin doomed /\ ListenSocket(d)
  BY <1>7 DEF ListenSocket
<1>8. CASE d \notin doomed /\ StartServing(d)
  BY <1>8 DEF StartServing
<1>9. CASE d \notin doomed /\ CancelContext(d)
  BY <1>9 DEF CancelContext
<1>10. CASE d \notin doomed /\ CloseListener(d)
  BY <1>10 DEF CloseListener
<1>11. CASE d \notin doomed /\ StopDNS(d)
  BY <1>11 DEF StopDNS
<1>12. CASE d \notin doomed /\ CleanupSocket(d)
  BY <1>12 DEF CleanupSocket
<1>13. CASE d \notin doomed /\ CleanupPID(d)
  BY <1>13 DEF CleanupPID
<1>14. CASE d \notin doomed /\ Exit(d)
  BY <1>14 DEF Exit, Gone
<1>15. CASE d \notin doomed /\ Drained(d)
  BY <1>15 DEF Drained
<1>16. CASE d \notin doomed /\ AcceptFails(d)
  BY <1>16 DEF AcceptFails
<1>17. CASE Crash(d)
  BY <1>17 DEF Crash, Gone
<1>18. CASE Killed(d)
  BY <1>18 DEF Killed, Gone
<1> QED
  BY <1>1, <1>2, <1>3, <1>4, <1>5, <1>6, <1>7, <1>8, <1>9, <1>10, <1>11, <1>12, <1>13, <1>14,
     <1>15, <1>16, <1>17, <1>18 DEF DaemonStep

LEMMA CliKeeps ==
  ASSUME IInv, NEW c \in Clis, CliStep(c) \/ \E name \in Commands : Command(c, name) PROVE IInv'
<1> USE LifecycleAssumption DEF IInv, TypeOK, PortHasHolder, PidFileIsWritten, SeenIsThere, OneCommand,
  StartIsAwaited, NobodyListensYet, LockNamesHolder, SocketIsOwn, EndedBeforeCleanup, Running, NoFile,
  Torn, Dead, Marks, Commands, Launching, Locked, HasPort, Listening, Starting, Writing,
  fileVars, Alive, DaemonGoto, CliGoto, Observes, IsRunning
<1>1. CASE Probe(c)
  BY <1>1 DEF Probe
<1>2. CASE Launch(c)
  BY <1>2 DEF Launch
<1>3. CASE Await(c)
  BY <1>3 DEF Await
<1>4. CASE Send(c)
  BY <1>4 DEF Send
<1>5. CASE Reply(c)
  BY <1>5 DEF Reply
<1>6. CASE ReadPID(c)
  BY <1>6 DEF ReadPID
<1>7. CASE Signal(c)
  BY <1>7 DEF Signal, Gone
<1>8. CASE PollProcess(c)
  BY <1>8 DEF PollProcess
<1>9. CASE PollTimesOut(c)
  BY <1>9 DEF PollTimesOut
<1>10. CASE PollSocket(c)
  BY <1>10 DEF PollSocket
<1>11. CASE CliCleanupSocket(c)
  BY <1>11 DEF CliCleanupSocket
<1>12. CASE CliCleanupPID(c)
  BY <1>12 DEF CliCleanupPID
<1>13. ASSUME NEW name \in Commands, Command(c, name) PROVE IInv'
  <2>1. /\ cpc[c] = "idle" /\ UNCHANGED <<dpc, pidFile, sock, port, doomed>>
        /\ cpc' = [cpc EXCEPT ![c] = IF name = "kill" THEN "readpid" ELSE "probe"]
        /\ cmd' = [cmd EXCEPT ![c] = name] /\ seen' = [seen EXCEPT ![c] = NoFile]
    BY <1>13 DEF Command
  <2>2. /\ overlapped' \in BOOLEAN
        /\ ~overlapped' => ~overlapped /\ \A b \in Clis : cpc[b] = "idle"
    BY <1>13 DEF Command, Busy
  <2>3. TypeOK' /\ PortHasHolder' /\ PidFileIsWritten' /\ SeenIsThere'
    BY <2>1, <2>2
  <2>4. ASSUME ~overlapped'
        PROVE  /\ OneCommand' /\ StartIsAwaited' /\ NobodyListensYet'
               /\ LockNamesHolder' /\ SocketIsOwn' /\ EndedBeforeCleanup'
    BY <2>1, <2>2, <2>4
  <2> QED
    BY <2>3, <2>4
<1> QED
  BY <1>1, <1>2, <1>3, <1>4, <1>5, <1>6, <1>7, <1>8, <1>9, <1>10, <1>11, <1>12, <1>13 DEF CliStep

LEMMA StepIInv == IInv /\ [Next]_vars => IInv'
<1> SUFFICES ASSUME IInv, [Next]_vars PROVE IInv'
  OBVIOUS
<1>1. CASE UNCHANGED vars
  BY <1>1
  DEF IInv, TypeOK, PortHasHolder, PidFileIsWritten, SeenIsThere, OneCommand, StartIsAwaited,
      Alive, NobodyListensYet, LockNamesHolder, SocketIsOwn, EndedBeforeCleanup, Running, vars,
      fileVars, cliVars
<1>2. CASE Next
  BY <1>2, DaemonKeeps, CliKeeps DEF Next
<1> QED
  BY <1>1, <1>2

-----------------------------------------------------------------------------

\* The inductive invariant.  Its first part holds however commands overlap: the DNS port has
\* one holder, and a PID file that names a process was written by it.  The rest is about
\* commands that do not overlap: a daemon that starts is awaited, so no other starts meanwhile,
\* and a command removes files only when nobody is past the check of the PID file.
THEOREM Invariance == Spec => []IInv
<1>1. Init => IInv
  BY InitIInv
<1>2. IInv /\ [Next]_vars => IInv'
  BY StepIInv
<1> QED
  BY <1>1, <1>2, PTL DEF Spec

\* One process at most is past the check of the PID file while commands do not overlap, apart
\* from what down -f has sent SIGKILL.
THEOREM OneDaemon == Spec => []PidLockHolds
<1>1. IInv => PidLockHolds
  BY LifecycleAssumption
  DEF IInv, TypeOK, LockNamesHolder, PidLockHolds, Running, Locked, HasPort, Listening, Writing
<1> QED
  BY <1>1, Invariance, PTL

\* The socket and the PID file lead to the daemon that serves while commands do not overlap.
THEOREM DaemonIsFound == Spec => []ServingIsReachable
<1>1. IInv => ServingIsReachable
  BY DEF IInv, LockNamesHolder, SocketIsOwn, ServingIsReachable, Running, Locked, HasPort,
         Listening, Writing
<1> QED
  BY <1>1, Invariance, PTL

\* What a dead process left behind stops no start: the PID file would have to name a running
\* process, the port to be held, or the socket's path to be taken again.
LEMMA StepStarts ==
  IInv /\ [Next]_vars =>
    \A d \in Daemons :
      (/\ dpc[d] \in {"check", "dns", "listen"} /\ ~overlapped
       /\ \A e \in Daemons \ {d} : ~Alive(e))
        => dpc'[d] \notin {"refused", "rmsock", "dnsstop"}
<1> SUFFICES ASSUME IInv, [Next]_vars, NEW d \in Daemons,
                    dpc[d] \in {"check", "dns", "listen"}, ~overlapped,
                    \A e \in Daemons \ {d} : ~Alive(e)
             PROVE  dpc'[d] \notin {"refused", "rmsock", "dnsstop"}
  OBVIOUS
<1> USE DEF Alive, DaemonGoto, Gone
<1>1. dpc[d] = "check" => pidFile \notin Daemons
  BY DEF IInv, PidFileIsWritten
<1>2. dpc[d] = "dns" => port = NoFile
  BY DEF IInv, TypeOK, PortHasHolder, HasPort, Listening
<1>3. dpc[d] = "listen" => sock = NoFile
  BY DEF IInv, StartIsAwaited, SocketIsOwn, Running, Starting
<1>4. dpc \in [Daemons -> {"off", "check", "refused", "exit"} \cup Locked]
  BY DEF IInv, TypeOK
<1>5. CASE UNCHANGED vars
  BY <1>5 DEF vars
<1>6. ASSUME NEW e \in Daemons,
             DaemonStep(e) \/ Drained(e) \/ AcceptFails(e) \/ Crash(e) \/ Killed(e)
      PROVE  dpc'[d] \notin {"refused", "rmsock", "dnsstop"}
  BY <1>1, <1>2, <1>3, <1>4, <1>6
  DEF DaemonStep, CheckPID, TruncatePID, WritePID, LoadConfig, StartDNS, RemoveOldSocket,
      ListenSocket, StartServing, CancelContext, CloseListener, StopDNS, CleanupSocket,
      CleanupPID, Exit, Drained, AcceptFails, Crash, Killed
<1>7. ASSUME NEW c \in Clis, CliStep(c) \/ \E name \in Commands : Command(c, name)
      PROVE  dpc'[d] \notin {"refused", "rmsock", "dnsstop"}
  BY <1>4, <1>7
  DEF CliStep, Probe, Launch, Await, Send, Reply, ReadPID, Signal, PollProcess, PollTimesOut,
      PollSocket, CliCleanupSocket, CliCleanupPID, Command, Observes
<1> QED
  BY <1>5, <1>6, <1>7 DEF Next

\* A daemon that starts alone gets as far as its configuration lets it, whatever crashed
\* before.
THEOREM StartsAlone == Spec => LeftoversDoNotBlock
<1>1. IInv /\ [Next]_vars =>
        [\A d \in Daemons :
           (/\ dpc[d] \in {"check", "dns", "listen"} /\ ~overlapped
            /\ \A e \in Daemons \ {d} : ~Alive(e))
             => dpc'[d] \notin {"refused", "rmsock", "dnsstop"}]_vars
  BY StepStarts
<1> QED
  BY <1>1, Invariance, PTL DEF Spec, LeftoversDoNotBlock

=============================================================================
