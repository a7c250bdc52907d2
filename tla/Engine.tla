------------------------------- MODULE Engine -------------------------------
(* The engine (internal/engine/engine.go): Start, Stop and DropSessions run   *)
(* by the daemon's goroutines, and one runService loop per serviceInstance.   *)
(*                                                                            *)
(* A step is what one goroutine does between two points where another one can *)
(* intervene: one critical section of e.mu or si.mu, one call of a            *)
(* collaborator, one receive.  A session process is what session/manager.go   *)
(* shows its callers: live, asked to end (term), killed (kill), gone (its     *)
(* done channel closed).                                                      *)
(*                                                                            *)
(* Delays, the cached SSM target and how the allocator probes for an address  *)
(* are left to other modules.  A name of Insts or Sessions stands for one     *)
(* value at a time and is free for a new one once nothing refers to the old.  *)
(*                                                                            *)
(* Definitions marked "wrong on purpose" are not part of Spec: each is a      *)
(* plausible mistake in the definition that follows it, and shows that the    *)
(* properties would notice it.                                                *)
EXTENDS Naturals, FiniteSets, ServiceState

CONSTANTS
  Services,        \* the configured services: keys "profile/service"
  Callers,         \* goroutines that handle up and down requests
  Insts,           \* names for serviceInstance values
  ServiceOf,       \* the service an instance is of
  Sessions,        \* names for SSM sessions
  OwnerOf,         \* the instance whose loop starts a session
  Addresses,       \* the loopback addresses
  Home,            \* the address that a service's key hashes to
  NoInst, NoSess, NoAddr, \* nil
  MaxNetChanges    \* how many network events a behaviour has

ProxyPlaces == {"none", "connect", "field", "loop"}

ASSUME NilAssumption == NoInst \notin Insts /\ NoSess \notin Sessions
ASSUME AddressAssumption == NoAddr \notin Addresses /\ Home \in [Services -> Addresses]
ASSUME NamesAssumption == /\ ServiceOf \in [Insts -> Services]
                          /\ OwnerOf \in [Sessions -> Insts]
ASSUME CallersAssumption == Callers \cap ProxyPlaces = {}
ASSUME NetAssumption == MaxNetChanges \in Nat

VARIABLES
  instances,  \* Engine.instances: key -> instance or NoInst
  st,         \* si.state
  session,    \* si.session
  ctxDone,    \* the context that si.cancel cancels is done
  pc,         \* where the instance's runService goroutine is
  sess,       \* its local session
  expired,    \* the error it handles wraps ErrCredentialsExpired
  proxyAt,    \* who holds the instance's open listener: si.tcpProxy ("field"), or a local
  proc,       \* the session's process group
  ips,        \* the allocator: the address that a service's key holds, or NoAddr
  dns,        \* the resolver: the address that a service's hostname leads to, or NoAddr
  addr,       \* the address that the loop's connect works with
  cpc,        \* what a caller is doing
  todo, new,  \* Start's remaining targets, and the instance it is creating
  stopPc,     \* where the caller's stopService goroutine for an instance is
  stopSess,   \* its local sess
  dropping,   \* a DropSessions is running
  dropTodo,   \* instances it has yet to look at
  dropTerm, dropWait, \* sessions it is about to signal, and those it waits for
  netEvt,     \* a network event waits in the follower's channel
  netChanges, \* network events so far
  panicked    \* the daemon died calling a nil si.cancel

instVars == <<instances, st, session, ctxDone>>
loopVars == <<pc, sess, expired, proxyAt>>
nameVars == <<ips, dns, addr>>
serviceVars == <<instVars, loopVars, proc, nameVars>>
callVars == <<cpc, todo, new>>
stopVars == <<stopPc, stopSess>>
dropVars == <<dropping, dropTodo, dropTerm, dropWait>>
netVars  == <<netEvt, netChanges>>
envVars  == <<dropVars, netVars, panicked>>
requestVars == <<callVars, stopVars, envVars>>
vars == <<serviceVars, requestVars>>

LoopLabels == {"idle", "top", "begin", "alloc", "dns", "start", "proxy", "commit",
               "abortproxy", "abortsess", "abortwait", "failed", "wait", "take",
               "stopproxy", "rec", "delay", "done"}
StopLabels == {"none", "cancel", "read", "stopping", "term", "reap", "take", "close",
               "disc", "stopped", "released", "deleted"}
CallerLabels == {"idle", "up", "alloc", "insert", "spawn", "down"}
ProcStates == {"live", "term", "kill", "gone"}

TypeOK ==
  /\ instances \in [Services -> Insts \cup {NoInst}]
  /\ st \in [Insts -> ServiceStates]
  /\ session \in [Insts -> Sessions \cup {NoSess}]
  /\ ctxDone \in [Insts -> BOOLEAN]
  /\ pc \in [Insts -> LoopLabels]
  /\ sess \in [Insts -> Sessions \cup {NoSess}]
  /\ expired \in [Insts -> BOOLEAN]
  /\ proxyAt \in [Insts -> ProxyPlaces \cup Callers]
  /\ proc \in [Sessions -> ProcStates]
  /\ ips \in [Services -> Addresses \cup {NoAddr}]
  /\ dns \in [Services -> Addresses \cup {NoAddr}]
  /\ addr \in [Insts -> Addresses \cup {NoAddr}]
  /\ cpc \in [Callers -> CallerLabels]
  /\ todo \in [Callers -> SUBSET Services]
  /\ new \in [Callers -> Insts \cup {NoInst}]
  /\ stopPc \in [Callers -> [Insts -> StopLabels]]
  /\ stopSess \in [Callers -> [Insts -> Sessions \cup {NoSess}]]
  /\ dropping \in BOOLEAN
  /\ dropTodo \in SUBSET Insts
  /\ dropTerm \in SUBSET Sessions
  /\ dropWait \in SUBSET Sessions
  /\ netEvt \in BOOLEAN
  /\ netChanges \in 0..MaxNetChanges
  /\ panicked \in BOOLEAN

Init ==
  /\ instances = [k \in Services |-> NoInst]
  /\ st = [i \in Insts |-> "Disconnected"]
  /\ session = [i \in Insts |-> NoSess]
  /\ ctxDone = [i \in Insts |-> FALSE]
  /\ pc = [i \in Insts |-> "idle"]
  /\ sess = [i \in Insts |-> NoSess]
  /\ expired = [i \in Insts |-> FALSE]
  /\ proxyAt = [i \in Insts |-> "none"]
  /\ proc = [s \in Sessions |-> "gone"]
  /\ ips = [k \in Services |-> NoAddr]
  /\ dns = [k \in Services |-> NoAddr]
  /\ addr = [i \in Insts |-> NoAddr]
  /\ cpc = [c \in Callers |-> "idle"]
  /\ todo = [c \in Callers |-> {}]
  /\ new = [c \in Callers |-> NoInst]
  /\ stopPc = [c \in Callers |-> [i \in Insts |-> "none"]]
  /\ stopSess = [c \in Callers |-> [i \in Insts |-> NoSess]]
  /\ dropping = FALSE
  /\ dropTodo = {}
  /\ dropTerm = {}
  /\ dropWait = {}
  /\ netEvt = FALSE
  /\ netChanges = 0
  /\ panicked = FALSE

-----------------------------------------------------------------------------
(* Names that nothing refers to. *)

Running == {instances[k] : k \in Services} \ {NoInst}

\* No goroutine, map entry or resource is left of the instance last named i.
FreeInst(i) ==
  /\ i \notin Running
  /\ pc[i] \in {"idle", "done"}
  /\ proxyAt[i] = "none"
  /\ i \notin dropTodo
  /\ \A c \in Callers : new[c] # i /\ stopPc[c][i] = "none"
  /\ \A s \in Sessions : OwnerOf[s] = i =>
       proc[s] = "gone" /\ s \notin dropTerm \cup dropWait

\* The session last named s has ended and nobody will look at it again.
FreeSess(s) ==
  /\ proc[s] = "gone"
  /\ sess[OwnerOf[s]] # s
  /\ session[OwnerOf[s]] # s
  /\ \A c \in Callers : stopSess[c][OwnerOf[s]] # s
  /\ s \notin dropTerm \cup dropWait

\* Allocator.Allocate: the address that the key holds already, or else the one it hashes to, or
\* another one that is free (Addresses models the search), or none when all are taken.
Allocations(k) ==
  LET free == {a \in Addresses : \A j \in Services : ips[j] # a}
  IN  IF ips[k] # NoAddr THEN {ips[k]}
      ELSE IF Home[k] \in free THEN {Home[k]}
      ELSE IF free # {} THEN free
      ELSE {NoAddr}

\* The resolver's records, which DNSAdapter writes and removes name by name, ignoring its
\* context: the last address given for a hostname is the one it leads to.
Register(k, a) == dns' = [dns EXCEPT ![k] = a]
Unregister(keys) == dns' = [k \in Services |-> IF k \in keys THEN NoAddr ELSE dns[k]]

\* Wrong on purpose: SIGKILL where SIGTERM belongs.
TerminateAtOnce(s) == proc' = [proc EXCEPT ![s] = IF @ = "live" THEN "kill" ELSE @]

\* Session.Stop up to its wait: a session whose done channel is closed is not signalled.
Terminate(s) == proc' = [proc EXCEPT ![s] = IF @ = "live" THEN "term" ELSE @]

\* Wrong on purpose: no timeout, no SIGKILL.
ReapPatiently(s) == proc[s] = "gone" /\ UNCHANGED proc

\* Session.Stop after its wait: the session ended, or the timeout passed and it is killed.
Reap(s) ==
  \/ proc[s] = "gone" /\ UNCHANGED proc
  \/ proc[s] # "gone" /\ proc' = [proc EXCEPT ![s] = "kill"]

-----------------------------------------------------------------------------
(* runService: one loop per instance. *)

Goto(i, label) == pc' = [pc EXCEPT ![i] = label]

\* si.transition, then the loop goes on at label; a refused move ends the loop.
MoveOrExit(i, to, label) ==
  /\ st' = [st EXCEPT ![i] = IF CanMove(@, to) THEN to ELSE @]
  /\ Goto(i, IF CanMove(st[i], to) THEN label ELSE "done")

\* connect returned an error, which the loop ignores if its context is done by now.
ConnectError(i) == Goto(i, IF ctxDone[i] THEN "done" ELSE "failed")

\* Wrong on purpose: a done context starts the wait again instead of ending the loop.
LoopNextRoundForever(i) ==
  /\ pc[i] \in {"top", "delay"}
  /\ Goto(i, IF ctxDone[i] THEN "delay" ELSE "begin")
  /\ UNCHANGED <<instVars, sess, expired, proxyAt, proc, nameVars, requestVars>>

\* The context check that opens a round, after the delay if it is not the first one.
LoopNextRound(i) ==
  /\ pc[i] \in {"top", "delay"}
  /\ Goto(i, IF ctxDone[i] THEN "done" ELSE "begin")
  /\ UNCHANGED <<instVars, sess, expired, proxyAt, proc, nameVars, requestVars>>

LoopBegin(i) ==
  /\ pc[i] = "begin"
  /\ MoveOrExit(i, "Starting", "alloc")
  /\ UNCHANGED <<instances, session, ctxDone, sess, expired, proxyAt, proc, nameVars,
                 requestVars>>

\* Wrong on purpose: connect goes on without registering the hostname.
ConnectAllocateOnly(i) ==
  /\ pc[i] = "alloc"
  /\ \E a \in Allocations(ServiceOf[i]) :
       /\ ips' = [ips EXCEPT ![ServiceOf[i]] = a]
       /\ addr' = [addr EXCEPT ![i] = a]
  /\ Goto(i, "start")
  /\ UNCHANGED <<instVars, sess, expired, proxyAt, proc, dns, requestVars>>

\* An error of Allocate is ignored: connect goes on without an address.
ConnectAllocate(i) ==
  /\ pc[i] = "alloc"
  /\ \E a \in Allocations(ServiceOf[i]) :
       /\ ips' = [ips EXCEPT ![ServiceOf[i]] = a]
       /\ addr' = [addr EXCEPT ![i] = a]
  /\ Goto(i, "dns")
  /\ UNCHANGED <<instVars, sess, expired, proxyAt, proc, dns, requestVars>>

\* The daemon's DNSManager, resolver.DNSAdapter, never fails.  The address is the one read
\* before, whether or not the loop has been cancelled and the address given away since.
ConnectAddDNS(i) ==
  /\ pc[i] = "dns"
  /\ Register(ServiceOf[i], addr[i])
  /\ Goto(i, "start")
  /\ UNCHANGED <<instVars, sess, expired, proxyAt, proc, ips, addr, requestVars>>

\* freePort and Resolve succeeded, then SessionManager.Start: os/exec refuses to start a
\* command whose context is done.
ConnectStartSession(i) ==
  /\ pc[i] = "start"
  /\ ~ctxDone[i]
  /\ \E s \in Sessions :
       /\ OwnerOf[s] = i /\ FreeSess(s)
       /\ proc' = [proc EXCEPT ![s] = "live"]
       /\ sess' = [sess EXCEPT ![i] = s]
  /\ Goto(i, "proxy")
  /\ UNCHANGED <<instVars, expired, proxyAt, nameVars, requestVars>>

\* freePort, BastionResolver.Resolve or SessionManager.Start failed.
ConnectStartFails(i) ==
  /\ pc[i] = "start"
  /\ ConnectError(i)
  /\ \E e \in BOOLEAN : expired' = [expired EXCEPT ![i] = e /\ ~ctxDone[i]]
  /\ UNCHANGED <<instVars, sess, proxyAt, proc, nameVars, requestVars>>

\* ProxyFactory.NewProxy listens, and users can connect from now on.  It needs an address, and
\* one that no other proxy of the service listens on; other services have other ports.
ConnectOpenProxy(i) ==
  /\ pc[i] = "proxy"
  /\ addr[i] # NoAddr
  /\ \A j \in Insts : ServiceOf[j] = ServiceOf[i] /\ addr[j] = addr[i] => proxyAt[j] = "none"
  /\ proxyAt' = [proxyAt EXCEPT ![i] = "connect"]
  /\ Goto(i, "commit")
  /\ UNCHANGED <<instVars, sess, expired, proc, nameVars, requestVars>>

ConnectOpenProxyFails(i) ==
  /\ pc[i] = "proxy"
  /\ \E e \in BOOLEAN : expired' = [expired EXCEPT ![i] = e]
  /\ Goto(i, "abortsess")
  /\ UNCHANGED <<instVars, sess, proxyAt, proc, nameVars, requestVars>>

\* Wrong on purpose: the commit does not look at the context.
ConnectCommitUnchecked(i) ==
  /\ pc[i] = "commit"
  /\ CanMove(st[i], "Connected")
  /\ st' = [st EXCEPT ![i] = "Connected"]
  /\ session' = [session EXCEPT ![i] = sess[i]]
  /\ proxyAt' = [proxyAt EXCEPT ![i] = "field"]
  /\ Goto(i, "wait")
  /\ UNCHANGED <<instances, ctxDone, sess, expired, proc, nameVars, requestVars>>

\* Wrong on purpose: the commit publishes the state but not the session.
ConnectCommitHalf(i) ==
  /\ pc[i] = "commit"
  /\ ~ctxDone[i]
  /\ CanMove(st[i], "Connected")
  /\ st' = [st EXCEPT ![i] = "Connected"]
  /\ proxyAt' = [proxyAt EXCEPT ![i] = "field"]
  /\ Goto(i, "wait")
  /\ UNCHANGED <<instances, session, ctxDone, sess, expired, proc, nameVars, requestVars>>

\* The critical section that publishes the session and the proxy.
ConnectCommit(i) ==
  /\ pc[i] = "commit"
  /\ ~ctxDone[i]
  /\ CanMove(st[i], "Connected")
  /\ st' = [st EXCEPT ![i] = "Connected"]
  /\ session' = [session EXCEPT ![i] = sess[i]]
  /\ proxyAt' = [proxyAt EXCEPT ![i] = "field"]
  /\ Goto(i, "wait")
  /\ UNCHANGED <<instances, ctxDone, sess, expired, proc, nameVars, requestVars>>

\* Wrong on purpose: connect returns the context's error before its clean-up is in place.
ConnectRefusedLeaves(i) ==
  /\ pc[i] = "commit"
  /\ ctxDone[i] \/ ~CanMove(st[i], "Connected")
  /\ ConnectError(i)
  /\ UNCHANGED <<instVars, sess, expired, proxyAt, proc, nameVars, requestVars>>

\* The same critical section when the service was stopped meanwhile.
ConnectRefused(i) ==
  /\ pc[i] = "commit"
  /\ ctxDone[i] \/ ~CanMove(st[i], "Connected")
  /\ Goto(i, "abortproxy")
  /\ UNCHANGED <<instVars, sess, expired, proxyAt, proc, nameVars, requestVars>>

\* connect's deferred cleanup: tcpProxy.Stop, then sess.Stop with its own timeout.
ConnectStopProxy(i) ==
  /\ pc[i] = "abortproxy"
  /\ proxyAt' = [proxyAt EXCEPT ![i] = "none"]
  /\ Goto(i, "abortsess")
  /\ UNCHANGED <<instVars, sess, expired, proc, nameVars, requestVars>>

ConnectStopSession(i) ==
  /\ pc[i] = "abortsess"
  /\ Terminate(sess[i])
  /\ Goto(i, "abortwait")
  /\ UNCHANGED <<instVars, sess, expired, proxyAt, nameVars, requestVars>>

ConnectSessionStopped(i) ==
  /\ pc[i] = "abortwait"
  /\ Reap(sess[i])
  /\ sess' = [sess EXCEPT ![i] = NoSess]
  /\ expired' = [expired EXCEPT ![i] = @ /\ ~ctxDone[i]]
  /\ ConnectError(i)
  /\ UNCHANGED <<instVars, proxyAt, nameVars, requestVars>>

\* connect failed and will be tried again.
LoopConnectRetry(i) ==
  /\ pc[i] = "failed" /\ ~expired[i]
  /\ MoveOrExit(i, "Reconnecting", "delay")
  /\ UNCHANGED <<instances, session, ctxDone, sess, expired, proxyAt, proc, nameVars,
                 requestVars>>

\* Session.Wait returns; unless the context is done by now, the loop takes care of its end.
LoopSessionEnded(i) ==
  /\ pc[i] = "wait"
  /\ proc[sess[i]] = "gone"
  /\ sess' = [sess EXCEPT ![i] = NoSess]
  /\ \E e \in BOOLEAN : expired' = [expired EXCEPT ![i] = e /\ ~ctxDone[i]]
  /\ Goto(i, IF ctxDone[i] THEN "done" ELSE "take")
  /\ UNCHANGED <<instVars, proxyAt, proc, nameVars, requestVars>>

LoopTakeProxy(i) ==
  /\ pc[i] = "take"
  /\ proxyAt' = [proxyAt EXCEPT ![i] = IF @ = "field" THEN "loop" ELSE @]
  /\ session' = [session EXCEPT ![i] = NoSess]
  /\ Goto(i, "stopproxy")
  /\ UNCHANGED <<instances, st, ctxDone, sess, expired, proc, nameVars, requestVars>>

LoopStopProxy(i) ==
  /\ pc[i] = "stopproxy"
  /\ proxyAt' = [proxyAt EXCEPT ![i] = IF @ = "loop" THEN "none" ELSE @]
  /\ Goto(i, "rec")
  /\ UNCHANGED <<instVars, sess, expired, proc, nameVars, requestVars>>

\* reconnecting, after a session that was connected.
LoopReconnecting(i) ==
  /\ pc[i] = "rec"
  /\ MoveOrExit(i, "Reconnecting", IF expired[i] THEN "failed" ELSE "delay")
  /\ expired' = [expired EXCEPT ![i] = @ /\ CanMove(st[i], "Reconnecting")]
  /\ UNCHANGED <<instances, session, ctxDone, sess, proxyAt, proc, nameVars, requestVars>>

\* credentialsExpired: the move to Failed and the CredentialsExpired event end the loop.
LoopCredentialsExpired(i) ==
  /\ pc[i] = "failed" /\ expired[i]
  /\ MoveOrExit(i, "Failed", "done")
  /\ expired' = [expired EXCEPT ![i] = FALSE]
  /\ UNCHANGED <<instances, session, ctxDone, sess, proxyAt, proc, nameVars, requestVars>>

LoopStep(i) ==
  \/ LoopNextRound(i) \/ LoopBegin(i)
  \/ ConnectAllocate(i) \/ ConnectAddDNS(i)
  \/ ConnectStartSession(i) \/ ConnectStartFails(i)
  \/ ConnectOpenProxy(i) \/ ConnectOpenProxyFails(i)
  \/ ConnectCommit(i) \/ ConnectRefused(i)
  \/ ConnectStopProxy(i) \/ ConnectStopSession(i) \/ ConnectSessionStopped(i)
  \/ LoopConnectRetry(i) \/ LoopSessionEnded(i)
  \/ LoopTakeProxy(i) \/ LoopStopProxy(i) \/ LoopReconnecting(i)
  \/ LoopCredentialsExpired(i)

-----------------------------------------------------------------------------
(* Engine.Start, by the caller's goroutine. *)

\* An up request; Start handles its targets one after the other.
UpRequest(c, targets) ==
  /\ cpc[c] = "idle"
  /\ cpc' = [cpc EXCEPT ![c] = "up"]
  /\ todo' = [todo EXCEPT ![c] = targets]
  /\ UNCHANGED <<serviceVars, new, stopVars, envVars>>

\* Already running, skipping.
UpSkip(c) ==
  /\ cpc[c] = "up"
  /\ \E k \in todo[c] :
       /\ instances[k] # NoInst
       /\ todo' = [todo EXCEPT ![c] = @ \ {k}]
  /\ UNCHANGED <<serviceVars, cpc, new, stopVars, envVars>>

\* No entry under the read lock: a name is chosen for the instance to create.
UpCheck(c) ==
  /\ cpc[c] = "up"
  /\ \E i \in Insts :
       /\ ServiceOf[i] \in todo[c] /\ instances[ServiceOf[i]] = NoInst
       /\ FreeInst(i)
       /\ todo' = [todo EXCEPT ![c] = @ \ {ServiceOf[i]}]
       /\ new' = [new EXCEPT ![c] = i]
       /\ st' = [st EXCEPT ![i] = "Disconnected"]
       /\ session' = [session EXCEPT ![i] = NoSess]
       /\ ctxDone' = [ctxDone EXCEPT ![i] = FALSE]
       /\ pc' = [pc EXCEPT ![i] = "idle"]
       /\ addr' = [addr EXCEPT ![i] = NoAddr]
  /\ cpc' = [cpc EXCEPT ![c] = "alloc"]
  /\ UNCHANGED <<instances, sess, expired, proxyAt, proc, ips, dns, stopVars, envVars>>

\* When every address is taken Start returns the error, and its other targets stay unstarted.
UpAllocate(c) ==
  /\ cpc[c] = "alloc"
  /\ \E a \in Allocations(ServiceOf[new[c]]) :
       /\ ips' = [ips EXCEPT ![ServiceOf[new[c]]] = a]
       /\ cpc' = [cpc EXCEPT ![c] = IF a = NoAddr THEN "up" ELSE "insert"]
       /\ new' = [new EXCEPT ![c] = IF a = NoAddr THEN NoInst ELSE @]
       /\ todo' = [todo EXCEPT ![c] = IF a = NoAddr THEN {} ELSE @]
  /\ UNCHANGED <<instVars, loopVars, proc, dns, addr, stopVars, envVars>>

UpInsert(c) ==
  /\ cpc[c] = "insert"
  /\ instances' = [instances EXCEPT ![ServiceOf[new[c]]] = new[c]]
  /\ cpc' = [cpc EXCEPT ![c] = "spawn"]
  /\ UNCHANGED <<st, session, ctxDone, loopVars, proc, nameVars, todo, new, stopVars,
                 envVars>>

\* si.cancel is assigned and the loop starts.
UpSpawn(c) ==
  /\ cpc[c] = "spawn"
  /\ Goto(new[c], "top")
  /\ new' = [new EXCEPT ![c] = NoInst]
  /\ cpc' = [cpc EXCEPT ![c] = "up"]
  /\ UNCHANGED <<instances, st, session, ctxDone, sess, expired, proxyAt, proc, nameVars,
                 todo, stopVars, envVars>>

UpReply(c) ==
  /\ cpc[c] = "up" /\ todo[c] = {}
  /\ cpc' = [cpc EXCEPT ![c] = "idle"]
  /\ UNCHANGED <<serviceVars, todo, new, stopVars, envVars>>

-----------------------------------------------------------------------------
(* Engine.Stop: one stopService goroutine per instance, then the clean-up.    *)

Stopping(c) == {i \in Insts : stopPc[c][i] # "none"}

StopGoto(c, i, label) == stopPc' = [stopPc EXCEPT ![c][i] = label]

\* A down request: the matching entries are read under the read lock.  No selector is
\* every service.
DownRequest(c, targets) ==
  /\ cpc[c] = "idle"
  /\ cpc' = [cpc EXCEPT ![c] = "down"]
  /\ stopPc' = [stopPc EXCEPT ![c] =
       [i \in Insts |-> IF ServiceOf[i] \in targets /\ instances[ServiceOf[i]] = i
                        THEN "cancel" ELSE "none"]]
  /\ UNCHANGED <<serviceVars, todo, new, stopSess, envVars>>

\* Wrong on purpose: stopService forgets to cancel the loop.
StopForgetsCancel(c, i) ==
  /\ stopPc[c][i] = "cancel"
  /\ pc[i] # "idle"
  /\ StopGoto(c, i, "read")
  /\ UNCHANGED <<serviceVars, callVars, stopSess, envVars>>

StopCancel(c, i) ==
  /\ stopPc[c][i] = "cancel"
  /\ pc[i] # "idle"
  /\ ctxDone' = [ctxDone EXCEPT ![i] = TRUE]
  /\ StopGoto(c, i, "read")
  /\ UNCHANGED <<instances, st, session, loopVars, proc, nameVars, callVars, stopSess,
                 envVars>>

\* Start has inserted the instance but not yet assigned si.cancel.
StopCancelPanics(c, i) ==
  /\ stopPc[c][i] = "cancel"
  /\ pc[i] = "idle"
  /\ panicked' = TRUE
  /\ UNCHANGED <<serviceVars, callVars, stopVars, dropVars, netVars>>

StopRead(c, i) ==
  /\ stopPc[c][i] = "read"
  /\ stopSess' = [stopSess EXCEPT ![c][i] = session[i]]
  /\ StopGoto(c, i, IF st[i] \in {"Disconnected", "Stopping"} THEN "term" ELSE "stopping")
  /\ UNCHANGED <<serviceVars, callVars, envVars>>

StopMoveToStopping(c, i) ==
  /\ stopPc[c][i] = "stopping"
  /\ st' = [st EXCEPT ![i] = IF CanMove(@, "Stopping") THEN "Stopping" ELSE @]
  /\ StopGoto(c, i, "term")
  /\ UNCHANGED <<instances, session, ctxDone, loopVars, proc, nameVars, callVars,
                 stopSess, envVars>>

StopWithoutSession(c, i) ==
  /\ stopPc[c][i] = "term"
  /\ stopSess[c][i] = NoSess
  /\ StopGoto(c, i, "take")
  /\ UNCHANGED <<serviceVars, callVars, stopSess, envVars>>

StopSession(c, i) ==
  /\ stopPc[c][i] = "term"
  /\ stopSess[c][i] # NoSess
  /\ Terminate(stopSess[c][i])
  /\ StopGoto(c, i, "reap")
  /\ UNCHANGED <<instVars, loopVars, nameVars, callVars, stopSess, envVars>>

StopSessionStopped(c, i) ==
  /\ stopPc[c][i] = "reap"
  /\ Reap(stopSess[c][i])
  /\ stopSess' = [stopSess EXCEPT ![c][i] = NoSess]
  /\ StopGoto(c, i, "take")
  /\ UNCHANGED <<instVars, loopVars, nameVars, callVars, envVars>>

StopTakeProxy(c, i) ==
  /\ stopPc[c][i] = "take"
  /\ proxyAt' = [proxyAt EXCEPT ![i] = IF @ = "field" THEN c ELSE @]
  /\ StopGoto(c, i, "close")
  /\ UNCHANGED <<instVars, pc, sess, expired, proc, nameVars, callVars, stopSess,
                 envVars>>

StopProxy(c, i) ==
  /\ stopPc[c][i] = "close"
  /\ proxyAt' = [proxyAt EXCEPT ![i] = IF @ = c THEN "none" ELSE @]
  /\ StopGoto(c, i, "disc")
  /\ UNCHANGED <<instVars, pc, sess, expired, proc, nameVars, callVars, stopSess,
                 envVars>>

\* Wrong on purpose: a refused transition returns before the WaitGroup is told.
StopReturnsEarly(c, i) ==
  /\ stopPc[c][i] = "disc"
  /\ CanMove(st[i], "Disconnected")
  /\ st' = [st EXCEPT ![i] = "Disconnected"]
  /\ StopGoto(c, i, "stopped")
  /\ UNCHANGED <<instances, session, ctxDone, loopVars, proc, nameVars, callVars,
                 stopSess, envVars>>

StopMoveToDisconnected(c, i) ==
  /\ stopPc[c][i] = "disc"
  /\ st' = [st EXCEPT ![i] = IF CanMove(@, "Disconnected") THEN "Disconnected" ELSE @]
  /\ StopGoto(c, i, "stopped")
  /\ UNCHANGED <<instances, session, ctxDone, loopVars, proc, nameVars, callVars,
                 stopSess, envVars>>

\* wg.Wait returned; then, for one instance after the other, Release and delete.  The Allocate
\* before the Release only finds the address that is released, for a record's IP nobody reads.
DownRelease(c, i) ==
  /\ stopPc[c][i] = "stopped"
  /\ \A j \in Stopping(c) : stopPc[c][j] \in {"stopped", "deleted"}
  /\ ips' = [ips EXCEPT ![ServiceOf[i]] = NoAddr]
  /\ StopGoto(c, i, "released")
  /\ UNCHANGED <<instVars, loopVars, proc, dns, addr, callVars, stopSess, envVars>>

\* The entry is deleted by key, whichever instance it holds by now.
DownDelete(c, i) ==
  /\ stopPc[c][i] = "released"
  /\ instances' = [instances EXCEPT ![ServiceOf[i]] = NoInst]
  /\ StopGoto(c, i, "deleted")
  /\ UNCHANGED <<st, session, ctxDone, loopVars, proc, nameVars, callVars, stopSess,
                 envVars>>

\* RemoveEntries for everything that was stopped, and the reply.
DownRemoveDNS(c) ==
  /\ cpc[c] = "down"
  /\ \A i \in Stopping(c) : stopPc[c][i] = "deleted"
  /\ Unregister({ServiceOf[i] : i \in Stopping(c)})
  /\ stopPc' = [stopPc EXCEPT ![c] = [i \in Insts |-> "none"]]
  /\ cpc' = [cpc EXCEPT ![c] = "idle"]
  /\ UNCHANGED <<instVars, loopVars, proc, ips, addr, todo, new, stopSess, envVars>>

StopStep(c, i) ==
  \/ StopCancel(c, i) \/ StopCancelPanics(c, i) \/ StopRead(c, i)
  \/ StopMoveToStopping(c, i)
  \/ StopWithoutSession(c, i) \/ StopSession(c, i) \/ StopSessionStopped(c, i)
  \/ StopTakeProxy(c, i) \/ StopProxy(c, i) \/ StopMoveToDisconnected(c, i)
  \/ DownRelease(c, i) \/ DownDelete(c, i)

CallerStep(c) ==
  \/ UpSkip(c) \/ UpCheck(c) \/ UpAllocate(c) \/ UpInsert(c) \/ UpSpawn(c) \/ UpReply(c)
  \/ DownRemoveDNS(c)

-----------------------------------------------------------------------------
(* The network watcher's event, and DropSessions by the follower's goroutine. *)

\* The watcher sends an event; one that nobody read yet stands for both.
NetChange ==
  /\ netChanges < MaxNetChanges
  /\ netChanges' = netChanges + 1
  /\ netEvt' = TRUE
  /\ UNCHANGED <<serviceVars, callVars, stopVars, dropVars, panicked>>

DropBegin ==
  /\ netEvt /\ ~dropping
  /\ netEvt' = FALSE
  /\ dropping' = TRUE
  /\ dropTodo' = Running
  /\ UNCHANGED <<serviceVars, callVars, stopVars, dropTerm, dropWait, netChanges, panicked>>

\* Session and state are read in one critical section; only a Connected one is dropped.
DropRead(i) ==
  /\ i \in dropTodo
  /\ dropTodo' = dropTodo \ {i}
  /\ dropTerm' = IF st[i] = "Connected" /\ session[i] # NoSess
                 THEN dropTerm \cup {session[i]} ELSE dropTerm
  /\ UNCHANGED <<serviceVars, callVars, stopVars, dropping, dropWait, netVars, panicked>>

DropSignal(s) ==
  /\ s \in dropTerm
  /\ Terminate(s)
  /\ dropTerm' = dropTerm \ {s}
  /\ dropWait' = dropWait \cup {s}
  /\ UNCHANGED <<instVars, loopVars, nameVars, callVars, stopVars, dropping, dropTodo,
                 netVars, panicked>>

DropReaped(s) ==
  /\ s \in dropWait
  /\ Reap(s)
  /\ dropWait' = dropWait \ {s}
  /\ UNCHANGED <<instVars, loopVars, nameVars, callVars, stopVars, dropping, dropTodo,
                 dropTerm, netVars, panicked>>

DropEnd ==
  /\ dropping
  /\ dropTodo = {} /\ dropTerm = {} /\ dropWait = {}
  /\ dropping' = FALSE
  /\ UNCHANGED <<serviceVars, callVars, stopVars, dropTodo, dropTerm, dropWait, netVars,
                 panicked>>

DropStep ==
  \/ DropBegin \/ DropEnd
  \/ \E i \in Insts : DropRead(i)
  \/ \E s \in Sessions : DropSignal(s) \/ DropReaped(s)

-----------------------------------------------------------------------------
(* Session processes. *)

SessionGone(s) ==
  /\ proc' = [proc EXCEPT ![s] = "gone"]
  /\ UNCHANGED <<instVars, loopVars, nameVars, requestVars>>

\* The process ends by itself (idle timeout, lost target, expired credentials) or of SIGTERM.
SessionDies(s) == proc[s] \in {"live", "term"} /\ SessionGone(s)

\* What is left of the process group ends of SIGKILL.
SessionKilled(s) == proc[s] = "kill" /\ SessionGone(s)

\* os/exec: cmd.Cancel once the loop's context is done, a kill WaitDelay later.
SessionCancelled(s) ==
  /\ ctxDone[OwnerOf[s]]
  /\ \/ proc[s] = "live" /\ proc' = [proc EXCEPT ![s] = "term"]
     \/ proc[s] = "term" /\ proc' = [proc EXCEPT ![s] = "kill"]
  /\ UNCHANGED <<instVars, loopVars, nameVars, requestVars>>

SessionStep(s) == SessionKilled(s) \/ SessionCancelled(s)

-----------------------------------------------------------------------------

Next ==
  /\ ~panicked
  /\ \/ \E i \in Insts : LoopStep(i)
     \/ \E c \in Callers : CallerStep(c)
     \/ \E c \in Callers, i \in Insts : StopStep(c, i)
     \/ \E c \in Callers, targets \in SUBSET Services \ {{}} :
          UpRequest(c, targets) \/ DownRequest(c, targets)
     \/ NetChange \/ DropStep
     \/ \E s \in Sessions : SessionStep(s) \/ SessionDies(s)

Spec == Init /\ [][Next]_vars

\* Go runs every goroutine that can run, and a killed process ends.  Nobody has to send a
\* request, change the network, end a session or obey SIGTERM.
Fairness ==
  /\ \A i \in Insts : WF_vars(~panicked /\ LoopStep(i))
  /\ \A c \in Callers : WF_vars(~panicked /\ CallerStep(c))
  /\ \A c \in Callers, i \in Insts : WF_vars(~panicked /\ StopStep(c, i))
  /\ WF_vars(~panicked /\ DropStep)
  /\ \A s \in Sessions : WF_vars(~panicked /\ SessionStep(s))

FairSpec == Spec /\ Fairness

=============================================================================
