-------------------------- MODULE EngineProperties --------------------------
(* What the engine must guarantee whatever the goroutines' interleaving, and  *)
(* what it guarantees while no two requests work on the same service.         *)
EXTENDS Engine

StopWorkDone == {"none", "stopped", "released", "deleted"}

\* No service outlives its stop: once the loop of a cancelled instance has returned and no
\* stopService is at work on it, its listener is closed and its session has been ended.
\* connect's commit and stopService decide who closes what under si.mu.
StopLeavesNothing ==
  \A i \in Insts :
    (ctxDone[i] /\ pc[i] = "done" /\ \A c \in Callers : stopPc[c][i] \in StopWorkDone)
      => /\ proxyAt[i] = "none"
         /\ \A s \in Sessions : OwnerOf[s] = i => proc[s] \in {"kill", "gone"}

\* A service loop never ends silently: unless the service was stopped, a loop that
\* returned left it Failed on expired credentials.
LoudExit ==
  \A i \in Insts :
    (pc[i] = "done" /\ ~ctxDone[i])
      => st[i] = "Failed"

\* A stop is never undone by the loop it races with: a cancelled instance does not become
\* Connected any more, and a listener it may still open is not published.
CancelledNeverConnects ==
  [][\A i \in Insts : (ctxDone[i] /\ ctxDone'[i]) =>
        /\ st'[i] = "Connected" => st[i] = "Connected"
        /\ proxyAt'[i] = "field" => proxyAt[i] = "field"]_vars

\* How many more steps the loop of a cancelled instance takes at most.
StepsLeft(label) ==
  CASE label = "done" -> 0
    [] label \in {"top", "delay", "start", "abortwait", "wait"} -> 1
    [] label \in {"dns", "abortsess", "failed"} -> 2
    [] label \in {"alloc", "abortproxy", "rec"} -> 3
    [] label \in {"begin", "commit", "stopproxy"} -> 4
    [] label \in {"proxy", "take"} -> 5
    [] label = "idle" -> 6

\* A cancelled loop never starts another round, session or retry: whichever branch it is in,
\* every step of its own leads nearer to its end, and no step of anything else moves it.
CancelledLoopWindsDown ==
  [][\A i \in Insts : (ctxDone[i] /\ ctxDone'[i] /\ pc'[i] # pc[i]) =>
        StepsLeft(pc'[i]) < StepsLeft(pc[i])]_vars

\* A session is killed only after it was asked to end, whoever ends it (the loop, stopService,
\* DropSessions or its context), so that aws can close it with SSM; one that is killed or
\* gone stays so, until its name is free for another.
SessionsEndInOrder ==
  [][\A s \in Sessions : proc'[s] # proc[s] =>
        \/ proc[s] = "live" /\ proc'[s] \in {"term", "gone"}
        \/ proc[s] = "term" /\ proc'[s] \in {"kill", "gone"}
        \/ proc[s] = "kill" /\ proc'[s] = "gone"
        \/ proc[s] = "gone" /\ proc'[s] = "live" /\ FreeSess(s)]_vars

\* A tunnel that is shown as Connected is the one that carries traffic: while a session
\* of a Connected, unstopped service is open it is the published one, behind the listener.
LiveSessionIsPublished ==
  \A i \in Insts, s \in Sessions :
    (OwnerOf[s] = i /\ proc[s] \in {"live", "term"} /\ st[i] = "Connected" /\ ~ctxDone[i])
      => session[i] = s /\ proxyAt[i] = "field"

\* Every loop that nobody stopped is listed, so status shows it and down reaches it.
\* It needs requests that keep apart: Start checks and inserts in separate sections.
RunningIsListed ==
  \A i \in Insts :
    (pc[i] \notin {"idle", "done"} /\ ~ctxDone[i]) => instances[ServiceOf[i]] = i

\* No two services' keys hash to the same address.
HomesDiffer == \A j, k \in Services : Home[j] = Home[k] => j = k

\* A Connected service is reachable: the address it listens on is reserved for it, and, when no
\* two keys hash to the same address, its hostname leads there, whatever address the loop of an
\* earlier instance still allocates or registers.  (With two keys on one address that loop
\* may register, late and last, the address that the other service has been given since.)
\* It needs requests that keep apart.
ConnectedIsReachable ==
  \A i \in Insts :
    (i \in Running /\ st[i] = "Connected" /\ ~ctxDone[i])
      => /\ addr[i] # NoAddr /\ ips[ServiceOf[i]] = addr[i]
         /\ HomesDiffer => dns[ServiceOf[i]] = addr[i]

-----------------------------------------------------------------------------

\* A down request is answered, whatever the sessions and loops of its services do.
StopCompletes == \A c \in Callers : cpc[c] = "down" ~> cpc[c] = "idle"

\* The loop of a stopped service returns, from wherever the stop met it.
CancelledLoopEnds ==
  \A i \in Insts : (ctxDone[i] /\ pc[i] # "idle") ~> (pc[i] = "done" \/ ~ctxDone[i])

\* A Connected service whose session is gone does not stay Connected.
DeadSessionNoticed ==
  \A s \in Sessions :
    (st[OwnerOf[s]] = "Connected" /\ session[OwnerOf[s]] = s /\ proc[s] = "gone")
      ~> st[OwnerOf[s]] # "Connected"

\* While a network event waits no Connected service keeps the session it has: the session of a
\* service that is Connected when the network changes is dropped and it reconnects.
StaleSessionDropped ==
  \A s \in Sessions :
    (netEvt /\ st[OwnerOf[s]] = "Connected" /\ session[OwnerOf[s]] = s)
      ~> ~(st[OwnerOf[s]] = "Connected" /\ session[OwnerOf[s]] = s)

-----------------------------------------------------------------------------
(* The inductive invariant: which state, session, listener and stopService     *)
(* goroutine go with each place in the loop.                                   *)

\* Only stopService writes the state of a cancelled instance; the loop knows the rest.
StateFollowsLoop ==
  \A i \in Insts : ~ctxDone[i] =>
    /\ pc[i] \in {"idle", "top"} => st[i] = "Disconnected"
    /\ pc[i] = "begin" => st[i] \in {"Disconnected", "Reconnecting"}
    /\ pc[i] \in {"alloc", "dns", "start", "proxy", "commit", "abortproxy", "abortsess",
                  "abortwait"} => st[i] = "Starting"
    /\ pc[i] = "failed" =>
         st[i] = "Starting" \/ (expired[i] /\ st[i] = "Reconnecting")
    /\ pc[i] \in {"wait", "take", "stopproxy", "rec"} => st[i] = "Connected"
    /\ pc[i] = "delay" => st[i] = "Reconnecting"
    /\ pc[i] = "done" => st[i] = "Failed"

\* A stopService goroutine past its first step has cancelled the context.
StopperCancelled ==
  \A c \in Callers, i \in Insts : stopPc[c][i] \notin {"none", "cancel"} => ctxDone[i]

\* Only a caller in Stop has stopService goroutines.
StopperHasCaller ==
  \A c \in Callers : cpc[c] # "down" => \A i \in Insts : stopPc[c][i] = "none"

\* The instance a Start is creating has no loop yet, and no other Start creates it.
NewIsUnstarted ==
  /\ \A c \in Callers : cpc[c] \in {"alloc", "insert", "spawn"} =>
       new[c] \in Insts /\ pc[new[c]] = "idle"
  /\ \A c1, c2 \in Callers : (new[c1] = new[c2] /\ new[c1] # NoInst) => c1 = c2

\* Stoppers that have not yet looked for a published listener.
BeforeTake == {"read", "stopping", "term", "reap", "take"}

\* Someone is responsible for every open listener.
ProxyHasHolder ==
  \A i \in Insts :
    /\ proxyAt[i] = "connect" <=> pc[i] \in {"commit", "abortproxy"}
    /\ proxyAt[i] = "loop" => pc[i] = "stopproxy"
    /\ proxyAt[i] = "field" => pc[i] \in {"wait", "take", "done"}
    /\ (proxyAt[i] = "field" /\ ctxDone[i])
          => \E c \in Callers : stopPc[c][i] \in BeforeTake
    /\ (proxyAt[i] = "field" /\ pc[i] = "done") => ctxDone[i]
    /\ \A c \in Callers : proxyAt[i] = c => stopPc[c][i] = "close"

\* Someone is responsible for every session that was not killed.
SessionHasLoop ==
  /\ \A s \in Sessions : proc[s] \in {"live", "term"} =>
       /\ sess[OwnerOf[s]] = s
       /\ pc[OwnerOf[s]] \in {"proxy", "commit", "abortproxy", "abortsess", "abortwait",
                             "wait"}
  /\ \A i \in Insts : pc[i] = "wait" => session[i] = sess[i]
  /\ \A i \in Insts : (pc[i] = "wait" /\ ~ctxDone[i]) => proxyAt[i] = "field"

IInv ==
  /\ TypeOK
  /\ StateFollowsLoop
  /\ StopperCancelled
  /\ StopperHasCaller
  /\ NewIsUnstarted
  /\ ProxyHasHolder
  /\ SessionHasLoop

\* Whoever refers to a session works for the instance whose loop started it.
SessionsAreOwn ==
  /\ \A i \in Insts : sess[i] # NoSess => OwnerOf[sess[i]] = i
  /\ \A i \in Insts : session[i] # NoSess => OwnerOf[session[i]] = i
  /\ \A c \in Callers, i \in Insts : stopSess[c][i] # NoSess => OwnerOf[stopSess[c][i]] = i

WithSession == {"proxy", "commit", "abortproxy", "abortsess", "abortwait", "wait"}

\* The loop has a session wherever it works with one: it never waits for nothing.
LoopHasSession == \A i \in Insts : pc[i] \in WithSession => sess[i] # NoSess

\* Whoever waits to kill a session has asked it to end.
WaiterHasAsked ==
  /\ \A i \in Insts : pc[i] = "abortwait" => proc[sess[i]] # "live"
  /\ \A c \in Callers, i \in Insts : stopPc[c][i] = "reap" =>
       stopSess[c][i] # NoSess /\ proc[stopSess[c][i]] # "live"
  /\ \A s \in dropWait : proc[s] # "live"

\* Nobody cancels an instance whose loop has not started: si.cancel is nil by then.
CancelledHasStarted == \A i \in Insts : ctxDone[i] => pc[i] # "idle"

Inv ==
  /\ IInv
  /\ SessionsAreOwn
  /\ LoopHasSession
  /\ WaiterHasAsked
  /\ CancelledHasStarted

-----------------------------------------------------------------------------
(* What IInv leaves out, because it holds only while no two requests work on   *)
(* the same service: which instance is listed, and what a service keeps of its *)
(* address and name.  Together they are inductive.                             *)

\* A caller's request creates the instance, or stops it and has yet to remove its hostname.
WorksOn(c, i) == new[c] = i \/ stopPc[c][i] # "none"

\* No two requests are at work on the same service at once.
RequestsKeepApart ==
  \A c, d \in Callers, i, j \in Insts :
    WorksOn(c, i) /\ WorksOn(d, j) /\ ServiceOf[i] = ServiceOf[j] => c = d

\* An instance is listed under its own service.
ListedUnderItsKey ==
  \A k \in Services : instances[k] # NoInst => ServiceOf[instances[k]] = k

\* Down leaves no ghost behind: a listed instance whose context was cancelled is one that a
\* request in progress is still stopping, so "already running" is never said of a dead one.
ListedIsWanted ==
  \A k \in Services : instances[k] # NoInst /\ ctxDone[instances[k]] =>
    \E c \in Callers : stopPc[c][instances[k]] # "none"

\* The place of the instance that Start creates is free until it is inserted, and its own from
\* then on; nobody has stopped it.
NewHasItsPlace ==
  \A c \in Callers :
    /\ cpc[c] \in {"alloc", "insert"} => instances[ServiceOf[new[c]]] = NoInst
    /\ cpc[c] = "spawn" => instances[ServiceOf[new[c]]] = new[c]
    /\ cpc[c] \in {"alloc", "insert", "spawn"} => ~ctxDone[new[c]]

\* An instance that is being stopped stays listed until Stop deletes it, and its place stays
\* free for the rest of that Stop.
StoppedHasItsPlace ==
  \A c \in Callers, i \in Insts :
    /\ stopPc[c][i] \notin {"none", "deleted"} => instances[ServiceOf[i]] = i
    /\ stopPc[c][i] = "deleted" => instances[ServiceOf[i]] = NoInst

\* The loops that a stop has left behind: cancelled, not listed any more, not returned yet.
Leftovers(k) ==
  {i \in Insts : /\ ServiceOf[i] = k /\ instances[k] # i
                /\ ctxDone[i] /\ pc[i] \notin {"idle", "done"}}

\* A port that accepts users, published or not, is that of the listed instance or of a loop
\* that a stop left behind and that is on its way out: no listener is ever orphaned.
PortsAreCounted ==
  \A i \in Insts : proxyAt[i] # "none" =>
    instances[ServiceOf[i]] = i \/ i \in Leftovers(ServiceOf[i])

\* The address that Start reserved stays reserved for a service that nobody stops, and connect
\* works with that one.
KeepsAddress ==
  /\ \A c \in Callers : cpc[c] \in {"insert", "spawn"} => ips[ServiceOf[new[c]]] # NoAddr
  /\ \A i \in Insts : ~ctxDone[i] =>
       /\ pc[i] \notin {"idle", "done"} => ips[ServiceOf[i]] # NoAddr
       /\ pc[i] \notin {"idle", "top", "begin", "alloc", "delay", "failed", "done"} =>
            addr[i] = ips[ServiceOf[i]]

\* Every address that is written anywhere is that of the service's own key, and the record of a
\* running service is there from connect's first round on.
RecordsKeepHome ==
  /\ \A k \in Services : ips[k] \in {Home[k], NoAddr} /\ dns[k] \in {Home[k], NoAddr}
  /\ \A i \in Insts : pc[i] = "dns" => addr[i] = Home[ServiceOf[i]]
  /\ \A i \in Insts :
       ~ctxDone[i] /\ pc[i] \notin {"idle", "top", "begin", "alloc", "dns", "delay", "failed",
                                   "done"}
         => dns[ServiceOf[i]] = Home[ServiceOf[i]]

Serial ==
  /\ ListedUnderItsKey
  /\ RunningIsListed
  /\ ListedIsWanted
  /\ NewHasItsPlace
  /\ StoppedHasItsPlace
  /\ PortsAreCounted
  /\ KeepsAddress
  /\ HomesDiffer => RecordsKeepHome

=============================================================================
