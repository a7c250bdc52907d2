---------------------------- MODULE EngineProofs ----------------------------
(* Proofs about the engine for any number of services, callers, instances and  *)
(* sessions.  The first part proves that IInv and Inv are inductive, and from   *)
(* them what holds however requests overlap: what a stop leaves, what Connected *)
(* means, how sessions and cancelled loops end.  The second part is about an    *)
(* engine of whose requests no two work on the same service at once: Serial is  *)
(* inductive too, so that every running loop is listed, every Connected service *)
(* resolves and down leaves no ghost.  The third part maps each step of such an *)
(* engine to a step of one service's tunnel.                                    *)
EXTENDS EngineRefinement, TLAPS

USE DEF instVars, loopVars, nameVars, serviceVars, callVars, stopVars, dropVars, netVars, envVars,
        requestVars

\* The parts of the inductive invariant beside the types.
Coupling ==
  /\ StateFollowsLoop
  /\ StopperCancelled
  /\ StopperHasCaller
  /\ NewIsUnstarted
  /\ ProxyHasHolder
  /\ SessionHasLoop

-----------------------------------------------------------------------------
(* The moves of machine.go that the loop relies on. *)

\* Each move the loop asks for when nobody stops it is in the table.
LEMMA LoopMoves ==
  /\ CanMove("Disconnected", "Starting") /\ CanMove("Reconnecting", "Starting")
  /\ CanMove("Starting", "Connected")
  /\ CanMove("Starting", "Reconnecting") /\ CanMove("Connected", "Reconnecting")
  /\ CanMove("Starting", "Failed") /\ CanMove("Reconnecting", "Failed")
BY DEF CanMove, AllowedTransitions, MovesFrom

\* The allocator hands out addresses, or none.
LEMMA AllocationsType ==
  ASSUME TypeOK, NEW k \in Services
  PROVE  Allocations(k) \subseteq Addresses \cup {NoAddr}
BY AddressAssumption DEF TypeOK, Allocations

-----------------------------------------------------------------------------
(* Every step preserves the types.  UpAllocate and UpInsert use the instance   *)
(* that a Start is creating, so they need NewIsUnstarted too.                  *)

\* Steps of the service loop.
LEMMA LoopKeepsTypes ==
  ASSUME TypeOK, NEW i \in Insts, LoopStep(i)
  PROVE  TypeOK'
<1> USE NilAssumption, NamesAssumption, NetAssumption
       DEF TypeOK, Goto, MoveOrExit, ConnectError, StopGoto, Terminate,
           Reap, ServiceStates, LoopLabels, StopLabels, CallerLabels, ProcStates,
           ProxyPlaces
<1>1. CASE LoopNextRound(i)
  BY <1>1 DEF LoopNextRound
<1>2. CASE LoopBegin(i)
  BY <1>2 DEF LoopBegin
<1>3. CASE ConnectAllocate(i)
  BY <1>3, AllocationsType DEF ConnectAllocate
<1>4. CASE ConnectAddDNS(i)
  BY <1>4 DEF ConnectAddDNS, Register
<1>5. CASE ConnectStartSession(i)
  BY <1>5 DEF ConnectStartSession
<1>6. CASE ConnectStartFails(i)
  BY <1>6 DEF ConnectStartFails
<1>7. CASE ConnectOpenProxy(i)
  BY <1>7 DEF ConnectOpenProxy
<1>8. CASE ConnectOpenProxyFails(i)
  BY <1>8 DEF ConnectOpenProxyFails
<1>9. CASE ConnectCommit(i)
  BY <1>9 DEF ConnectCommit
<1>10. CASE ConnectRefused(i)
  BY <1>10 DEF ConnectRefused
<1>11. CASE ConnectStopProxy(i)
  BY <1>11 DEF ConnectStopProxy
<1>12. CASE ConnectStopSession(i)
  BY <1>12 DEF ConnectStopSession
<1>13. CASE ConnectSessionStopped(i)
  BY <1>13 DEF ConnectSessionStopped
<1>14. CASE LoopConnectRetry(i)
  BY <1>14 DEF LoopConnectRetry
<1>15. CASE LoopSessionEnded(i)
  BY <1>15 DEF LoopSessionEnded
<1>16. CASE LoopTakeProxy(i)
  BY <1>16 DEF LoopTakeProxy
<1>17. CASE LoopStopProxy(i)
  BY <1>17 DEF LoopStopProxy
<1>18. CASE LoopReconnecting(i)
  BY <1>18 DEF LoopReconnecting
<1>19. CASE LoopCredentialsExpired(i)
  BY <1>19 DEF LoopCredentialsExpired
<1> QED
  BY <1>1, <1>2, <1>3, <1>4, <1>5, <1>6, <1>7, <1>8, <1>9, <1>10,
      <1>11, <1>12, <1>13, <1>14, <1>15, <1>16, <1>17, <1>18, <1>19 DEF LoopStep

\* Steps of Start and of Stop's clean-up.
LEMMA CallerKeepsTypes ==
  ASSUME TypeOK, NewIsUnstarted, NEW c \in Callers, CallerStep(c)
  PROVE  TypeOK'
<1> USE NilAssumption, NamesAssumption, NetAssumption
       DEF TypeOK, Goto, MoveOrExit, ConnectError, StopGoto, Terminate,
           Reap, ServiceStates, LoopLabels, StopLabels, CallerLabels, ProcStates,
           ProxyPlaces
<1>1. CASE UpSkip(c)
  BY <1>1 DEF UpSkip
<1>2. CASE UpCheck(c)
  BY <1>2 DEF UpCheck
<1>3. CASE UpAllocate(c)
  BY <1>3, AllocationsType DEF UpAllocate, NewIsUnstarted
<1>4. CASE UpInsert(c)
  BY <1>4 DEF UpInsert, NewIsUnstarted
<1>5. CASE UpSpawn(c)
  BY <1>5 DEF UpSpawn, NewIsUnstarted
<1>6. CASE UpReply(c)
  BY <1>6 DEF UpReply
<1>7. CASE DownRemoveDNS(c)
  BY <1>7 DEF DownRemoveDNS, Unregister, Stopping
<1> QED
  BY <1>1, <1>2, <1>3, <1>4, <1>5, <1>6, <1>7 DEF CallerStep

\* Steps of a stopService goroutine.
LEMMA StopKeepsTypes ==
  ASSUME TypeOK, NEW c \in Callers, NEW i \in Insts, StopStep(c, i)
  PROVE  TypeOK'
<1> USE NilAssumption, NamesAssumption, NetAssumption
       DEF TypeOK, Goto, MoveOrExit, ConnectError, StopGoto, Terminate,
           Reap, ServiceStates, LoopLabels, StopLabels, CallerLabels, ProcStates,
           ProxyPlaces
<1>1. CASE StopCancel(c, i)
  BY <1>1 DEF StopCancel
<1>2. CASE StopCancelPanics(c, i)
  BY <1>2 DEF StopCancelPanics
<1>3. CASE StopRead(c, i)
  BY <1>3 DEF StopRead
<1>4. CASE StopMoveToStopping(c, i)
  BY <1>4 DEF StopMoveToStopping
<1>5. CASE StopWithoutSession(c, i)
  BY <1>5 DEF StopWithoutSession
<1>6. CASE StopSession(c, i)
  BY <1>6 DEF StopSession
<1>7. CASE StopSessionStopped(c, i)
  BY <1>7 DEF StopSessionStopped
<1>8. CASE StopTakeProxy(c, i)
  BY <1>8 DEF StopTakeProxy
<1>9. CASE StopProxy(c, i)
  BY <1>9 DEF StopProxy
<1>10. CASE StopMoveToDisconnected(c, i)
  BY <1>10 DEF StopMoveToDisconnected
<1>11. CASE DownRelease(c, i)
  BY <1>11 DEF DownRelease
<1>12. CASE DownDelete(c, i)
  BY <1>12 DEF DownDelete
<1> QED
  BY <1>1, <1>2, <1>3, <1>4, <1>5, <1>6, <1>7, <1>8, <1>9, <1>10,
      <1>11, <1>12 DEF StopStep

\* The arrival of a request.
LEMMA RequestKeepsTypes ==
  ASSUME TypeOK, NEW c \in Callers, NEW targets \in SUBSET Services,
         UpRequest(c, targets) \/ DownRequest(c, targets)
  PROVE  TypeOK'
<1> USE DEF TypeOK, CallerLabels, StopLabels
<1>1. CASE UpRequest(c, targets)
  BY <1>1 DEF UpRequest
<1>2. CASE DownRequest(c, targets)
  <2>1. stopPc' \in [Callers -> [Insts -> StopLabels]]
    <3> DEFINE asked == [i \in Insts |->
          IF ServiceOf[i] \in targets /\ instances[ServiceOf[i]] = i
          THEN "cancel" ELSE "none"]
    <3>1. asked \in [Insts -> StopLabels]
      OBVIOUS
    <3>2. stopPc' = [stopPc EXCEPT ![c] = asked]
      BY <1>2 DEF DownRequest
    <3> HIDE DEF asked
    <3> QED
      BY <3>1, <3>2
  <2> QED
    BY <1>2, <2>1 DEF DownRequest
<1> QED
  BY <1>1, <1>2

\* A network event, and the steps of DropSessions.
LEMMA NetworkKeepsTypes ==
  ASSUME TypeOK, NetChange \/ DropStep
  PROVE  TypeOK'
<1> USE NilAssumption, NetAssumption DEF TypeOK, Terminate, Reap, ProcStates
<1>1. CASE NetChange
  BY <1>1 DEF NetChange
<1>2. CASE DropBegin
  <2>1. Running \subseteq Insts
    BY DEF Running
  <2> QED
    BY <1>2, <2>1 DEF DropBegin
<1>3. CASE DropEnd
  BY <1>3 DEF DropEnd
<1>4. ASSUME NEW i \in Insts, DropRead(i) PROVE TypeOK'
  BY <1>4 DEF DropRead
<1>5. ASSUME NEW s \in Sessions, DropSignal(s) PROVE TypeOK'
  BY <1>5 DEF DropSignal
<1>6. ASSUME NEW s \in Sessions, DropReaped(s) PROVE TypeOK'
  BY <1>6 DEF DropReaped
<1> QED
  BY <1>1, <1>2, <1>3, <1>4, <1>5, <1>6 DEF DropStep

\* Steps of a session process.
LEMMA SessionKeepsTypes ==
  ASSUME TypeOK, NEW s \in Sessions, SessionStep(s) \/ SessionDies(s)
  PROVE  TypeOK'
<1>1. \E p \in ProcStates : proc' = [proc EXCEPT ![s] = p]
  BY DEF SessionStep, SessionDies, SessionKilled, SessionCancelled, SessionGone, ProcStates
<1>2. proc' \in [Sessions -> ProcStates]
  BY <1>1 DEF TypeOK
<1>3. UNCHANGED <<instVars, loopVars, nameVars, requestVars>>
  BY DEF SessionStep, SessionDies, SessionKilled, SessionCancelled, SessionGone
<1> QED
  BY <1>2, <1>3 DEF TypeOK

\* Every step keeps every variable within its type.
LEMMA NextKeepsTypes == TypeOK /\ NewIsUnstarted /\ [Next]_vars => TypeOK'
<1> SUFFICES ASSUME TypeOK, NewIsUnstarted, [Next]_vars PROVE TypeOK'
  OBVIOUS
<1>1. CASE Next
  BY <1>1, LoopKeepsTypes, CallerKeepsTypes, StopKeepsTypes, RequestKeepsTypes,
     NetworkKeepsTypes, SessionKeepsTypes DEF Next
<1>2. CASE UNCHANGED vars
  BY <1>2 DEF vars, TypeOK
<1> QED
  BY <1>1, <1>2

-----------------------------------------------------------------------------
(* Every step preserves the coupling of loops, stoppers, sessions, listeners.  *)

\* Stoppers that hold no listener and have looked for one may come and go.
LEMMA ProxyHolderKept ==
  ASSUME ProxyHasHolder, UNCHANGED <<proxyAt, pc, ctxDone>>,
         \A c \in Callers, i \in Insts :
           stopPc[c][i] \in BeforeTake \cup {"close"} => stopPc'[c][i] = stopPc[c][i]
  PROVE  ProxyHasHolder'
BY SMTT(30) DEF ProxyHasHolder, BeforeTake

\* Steps of the service loop.
LEMMA LoopKeepsCoupling ==
  ASSUME IInv, TypeOK', NEW i \in Insts, LoopStep(i)
  PROVE  Coupling'
<1> USE NilAssumption, NamesAssumption, CallersAssumption, LoopMoves
       DEF IInv, TypeOK, Coupling, StateFollowsLoop, StopperCancelled, StopperHasCaller,
           NewIsUnstarted, ProxyHasHolder, SessionHasLoop, BeforeTake, Goto, MoveOrExit,
           ConnectError, StopGoto, Terminate, Reap, ProxyPlaces
<1>1. CASE LoopNextRound(i)
  BY <1>1 DEF LoopNextRound
<1>2. CASE LoopBegin(i)
  <2>1. StateFollowsLoop'
    BY <1>2 DEF LoopBegin
  <2>2. StopperCancelled' /\ StopperHasCaller' /\ NewIsUnstarted'
    BY <1>2 DEF LoopBegin
  <2>3. ProxyHasHolder'
    BY <1>2 DEF LoopBegin
  <2>4. SessionHasLoop'
    BY <1>2 DEF LoopBegin
  <2> QED
    BY <2>1, <2>2, <2>3, <2>4
<1>3. CASE ConnectAllocate(i)
  <2>1. /\ UNCHANGED <<instVars, sess, expired, proxyAt, proc, requestVars>>
        /\ pc[i] = "alloc" /\ pc' = [pc EXCEPT ![i] = "dns"]
    BY <1>3 DEF ConnectAllocate
  <2> QED
    BY <2>1
<1>4. CASE ConnectAddDNS(i)
  BY <1>4 DEF ConnectAddDNS, Register
<1>5. CASE ConnectStartSession(i)
  BY <1>5 DEF ConnectStartSession
<1>6. CASE ConnectStartFails(i)
  <2>1. StateFollowsLoop'
    BY <1>6 DEF ConnectStartFails
  <2>2. StopperCancelled'
    BY <1>6 DEF ConnectStartFails
  <2>3. StopperHasCaller'
    BY <1>6 DEF ConnectStartFails
  <2>4. NewIsUnstarted'
    BY <1>6 DEF ConnectStartFails
  <2>5. ProxyHasHolder'
    BY <1>6 DEF ConnectStartFails
  <2>6. SessionHasLoop'
    BY <1>6 DEF ConnectStartFails
  <2> QED
    BY <2>1, <2>2, <2>3, <2>4, <2>5, <2>6
<1>7. CASE ConnectOpenProxy(i)
  BY <1>7 DEF ConnectOpenProxy
<1>8. CASE ConnectOpenProxyFails(i)
  BY <1>8 DEF ConnectOpenProxyFails
<1>9. CASE ConnectCommit(i)
  BY <1>9 DEF ConnectCommit
<1>10. CASE ConnectRefused(i)
  BY <1>10 DEF ConnectRefused
<1>11. CASE ConnectStopProxy(i)
  BY <1>11 DEF ConnectStopProxy
<1>12. CASE ConnectStopSession(i)
  BY <1>12 DEF ConnectStopSession
<1>13. CASE ConnectSessionStopped(i)
  <2>1. StateFollowsLoop'
    BY <1>13 DEF ConnectSessionStopped
  <2>2. StopperCancelled'
    BY <1>13 DEF ConnectSessionStopped
  <2>3. StopperHasCaller'
    BY <1>13 DEF ConnectSessionStopped
  <2>4. NewIsUnstarted'
    BY <1>13 DEF ConnectSessionStopped
  <2>5. ProxyHasHolder'
    BY <1>13 DEF ConnectSessionStopped
  <2>6. SessionHasLoop'
    BY <1>13 DEF ConnectSessionStopped
  <2> QED
    BY <2>1, <2>2, <2>3, <2>4, <2>5, <2>6
<1>14. CASE LoopConnectRetry(i)
  BY <1>14 DEF LoopConnectRetry
<1>15. CASE LoopSessionEnded(i)
  BY <1>15 DEF LoopSessionEnded
<1>16. CASE LoopTakeProxy(i)
  <2>1. StateFollowsLoop'
    BY <1>16 DEF LoopTakeProxy
  <2>2. StopperCancelled'
    BY <1>16 DEF LoopTakeProxy
  <2>3. StopperHasCaller'
    BY <1>16 DEF LoopTakeProxy
  <2>4. NewIsUnstarted'
    BY <1>16 DEF LoopTakeProxy
  <2>5. ProxyHasHolder'
    BY <1>16 DEF LoopTakeProxy
  <2>6. SessionHasLoop'
    BY <1>16 DEF LoopTakeProxy
  <2> QED
    BY <2>1, <2>2, <2>3, <2>4, <2>5, <2>6
<1>17. CASE LoopStopProxy(i)
  BY <1>17 DEF LoopStopProxy
<1>18. CASE LoopReconnecting(i)
  <2>1. StateFollowsLoop'
    BY <1>18 DEF LoopReconnecting
  <2>2. StopperCancelled'
    BY <1>18 DEF LoopReconnecting
  <2>3. StopperHasCaller'
    BY <1>18 DEF LoopReconnecting
  <2>4. NewIsUnstarted'
    BY <1>18 DEF LoopReconnecting
  <2>5. ProxyHasHolder'
    BY <1>18 DEF LoopReconnecting
  <2>6. SessionHasLoop'
    BY <1>18 DEF LoopReconnecting
  <2> QED
    BY <2>1, <2>2, <2>3, <2>4, <2>5, <2>6
<1>19. CASE LoopCredentialsExpired(i)
  BY <1>19 DEF LoopCredentialsExpired
<1> QED
  BY <1>1, <1>2, <1>3, <1>4, <1>5, <1>6, <1>7, <1>8, <1>9, <1>10,
      <1>11, <1>12, <1>13, <1>14, <1>15, <1>16, <1>17, <1>18, <1>19 DEF LoopStep

\* Steps of Start and of Stop's clean-up.
LEMMA CallerKeepsCoupling ==
  ASSUME IInv, TypeOK', NEW c \in Callers, CallerStep(c)
  PROVE  Coupling'
<1> USE NilAssumption, NamesAssumption, CallersAssumption, LoopMoves
       DEF IInv, TypeOK, Coupling, StateFollowsLoop, StopperCancelled, StopperHasCaller,
           NewIsUnstarted, ProxyHasHolder, SessionHasLoop, BeforeTake, Goto, MoveOrExit,
           ConnectError, StopGoto, Terminate, Reap, ProxyPlaces
<1>1. CASE UpSkip(c)
  BY <1>1 DEF UpSkip
<1>2. CASE UpCheck(c)
  BY <1>2 DEF UpCheck, FreeInst
<1>3. CASE UpAllocate(c)
  BY <1>3 DEF UpAllocate
<1>4. CASE UpInsert(c)
  BY <1>4 DEF UpInsert
<1>5. CASE UpSpawn(c)
  BY <1>5 DEF UpSpawn
<1>6. CASE UpReply(c)
  BY <1>6 DEF UpReply
<1>7. CASE DownRemoveDNS(c)
  <2>1. StateFollowsLoop'
    BY <1>7 DEF DownRemoveDNS, Unregister, Stopping
  <2>2. StopperCancelled'
    BY <1>7 DEF DownRemoveDNS, Unregister, Stopping
  <2>3. StopperHasCaller'
    BY <1>7 DEF DownRemoveDNS, Unregister, Stopping
  <2>4. NewIsUnstarted'
    BY <1>7 DEF DownRemoveDNS, Unregister, Stopping
  <2>5. ProxyHasHolder'
    <3>1. UNCHANGED <<proxyAt, pc, ctxDone>>
      BY <1>7 DEF DownRemoveDNS, Unregister
    <3>2. \A c1 \in Callers, j \in Insts :
            stopPc[c1][j] \in BeforeTake \cup {"close"} => stopPc'[c1][j] = stopPc[c1][j]
      BY <1>7 DEF DownRemoveDNS, Unregister, Stopping
    <3> QED
      BY <3>1, <3>2, ProxyHolderKept DEF IInv
  <2>6. SessionHasLoop'
    BY <1>7 DEF DownRemoveDNS, Unregister, Stopping
  <2> QED
    BY <2>1, <2>2, <2>3, <2>4, <2>5, <2>6
<1> QED
  BY <1>1, <1>2, <1>3, <1>4, <1>5, <1>6, <1>7 DEF CallerStep

\* Steps of a stopService goroutine.
LEMMA StopKeepsCoupling ==
  ASSUME IInv, TypeOK', NEW c \in Callers, NEW i \in Insts, StopStep(c, i)
  PROVE  Coupling'
<1> USE NilAssumption, NamesAssumption, CallersAssumption, LoopMoves
       DEF IInv, TypeOK, Coupling, StateFollowsLoop, StopperCancelled, StopperHasCaller,
           NewIsUnstarted, ProxyHasHolder, SessionHasLoop, BeforeTake, Goto, MoveOrExit,
           ConnectError, StopGoto, Terminate, Reap, ProxyPlaces
<1>1. CASE StopCancel(c, i)
  BY <1>1 DEF StopCancel
<1>2. CASE StopCancelPanics(c, i)
  BY <1>2 DEF StopCancelPanics
<1>3. CASE StopRead(c, i)
  BY <1>3 DEF StopRead
<1>4. CASE StopMoveToStopping(c, i)
  <2>1. StateFollowsLoop'
    <3>1. ctxDone[i] /\ UNCHANGED <<ctxDone, pc, expired>>
      BY <1>4 DEF StopMoveToStopping
    <3>2. \A j \in Insts : j # i => st'[j] = st[j]
      BY <1>4 DEF StopMoveToStopping
    <3> QED
      BY <3>1, <3>2
  <2>2. StopperCancelled'
    BY <1>4 DEF StopMoveToStopping
  <2>3. StopperHasCaller'
    BY <1>4 DEF StopMoveToStopping
  <2>4. NewIsUnstarted'
    BY <1>4 DEF StopMoveToStopping
  <2>5. ProxyHasHolder'
    BY <1>4 DEF StopMoveToStopping
  <2>6. SessionHasLoop'
    BY <1>4 DEF StopMoveToStopping
  <2> QED
    BY <2>1, <2>2, <2>3, <2>4, <2>5, <2>6
<1>5. CASE StopWithoutSession(c, i)
  BY <1>5 DEF StopWithoutSession
<1>6. CASE StopSession(c, i)
  BY <1>6 DEF StopSession
<1>7. CASE StopSessionStopped(c, i)
  BY <1>7 DEF StopSessionStopped
<1>8. CASE StopTakeProxy(c, i)
  <2>1. StateFollowsLoop'
    BY <1>8 DEF StopTakeProxy
  <2>2. StopperCancelled'
    BY <1>8 DEF StopTakeProxy
  <2>3. StopperHasCaller'
    BY <1>8 DEF StopTakeProxy
  <2>4. NewIsUnstarted'
    BY <1>8 DEF StopTakeProxy
  <2>5. ProxyHasHolder'
    BY <1>8 DEF StopTakeProxy
  <2>6. SessionHasLoop'
    <3>1. ctxDone[i] /\ UNCHANGED <<ctxDone, pc, proc, sess, session>>
      BY <1>8 DEF StopTakeProxy
    <3>2. \A j \in Insts : j # i => proxyAt'[j] = proxyAt[j]
      BY <1>8 DEF StopTakeProxy
    <3> QED
      BY <3>1, <3>2
  <2> QED
    BY <2>1, <2>2, <2>3, <2>4, <2>5, <2>6
<1>9. CASE StopProxy(c, i)
  BY <1>9 DEF StopProxy
<1>10. CASE StopMoveToDisconnected(c, i)
  BY <1>10 DEF StopMoveToDisconnected
<1>11. CASE DownRelease(c, i)
  BY <1>11 DEF DownRelease
<1>12. CASE DownDelete(c, i)
  BY <1>12 DEF DownDelete
<1> QED
  BY <1>1, <1>2, <1>3, <1>4, <1>5, <1>6, <1>7, <1>8, <1>9, <1>10,
      <1>11, <1>12 DEF StopStep

\* The arrival of a request: no stopper of the caller is left from an earlier one.
LEMMA RequestKeepsCoupling ==
  ASSUME IInv, NEW c \in Callers, NEW targets \in SUBSET Services,
         UpRequest(c, targets) \/ DownRequest(c, targets)
  PROVE  Coupling'
<1> USE CallersAssumption
       DEF IInv, TypeOK, Coupling, StateFollowsLoop, StopperCancelled, StopperHasCaller,
           NewIsUnstarted, ProxyHasHolder, SessionHasLoop, BeforeTake, ProxyPlaces
<1>1. CASE UpRequest(c, targets)
  BY <1>1 DEF UpRequest
<1>2. CASE DownRequest(c, targets)
  <2>1. UNCHANGED <<instVars, loopVars, proc, new>>
    BY <1>2 DEF DownRequest
  <2>2. \A j \in Insts : stopPc[c][j] = "none" /\ stopPc'[c][j] \in {"none", "cancel"}
    <3>1. \A j \in Insts : stopPc[c][j] = "none"
      BY <1>2 DEF DownRequest
    <3>2. stopPc'[c] = [j \in Insts |->
            IF ServiceOf[j] \in targets /\ instances[ServiceOf[j]] = j
            THEN "cancel" ELSE "none"]
      BY <1>2 DEF DownRequest
    <3> QED
      BY <3>1, <3>2
  <2>3. \A c1 \in Callers : c1 # c => stopPc'[c1] = stopPc[c1] /\ cpc'[c1] = cpc[c1]
    BY <1>2 DEF DownRequest
  <2>4. cpc'[c] = "down"
    BY <1>2 DEF DownRequest
  <2>5. StateFollowsLoop' /\ SessionHasLoop'
    BY <2>1
  <2>6. StopperCancelled'
    BY <2>1, <2>2, <2>3
  <2>7. StopperHasCaller'
    <3> SUFFICES ASSUME NEW c1 \in Callers, cpc'[c1] # "down", NEW j \in Insts
                 PROVE  stopPc'[c1][j] = "none"
      OBVIOUS
    <3>1. c1 # c
      BY <2>4
    <3>2. stopPc'[c1] = stopPc[c1] /\ cpc'[c1] = cpc[c1]
      BY <2>3, <3>1
    <3> QED
      BY <3>2
  <2>8. NewIsUnstarted'
    BY <2>1, <2>3, <2>4
  <2>9. ProxyHasHolder'
    <3>1. \A c1 \in Callers, j \in Insts :
            stopPc[c1][j] \in BeforeTake \cup {"close"} => stopPc'[c1][j] = stopPc[c1][j]
      <4> SUFFICES ASSUME NEW c1 \in Callers, NEW j \in Insts,
                          stopPc[c1][j] \in BeforeTake \cup {"close"}
                   PROVE  stopPc'[c1][j] = stopPc[c1][j]
        OBVIOUS
      <4>1. c1 # c
        BY <2>2
      <4> QED
        BY <2>3, <4>1
    <3> QED
      BY <2>1, <3>1, ProxyHolderKept
  <2> QED
    BY <2>5, <2>6, <2>7, <2>8, <2>9
<1> QED
  BY <1>1, <1>2

\* A network event, and the steps of DropSessions: they only end sessions.
LEMMA NetworkKeepsCoupling ==
  ASSUME IInv, NetChange \/ DropStep
  PROVE  Coupling'
<1> USE DEF IInv, TypeOK, Coupling, StateFollowsLoop, StopperCancelled, StopperHasCaller,
            NewIsUnstarted, ProxyHasHolder, SessionHasLoop, Terminate, Reap
<1>1. CASE NetChange
  BY <1>1 DEF NetChange
<1>2. CASE DropBegin
  BY <1>2 DEF DropBegin
<1>3. CASE DropEnd
  BY <1>3 DEF DropEnd
<1>4. ASSUME NEW i \in Insts, DropRead(i) PROVE Coupling'
  BY <1>4 DEF DropRead
<1>5. ASSUME NEW s \in Sessions, DropSignal(s) PROVE Coupling'
  BY <1>5 DEF DropSignal
<1>6. ASSUME NEW s \in Sessions, DropReaped(s) PROVE Coupling'
  BY <1>6 DEF DropReaped
<1> QED
  BY <1>1, <1>2, <1>3, <1>4, <1>5, <1>6 DEF DropStep

\* Steps of a session process.
LEMMA SessionKeepsCoupling ==
  ASSUME IInv, NEW s \in Sessions, SessionStep(s) \/ SessionDies(s)
  PROVE  Coupling'
BY DEF SessionStep, SessionDies, SessionKilled, SessionCancelled, SessionGone, IInv,
       TypeOK, Coupling, StateFollowsLoop, StopperCancelled, StopperHasCaller,
       NewIsUnstarted, ProxyHasHolder, SessionHasLoop

-----------------------------------------------------------------------------
(* The inductive invariant. *)

\* The initial state satisfies the inductive invariant.
LEMMA InitEstablishes == Init => IInv
<1> SUFFICES ASSUME Init PROVE IInv
  OBVIOUS
<1> USE NilAssumption, CallersAssumption DEF Init
<1>1. TypeOK
  <2>1. netChanges \in 0..MaxNetChanges
    BY NetAssumption
  <2>2. /\ stopPc \in [Callers -> [Insts -> StopLabels]]
        /\ stopSess \in [Callers -> [Insts -> Sessions \cup {NoSess}]]
    BY DEF StopLabels
  <2> QED
    BY <2>1, <2>2 DEF TypeOK, ServiceStates, LoopLabels, CallerLabels, ProcStates,
       ProxyPlaces
<1>2. StateFollowsLoop /\ StopperCancelled /\ StopperHasCaller /\ NewIsUnstarted
  BY DEF StateFollowsLoop, StopperCancelled, StopperHasCaller, NewIsUnstarted
<1>3. ProxyHasHolder
  BY DEF ProxyHasHolder, ProxyPlaces
<1>4. SessionHasLoop
  BY NamesAssumption DEF SessionHasLoop
<1> QED
  BY <1>1, <1>2, <1>3, <1>4 DEF IInv

\* Every step preserves the inductive invariant.
LEMMA NextPreserves == IInv /\ [Next]_vars => IInv'
<1> SUFFICES ASSUME IInv, [Next]_vars PROVE IInv'
  OBVIOUS
<1>1. TypeOK'
  BY NextKeepsTypes DEF IInv
<1>2. CASE Next
  <2>1. Coupling'
    BY <1>1, <1>2, LoopKeepsCoupling, CallerKeepsCoupling, StopKeepsCoupling,
       RequestKeepsCoupling, NetworkKeepsCoupling, SessionKeepsCoupling DEF Next
  <2> QED
    BY <1>1, <2>1 DEF IInv, Coupling
<1>3. CASE UNCHANGED vars
  BY <1>1, <1>3 DEF vars, IInv, StateFollowsLoop, StopperCancelled, StopperHasCaller,
     NewIsUnstarted, ProxyHasHolder, SessionHasLoop
<1> QED
  BY <1>2, <1>3

\* The inductive invariant holds of every behaviour of the engine.
THEOREM Invariance == Spec => []IInv
<1>1. Init => IInv
  BY InitEstablishes
<1>2. IInv /\ [Next]_vars => IInv'
  BY NextPreserves
<1> QED
  BY <1>1, <1>2, PTL DEF Spec

\* Types: every goroutine is at a place of its code and every reference is to a value.
THEOREM TypesHold == Spec => []TypeOK
<1>1. IInv => TypeOK
  BY DEF IInv
<1> QED
  BY <1>1, Invariance, PTL

\* stopService and connect between them close every listener and end every session.
THEOREM NothingIsLeft == Spec => []StopLeavesNothing
<1>1. IInv => StopLeavesNothing
  <2> SUFFICES ASSUME IInv, NEW i \in Insts, ctxDone[i], pc[i] = "done",
                      \A c \in Callers : stopPc[c][i] \in StopWorkDone
               PROVE  /\ proxyAt[i] = "none"
                      /\ \A s \in Sessions : OwnerOf[s] = i => proc[s] \in {"kill", "gone"}
    BY DEF StopLeavesNothing
  <2>1. proxyAt[i] = "none"
    BY DEF IInv, TypeOK, ProxyHasHolder, ProxyPlaces, StopWorkDone, BeforeTake
  <2>2. ASSUME NEW s \in Sessions, OwnerOf[s] = i PROVE proc[s] \in {"kill", "gone"}
    <3>1. proc[s] \in ProcStates
      BY DEF IInv, TypeOK
    <3>2. proc[s] \notin {"live", "term"}
      BY <2>2 DEF IInv, SessionHasLoop
    <3> QED
      BY <3>1, <3>2 DEF ProcStates
  <2> QED
    BY <2>1, <2>2
<1> QED
  BY <1>1, Invariance, PTL

\* A loop that nobody stopped ends only by reporting expired credentials.
THEOREM LoopsEndLoudly == Spec => []LoudExit
<1>1. IInv => LoudExit
  BY DEF IInv, StateFollowsLoop, LoudExit
<1> QED
  BY <1>1, Invariance, PTL

\* While a Connected, unstopped service has an open session, that session is the published
\* one and the listener in front of it is the published one too.
THEOREM ConnectedCarries == Spec => []LiveSessionIsPublished
<1>1. IInv => LiveSessionIsPublished
  <2> SUFFICES ASSUME IInv, NEW i \in Insts, NEW s \in Sessions, OwnerOf[s] = i,
                      proc[s] \in {"live", "term"}, st[i] = "Connected", ~ctxDone[i]
               PROVE  session[i] = s /\ proxyAt[i] = "field"
    BY DEF LiveSessionIsPublished
  <2>1. sess[i] = s /\ pc[i] \in {"proxy", "commit", "abortproxy", "abortsess", "abortwait", "wait"}
    BY DEF IInv, SessionHasLoop
  <2>2. pc[i] = "wait"
    BY <2>1 DEF IInv, StateFollowsLoop
  <2> QED
    BY <2>1, <2>2 DEF IInv, SessionHasLoop
<1> QED
  BY <1>1, Invariance, PTL

-----------------------------------------------------------------------------
(* A stop is final: only connect's commit makes a service Connected and only    *)
(* it publishes a listener, and it refuses once the context is done.            *)

StaysDown(i) ==
  (ctxDone[i] /\ ctxDone'[i]) =>
    /\ st'[i] = "Connected" => st[i] = "Connected"
    /\ proxyAt'[i] = "field" => proxyAt[i] = "field"

\* No step of a loop, its own included, brings a cancelled instance up.
LEMMA LoopStaysDown ==
  ASSUME TypeOK, NEW i \in Insts, NEW j \in Insts, LoopStep(j)
  PROVE  StaysDown(i)
<1> USE DEF TypeOK, StaysDown, Goto, MoveOrExit, ConnectError
<1>1. CASE LoopNextRound(j)
  BY <1>1 DEF LoopNextRound
<1>2. CASE LoopBegin(j)
  BY <1>2 DEF LoopBegin
<1>3. CASE ConnectAllocate(j)
  BY <1>3 DEF ConnectAllocate
<1>4. CASE ConnectAddDNS(j)
  BY <1>4 DEF ConnectAddDNS, Register
<1>5. CASE ConnectStartSession(j)
  BY <1>5 DEF ConnectStartSession
<1>6. CASE ConnectStartFails(j)
  BY <1>6 DEF ConnectStartFails
<1>7. CASE ConnectOpenProxy(j)
  BY <1>7 DEF ConnectOpenProxy
<1>8. CASE ConnectOpenProxyFails(j)
  BY <1>8 DEF ConnectOpenProxyFails
<1>9. CASE ConnectCommit(j)
  BY <1>9 DEF ConnectCommit
<1>10. CASE ConnectRefused(j)
  BY <1>10 DEF ConnectRefused
<1>11. CASE ConnectStopProxy(j)
  BY <1>11 DEF ConnectStopProxy
<1>12. CASE ConnectStopSession(j)
  BY <1>12 DEF ConnectStopSession
<1>13. CASE ConnectSessionStopped(j)
  BY <1>13 DEF ConnectSessionStopped
<1>14. CASE LoopConnectRetry(j)
  BY <1>14 DEF LoopConnectRetry
<1>15. CASE LoopSessionEnded(j)
  BY <1>15 DEF LoopSessionEnded
<1>16. CASE LoopTakeProxy(j)
  BY <1>16 DEF LoopTakeProxy
<1>17. CASE LoopStopProxy(j)
  BY <1>17 DEF LoopStopProxy
<1>18. CASE LoopReconnecting(j)
  BY <1>18 DEF LoopReconnecting
<1>19. CASE LoopCredentialsExpired(j)
  BY <1>19 DEF LoopCredentialsExpired
<1> QED
  BY <1>1, <1>2, <1>3, <1>4, <1>5, <1>6, <1>7, <1>8, <1>9, <1>10, <1>11,
     <1>12, <1>13, <1>14, <1>15, <1>16, <1>17, <1>18, <1>19 DEF LoopStep

\* Nor does a step of Start or of Stop's clean-up.
LEMMA CallerStaysDown ==
  ASSUME TypeOK, NEW i \in Insts, NEW c \in Callers, CallerStep(c)
  PROVE  StaysDown(i)
<1> USE DEF TypeOK, StaysDown, Goto
<1>1. CASE UpSkip(c)
  BY <1>1 DEF UpSkip
<1>2. CASE UpCheck(c)
  BY <1>2 DEF UpCheck, FreeInst
<1>3. CASE UpAllocate(c)
  BY <1>3 DEF UpAllocate
<1>4. CASE UpInsert(c)
  BY <1>4 DEF UpInsert
<1>5. CASE UpSpawn(c)
  BY <1>5 DEF UpSpawn
<1>6. CASE UpReply(c)
  BY <1>6 DEF UpReply
<1>7. CASE DownRemoveDNS(c)
  BY <1>7 DEF DownRemoveDNS, Unregister
<1> QED
  BY <1>1, <1>2, <1>3, <1>4, <1>5, <1>6, <1>7 DEF CallerStep

\* Nor does a step of a stopService goroutine.
LEMMA StopStaysDown ==
  ASSUME TypeOK, NEW i \in Insts, NEW c \in Callers, NEW j \in Insts, StopStep(c, j)
  PROVE  StaysDown(i)
<1> USE CallersAssumption DEF TypeOK, StaysDown, StopGoto, ProxyPlaces
<1>1. CASE StopCancel(c, j)
  BY <1>1 DEF StopCancel
<1>2. CASE StopCancelPanics(c, j)
  BY <1>2 DEF StopCancelPanics
<1>3. CASE StopRead(c, j)
  BY <1>3 DEF StopRead
<1>4. CASE StopMoveToStopping(c, j)
  BY <1>4 DEF StopMoveToStopping
<1>5. CASE StopWithoutSession(c, j)
  BY <1>5 DEF StopWithoutSession
<1>6. CASE StopSession(c, j)
  BY <1>6 DEF StopSession
<1>7. CASE StopSessionStopped(c, j)
  BY <1>7 DEF StopSessionStopped
<1>8. CASE StopTakeProxy(c, j)
  BY <1>8 DEF StopTakeProxy
<1>9. CASE StopProxy(c, j)
  BY <1>9 DEF StopProxy
<1>10. CASE StopMoveToDisconnected(c, j)
  BY <1>10 DEF StopMoveToDisconnected
<1>11. CASE DownRelease(c, j)
  BY <1>11 DEF DownRelease
<1>12. CASE DownDelete(c, j)
  BY <1>12 DEF DownDelete
<1> QED
  BY <1>1, <1>2, <1>3, <1>4, <1>5, <1>6, <1>7, <1>8, <1>9, <1>10, <1>11,
     <1>12 DEF StopStep

\* Nor does anything else.
LEMMA OtherStaysDown ==
  ASSUME NEW i \in Insts, UNCHANGED <<st, proxyAt>>
  PROVE  StaysDown(i)
BY DEF StaysDown

\* A service that was stopped is not brought up by the loop that the stop races with.
THEOREM StopIsFinal == Spec => CancelledNeverConnects
<1>1. TypeOK /\ [Next]_vars => [\A i \in Insts : StaysDown(i)]_vars
  <2> SUFFICES ASSUME TypeOK, Next, NEW i \in Insts PROVE StaysDown(i)
    OBVIOUS
  <2>1. ASSUME NEW c \in Callers, NEW targets \in SUBSET Services,
               UpRequest(c, targets) \/ DownRequest(c, targets)
        PROVE  StaysDown(i)
    BY <2>1, OtherStaysDown DEF UpRequest, DownRequest
  <2>2. CASE NetChange \/ DropStep
    BY <2>2, OtherStaysDown DEF NetChange, DropStep, DropBegin, DropEnd, DropRead,
       DropSignal, DropReaped
  <2>3. ASSUME NEW s \in Sessions, SessionStep(s) \/ SessionDies(s) PROVE StaysDown(i)
    BY <2>3, OtherStaysDown DEF SessionStep, SessionDies, SessionKilled, SessionCancelled,
       SessionGone
  <2> QED
    BY <2>1, <2>2, <2>3, LoopStaysDown, CallerStaysDown, StopStaysDown DEF Next
<1> QED
  BY <1>1, TypesHold, PTL DEF Spec, CancelledNeverConnects, StaysDown

-----------------------------------------------------------------------------
(* Sessions: who refers to which, and that each is asked to end before it is   *)
(* killed.                                                                     *)

Refs ==
  /\ SessionsAreOwn
  /\ LoopHasSession
  /\ WaiterHasAsked
  /\ CancelledHasStarted

\* A step that hands out no session but those it finds, starts and asks none, and sends nobody
\* waiting for one.
Harmless ==
  /\ \A i \in Insts : sess'[i] \in {sess[i], NoSess}
  /\ \A i \in Insts : session'[i] \in {session[i], sess[i], NoSess}
  /\ \A c \in Callers, i \in Insts : stopSess'[c][i] \in {stopSess[c][i], session[i], NoSess}
  /\ \A i \in Insts : pc'[i] \in WithSession => pc[i] \in WithSession /\ sess'[i] = sess[i]
  /\ \A s \in Sessions : proc'[s] = "live" => proc[s] = "live"
  /\ \A i \in Insts : pc'[i] = "abortwait" => pc[i] = "abortwait"
  /\ \A c \in Callers, i \in Insts : stopPc'[c][i] = "reap" =>
       stopPc[c][i] = "reap" /\ stopSess'[c][i] = stopSess[c][i]
  /\ dropWait' \subseteq dropWait
  /\ \A i \in Insts : (ctxDone'[i] => ctxDone[i]) /\ (pc'[i] = "idle" => pc[i] = "idle" \/ ~ctxDone'[i])

\* A harmless step keeps them all.
LEMMA HarmlessKeepsRefs ==
  ASSUME TypeOK, Refs, Harmless
  PROVE  Refs'
<1>1. SessionsAreOwn'
  BY DEF Refs, SessionsAreOwn, Harmless
<1>2. LoopHasSession'
  BY DEF Refs, LoopHasSession, Harmless
<1>3. WaiterHasAsked'
  <2>1. ASSUME NEW i \in Insts, pc'[i] = "abortwait" PROVE proc'[sess'[i]] # "live"
    <3>1. pc[i] = "abortwait" /\ sess'[i] = sess[i] /\ sess[i] \in Sessions
      BY <2>1 DEF Harmless, Refs, LoopHasSession, WithSession, TypeOK
    <3> QED
      BY <3>1 DEF Harmless, Refs, WaiterHasAsked
  <2>2. ASSUME NEW c \in Callers, NEW i \in Insts, stopPc'[c][i] = "reap"
        PROVE  stopSess'[c][i] # NoSess /\ proc'[stopSess'[c][i]] # "live"
    <3>1. /\ stopSess'[c][i] = stopSess[c][i] /\ stopSess[c][i] # NoSess
          /\ proc[stopSess[c][i]] # "live" /\ stopSess[c][i] \in Sessions
      BY <2>2 DEF Harmless, Refs, WaiterHasAsked, TypeOK
    <3> QED
      BY <3>1 DEF Harmless
  <2>3. \A s \in dropWait' : proc'[s] # "live"
    BY DEF Harmless, Refs, WaiterHasAsked, TypeOK
  <2> QED
    BY <2>1, <2>2, <2>3 DEF WaiterHasAsked
<1>4. CancelledHasStarted'
  BY DEF Refs, CancelledHasStarted, Harmless
<1> QED
  BY <1>1, <1>2, <1>3, <1>4 DEF Refs

\* Session.Stop up to its wait, and what it never does: start a session again.
AllAsked(s) == proc'[s] # "live" /\ \A r \in Sessions : proc'[r] = "live" => proc[r] = "live"

LEMMA TerminateAsks ==
  ASSUME TypeOK, NEW s \in Sessions, Terminate(s)
  PROVE  AllAsked(s)
BY DEF Terminate, TypeOK, AllAsked

\* Who waits already has asked; who joins them waits for the session that is asked now.
LEMMA WaitersStayAsked ==
  ASSUME TypeOK, LoopHasSession, WaiterHasAsked, NEW s \in Sessions, AllAsked(s),
         UNCHANGED <<sess, stopSess>>,
         \A i \in Insts : pc'[i] = "abortwait" => pc[i] = "abortwait" \/ sess[i] = s,
         \A c \in Callers, i \in Insts :
           stopPc'[c][i] = "reap" => stopPc[c][i] = "reap" \/ stopSess[c][i] = s,
         dropWait' \subseteq dropWait \cup {s}
  PROVE  WaiterHasAsked'
<1>1. ASSUME NEW i \in Insts, pc'[i] = "abortwait" PROVE proc'[sess'[i]] # "live"
  <2>1. CASE sess[i] = s
    BY <2>1 DEF AllAsked
  <2>2. CASE pc[i] = "abortwait"
    <3>1. sess[i] \in Sessions /\ proc[sess[i]] # "live"
      BY <2>2 DEF LoopHasSession, WithSession, WaiterHasAsked, TypeOK
    <3> QED
      BY <3>1 DEF AllAsked
  <2> QED
    BY <1>1, <2>1, <2>2
<1>2. ASSUME NEW c \in Callers, NEW i \in Insts, stopPc'[c][i] = "reap"
      PROVE  stopSess'[c][i] # NoSess /\ proc'[stopSess'[c][i]] # "live"
  <2>1. CASE stopSess[c][i] = s
    BY <2>1, NilAssumption DEF AllAsked
  <2>2. CASE stopPc[c][i] = "reap"
    <3>1. /\ stopSess[c][i] \in Sessions /\ stopSess[c][i] # NoSess
          /\ proc[stopSess[c][i]] # "live"
      BY <2>2 DEF WaiterHasAsked, TypeOK
    <3> QED
      BY <3>1 DEF AllAsked
  <2> QED
    BY <1>2, <2>1, <2>2
<1>3. \A r \in dropWait' : proc'[r] # "live"
  BY DEF WaiterHasAsked, AllAsked, TypeOK
<1> QED
  BY <1>1, <1>2, <1>3 DEF WaiterHasAsked

\* Steps of the loop: two of them, which start a session and ask it to end, are not harmless.
LEMMA LoopKeepsRefs ==
  ASSUME TypeOK, Refs, NEW i \in Insts, LoopStep(i)
  PROVE  Refs'
<1> USE DEF Goto, MoveOrExit, ConnectError, WithSession
<1>1. CASE LoopNextRound(i)
  <2>1. Harmless
    BY <1>1 DEF LoopNextRound, TypeOK, Harmless
  <2> QED
    BY <2>1, HarmlessKeepsRefs
<1>2. CASE LoopBegin(i)
  <2>1. Harmless
    BY <1>2 DEF LoopBegin, TypeOK, Harmless
  <2> QED
    BY <2>1, HarmlessKeepsRefs
<1>3. CASE ConnectAllocate(i)
  <2>1. Harmless
    BY <1>3 DEF ConnectAllocate, TypeOK, Harmless
  <2> QED
    BY <2>1, HarmlessKeepsRefs
<1>4. CASE ConnectAddDNS(i)
  <2>1. Harmless
    BY <1>4 DEF ConnectAddDNS, Register, TypeOK, Harmless
  <2> QED
    BY <2>1, HarmlessKeepsRefs
<1>5. CASE ConnectStartSession(i)
  <2> HIDE DEF Goto, MoveOrExit, ConnectError, WithSession
  <2>1. PICK s \in Sessions :
          /\ OwnerOf[s] = i /\ FreeSess(s)
          /\ proc' = [proc EXCEPT ![s] = "live"]
          /\ sess' = [sess EXCEPT ![i] = s]
    BY <1>5 DEF ConnectStartSession
  <2>2. /\ pc' = [pc EXCEPT ![i] = "proxy"] /\ pc[i] = "start"
        /\ UNCHANGED <<session, ctxDone, stopPc, stopSess, dropWait>>
    BY <1>5 DEF ConnectStartSession, Goto
  <2>3. SessionsAreOwn'
    BY <2>1, <2>2 DEF Refs, SessionsAreOwn, TypeOK
  <2>4. LoopHasSession'
    BY <2>1, <2>2, NilAssumption DEF Refs, LoopHasSession, WithSession, TypeOK
  <2>5. WaiterHasAsked'
    <3>1. \A r \in Sessions : r # s => proc'[r] = proc[r]
      BY <2>1 DEF TypeOK
    <3>2. ASSUME NEW j \in Insts, pc'[j] = "abortwait" PROVE proc'[sess'[j]] # "live"
      <4>1. j # i /\ pc[j] = "abortwait" /\ sess'[j] = sess[j]
        BY <2>1, <2>2, <3>2 DEF TypeOK
      <4>2. sess[j] \in Sessions /\ OwnerOf[sess[j]] = j
        BY <4>1 DEF Refs, LoopHasSession, WithSession, SessionsAreOwn, TypeOK
      <4> QED
        BY <2>1, <3>1, <4>1, <4>2 DEF Refs, WaiterHasAsked
    <3>3. ASSUME NEW c \in Callers, NEW j \in Insts, stopPc'[c][j] = "reap"
          PROVE  stopSess'[c][j] # NoSess /\ proc'[stopSess'[c][j]] # "live"
      <4>1. /\ stopSess[c][j] # NoSess /\ proc[stopSess[c][j]] # "live"
            /\ stopSess'[c][j] = stopSess[c][j]
        BY <2>2, <3>3 DEF Refs, WaiterHasAsked
      <4>2. stopSess[c][j] \in Sessions /\ OwnerOf[stopSess[c][j]] = j
        BY <4>1 DEF Refs, SessionsAreOwn, TypeOK
      <4>3. stopSess[c][j] # s
        BY <2>1, <4>2 DEF FreeSess
      <4> QED
        BY <3>1, <4>1, <4>2, <4>3
    <3>4. \A r \in dropWait' : proc'[r] # "live"
      BY <2>1, <2>2, <3>1 DEF FreeSess, Refs, WaiterHasAsked, TypeOK
    <3> QED
      BY <3>2, <3>3, <3>4 DEF WaiterHasAsked
  <2>6. CancelledHasStarted'
    BY <2>2 DEF Refs, CancelledHasStarted, TypeOK
  <2> QED
    BY <2>3, <2>4, <2>5, <2>6 DEF Refs
<1>6. CASE ConnectStartFails(i)
  <2>1. Harmless
    BY <1>6 DEF ConnectStartFails, TypeOK, Harmless
  <2> QED
    BY <2>1, HarmlessKeepsRefs
<1>7. CASE ConnectOpenProxy(i)
  <2>1. Harmless
    BY <1>7 DEF ConnectOpenProxy, TypeOK, Harmless
  <2> QED
    BY <2>1, HarmlessKeepsRefs
<1>8. CASE ConnectOpenProxyFails(i)
  <2>1. Harmless
    BY <1>8 DEF ConnectOpenProxyFails, TypeOK, Harmless
  <2> QED
    BY <2>1, HarmlessKeepsRefs
<1>9. CASE ConnectCommit(i)
  <2>1. Harmless
    BY <1>9 DEF ConnectCommit, TypeOK, Harmless
  <2> QED
    BY <2>1, HarmlessKeepsRefs
<1>10. CASE ConnectRefused(i)
  <2>1. Harmless
    BY <1>10 DEF ConnectRefused, TypeOK, Harmless
  <2> QED
    BY <2>1, HarmlessKeepsRefs
<1>11. CASE ConnectStopProxy(i)
  <2>1. Harmless
    BY <1>11 DEF ConnectStopProxy, TypeOK, Harmless
  <2> QED
    BY <2>1, HarmlessKeepsRefs
<1>12. CASE ConnectStopSession(i)
  <2> HIDE DEF Goto, MoveOrExit, ConnectError, WithSession
  <2>1. /\ pc[i] = "abortsess" /\ pc' = [pc EXCEPT ![i] = "abortwait"] /\ Terminate(sess[i])
        /\ UNCHANGED <<sess, session, ctxDone, stopPc, stopSess, dropWait>>
    BY <1>12 DEF ConnectStopSession, Goto
  <2>2. sess[i] \in Sessions
    BY <2>1 DEF Refs, LoopHasSession, WithSession, TypeOK
  <2>3. AllAsked(sess[i])
    BY <2>1, <2>2, TerminateAsks
  <2>4. SessionsAreOwn' /\ LoopHasSession' /\ CancelledHasStarted'
    BY <2>1 DEF Refs, SessionsAreOwn, LoopHasSession, WithSession, CancelledHasStarted, TypeOK
  <2>5. \A j \in Insts : pc'[j] = "abortwait" => pc[j] = "abortwait" \/ sess[j] = sess[i]
    BY <2>1 DEF TypeOK
  <2>6. WaiterHasAsked'
    BY <2>1, <2>2, <2>3, <2>5, WaitersStayAsked DEF Refs
  <2> QED
    BY <2>4, <2>6 DEF Refs
<1>13. CASE ConnectSessionStopped(i)
  <2>1. Harmless
    BY <1>13 DEF ConnectSessionStopped, Reap, TypeOK, Harmless
  <2> QED
    BY <2>1, HarmlessKeepsRefs
<1>14. CASE LoopConnectRetry(i)
  <2>1. Harmless
    BY <1>14 DEF LoopConnectRetry, TypeOK, Harmless
  <2> QED
    BY <2>1, HarmlessKeepsRefs
<1>15. CASE LoopSessionEnded(i)
  <2>1. Harmless
    BY <1>15 DEF LoopSessionEnded, TypeOK, Harmless
  <2> QED
    BY <2>1, HarmlessKeepsRefs
<1>16. CASE LoopTakeProxy(i)
  <2>1. Harmless
    BY <1>16 DEF LoopTakeProxy, TypeOK, Harmless
  <2> QED
    BY <2>1, HarmlessKeepsRefs
<1>17. CASE LoopStopProxy(i)
  <2>1. Harmless
    BY <1>17 DEF LoopStopProxy, TypeOK, Harmless
  <2> QED
    BY <2>1, HarmlessKeepsRefs
<1>18. CASE LoopReconnecting(i)
  <2>1. Harmless
    BY <1>18 DEF LoopReconnecting, TypeOK, Harmless
  <2> QED
    BY <2>1, HarmlessKeepsRefs
<1>19. CASE LoopCredentialsExpired(i)
  <2>1. Harmless
    BY <1>19 DEF LoopCredentialsExpired, TypeOK, Harmless
  <2> QED
    BY <2>1, HarmlessKeepsRefs
<1> QED
  BY <1>1, <1>2, <1>3, <1>4, <1>5, <1>6, <1>7, <1>8, <1>9, <1>10, <1>11, <1>12, <1>13, <1>14, <1>15, <1>16, <1>17, <1>18, <1>19 DEF LoopStep

\* Steps of Start and of Stop's clean-up.
LEMMA CallerKeepsRefs ==
  ASSUME TypeOK, Refs, NEW c \in Callers, CallerStep(c)
  PROVE  Refs'
<1> USE DEF WithSession
<1>1. CASE UpSkip(c)
  <2>1. Harmless
    BY <1>1 DEF UpSkip, TypeOK, Harmless
  <2> QED
    BY <2>1, HarmlessKeepsRefs
<1>2. CASE UpCheck(c)
  <2>1. Harmless
    BY <1>2 DEF UpCheck, TypeOK, Harmless
  <2> QED
    BY <2>1, HarmlessKeepsRefs
<1>3. CASE UpAllocate(c)
  <2>1. Harmless
    BY <1>3 DEF UpAllocate, TypeOK, Harmless
  <2> QED
    BY <2>1, HarmlessKeepsRefs
<1>4. CASE UpInsert(c)
  <2>1. Harmless
    BY <1>4 DEF UpInsert, TypeOK, Harmless
  <2> QED
    BY <2>1, HarmlessKeepsRefs
<1>5. CASE UpSpawn(c)
  <2>1. Harmless
    BY <1>5 DEF UpSpawn, Goto, TypeOK, Harmless
  <2> QED
    BY <2>1, HarmlessKeepsRefs
<1>6. CASE UpReply(c)
  <2>1. Harmless
    BY <1>6 DEF UpReply, TypeOK, Harmless
  <2> QED
    BY <2>1, HarmlessKeepsRefs
<1>7. CASE DownRemoveDNS(c)
  <2>1. Harmless
    BY <1>7 DEF DownRemoveDNS, Unregister, TypeOK, Harmless
  <2> QED
    BY <2>1, HarmlessKeepsRefs
<1> QED
  BY <1>1, <1>2, <1>3, <1>4, <1>5, <1>6, <1>7 DEF CallerStep

\* Steps of a stopService goroutine: the one that cancels the context meets a loop that has
\* started, the one that goes to wait for the session has asked it to end.
LEMMA StopKeepsRefs ==
  ASSUME TypeOK, Refs, NEW c \in Callers, NEW i \in Insts, StopStep(c, i)
  PROVE  Refs'
<1> USE DEF StopGoto, WithSession
<1>1. CASE StopCancel(c, i)
  <2>1. /\ pc[i] # "idle" /\ ctxDone' = [ctxDone EXCEPT ![i] = TRUE]
        /\ UNCHANGED <<pc, sess, session, proc, stopSess, dropWait>>
        /\ \A d \in Callers, j \in Insts : stopPc'[d][j] = "reap" => stopPc[d][j] = "reap"
    BY <1>1 DEF StopCancel, TypeOK
  <2>2. CancelledHasStarted'
    BY <2>1 DEF Refs, CancelledHasStarted, TypeOK
  <2>3. SessionsAreOwn' /\ LoopHasSession' /\ WaiterHasAsked'
    BY <2>1 DEF Refs, SessionsAreOwn, LoopHasSession, WaiterHasAsked, TypeOK
  <2> QED
    BY <2>2, <2>3 DEF Refs
<1>2. CASE StopCancelPanics(c, i)
  <2>1. Harmless
    BY <1>2 DEF StopCancelPanics, TypeOK, Harmless
  <2> QED
    BY <2>1, HarmlessKeepsRefs
<1>3. CASE StopRead(c, i)
  <2>1. Harmless
    BY <1>3 DEF StopRead, TypeOK, Harmless
  <2> QED
    BY <2>1, HarmlessKeepsRefs
<1>4. CASE StopMoveToStopping(c, i)
  <2>1. Harmless
    BY <1>4 DEF StopMoveToStopping, TypeOK, Harmless
  <2> QED
    BY <2>1, HarmlessKeepsRefs
<1>5. CASE StopWithoutSession(c, i)
  <2>1. Harmless
    BY <1>5 DEF StopWithoutSession, TypeOK, Harmless
  <2> QED
    BY <2>1, HarmlessKeepsRefs
<1>6. CASE StopSession(c, i)
  <2>1. /\ stopSess[c][i] # NoSess /\ Terminate(stopSess[c][i])
        /\ UNCHANGED <<pc, sess, session, ctxDone, stopSess, dropWait>>
        /\ \A d \in Callers, j \in Insts :
             stopPc'[d][j] = "reap" => stopPc[d][j] = "reap" \/ (d = c /\ j = i)
    BY <1>6 DEF StopSession, TypeOK
  <2>2. stopSess[c][i] \in Sessions
    BY <2>1 DEF TypeOK
  <2>3. AllAsked(stopSess[c][i])
    BY <2>1, <2>2, TerminateAsks
  <2>4. SessionsAreOwn' /\ LoopHasSession' /\ CancelledHasStarted'
    BY <2>1 DEF Refs, SessionsAreOwn, LoopHasSession, CancelledHasStarted
  <2>5. /\ \A j \in Insts : pc'[j] = "abortwait" => pc[j] = "abortwait"
        /\ \A d \in Callers, j \in Insts : stopPc'[d][j] = "reap" =>
             stopPc[d][j] = "reap" \/ stopSess[d][j] = stopSess[c][i]
        /\ dropWait' \subseteq dropWait
    BY <2>1
  <2>6. WaiterHasAsked'
    BY <2>1, <2>2, <2>3, <2>5, WaitersStayAsked DEF Refs
  <2> QED
    BY <2>4, <2>6 DEF Refs
<1>7. CASE StopSessionStopped(c, i)
  <2>1. Harmless
    BY <1>7 DEF StopSessionStopped, Reap, TypeOK, Harmless
  <2> QED
    BY <2>1, HarmlessKeepsRefs
<1>8. CASE StopTakeProxy(c, i)
  <2>1. Harmless
    BY <1>8 DEF StopTakeProxy, TypeOK, Harmless
  <2> QED
    BY <2>1, HarmlessKeepsRefs
<1>9. CASE StopProxy(c, i)
  <2>1. Harmless
    BY <1>9 DEF StopProxy, TypeOK, Harmless
  <2> QED
    BY <2>1, HarmlessKeepsRefs
<1>10. CASE StopMoveToDisconnected(c, i)
  <2>1. Harmless
    BY <1>10 DEF StopMoveToDisconnected, TypeOK, Harmless
  <2> QED
    BY <2>1, HarmlessKeepsRefs
<1>11. CASE DownRelease(c, i)
  <2>1. Harmless
    BY <1>11 DEF DownRelease, TypeOK, Harmless
  <2> QED
    BY <2>1, HarmlessKeepsRefs
<1>12. CASE DownDelete(c, i)
  <2>1. Harmless
    BY <1>12 DEF DownDelete, TypeOK, Harmless
  <2> QED
    BY <2>1, HarmlessKeepsRefs
<1> QED
  BY <1>1, <1>2, <1>3, <1>4, <1>5, <1>6, <1>7, <1>8, <1>9, <1>10, <1>11, <1>12 DEF StopStep

\* The arrival of a request.
LEMMA RequestKeepsRefs ==
  ASSUME TypeOK, Refs, NEW c \in Callers, NEW targets \in SUBSET Services,
         UpRequest(c, targets) \/ DownRequest(c, targets)
  PROVE  Refs'
<1>1. UNCHANGED <<serviceVars, stopSess, dropWait>>
  BY DEF UpRequest, DownRequest
<1>2. \A d \in Callers, i \in Insts : stopPc'[d][i] = "reap" => stopPc[d][i] = "reap"
  <2>1. CASE UpRequest(c, targets)
    BY <2>1 DEF UpRequest
  <2>2. CASE DownRequest(c, targets)
    <3> DEFINE asked == [i \in Insts |->
          IF ServiceOf[i] \in targets /\ instances[ServiceOf[i]] = i
          THEN "cancel" ELSE "none"]
    <3>1. \A i \in Insts : asked[i] # "reap"
      OBVIOUS
    <3>2. stopPc' = [stopPc EXCEPT ![c] = asked]
      BY <2>2 DEF DownRequest
    <3> HIDE DEF asked
    <3> QED
      BY <3>1, <3>2 DEF TypeOK
  <2> QED
    BY <2>1, <2>2
<1>3. Harmless
  BY <1>1, <1>2 DEF Harmless, WithSession
<1> QED
  BY <1>3, HarmlessKeepsRefs

\* A network event, and the steps of DropSessions: it waits for the session it has asked.
LEMMA NetworkKeepsRefs ==
  ASSUME TypeOK, Refs, NetChange \/ DropStep
  PROVE  Refs'
<1>1. CASE NetChange \/ DropBegin \/ DropEnd \/ \E i \in Insts : DropRead(i)
  <2>1. Harmless
    BY <1>1 DEF NetChange, DropBegin, DropEnd, DropRead, Harmless, WithSession
  <2> QED
    BY <2>1, HarmlessKeepsRefs
<1>2. ASSUME NEW s \in Sessions, DropReaped(s) PROVE Refs'
  <2>1. Harmless
    BY <1>2 DEF DropReaped, Reap, TypeOK, Harmless, WithSession
  <2> QED
    BY <2>1, HarmlessKeepsRefs
<1>3. ASSUME NEW s \in Sessions, DropSignal(s) PROVE Refs'
  <2>1. /\ Terminate(s) /\ dropWait' = dropWait \cup {s}
        /\ UNCHANGED <<pc, sess, session, ctxDone, stopPc, stopSess>>
    BY <1>3 DEF DropSignal
  <2>2. AllAsked(s)
    BY <2>1, TerminateAsks
  <2>3. SessionsAreOwn' /\ LoopHasSession' /\ CancelledHasStarted'
    BY <2>1 DEF Refs, SessionsAreOwn, LoopHasSession, CancelledHasStarted
  <2>4. WaiterHasAsked'
    BY <2>1, <2>2, WaitersStayAsked DEF Refs
  <2> QED
    BY <2>3, <2>4 DEF Refs
<1> QED
  BY <1>1, <1>2, <1>3 DEF DropStep

\* Steps of a session process: none of them starts one.
LEMMA SessionKeepsRefs ==
  ASSUME TypeOK, Refs, NEW s \in Sessions, SessionStep(s) \/ SessionDies(s)
  PROVE  Refs'
<1>1. Harmless
  BY DEF SessionStep, SessionDies, SessionKilled, SessionCancelled, SessionGone, TypeOK,
     Harmless, WithSession
<1> QED
  BY <1>1, HarmlessKeepsRefs

\* At first there is no session to refer to.
LEMMA InitRefs == Init => Refs
BY DEF Init, Refs, SessionsAreOwn, LoopHasSession, WaiterHasAsked, CancelledHasStarted,
   WithSession

\* Every step preserves the references.
LEMMA NextKeepsRefs == TypeOK /\ Refs /\ [Next]_vars => Refs'
<1> SUFFICES ASSUME TypeOK, Refs, [Next]_vars PROVE Refs'
  OBVIOUS
<1>1. CASE Next
  BY <1>1, LoopKeepsRefs, CallerKeepsRefs, StopKeepsRefs, RequestKeepsRefs,
     NetworkKeepsRefs, SessionKeepsRefs DEF Next
<1>2. CASE UNCHANGED vars
  BY <1>2 DEF vars, Refs, SessionsAreOwn, LoopHasSession, WaiterHasAsked, CancelledHasStarted
<1> QED
  BY <1>1, <1>2

\* Whoever holds a session holds one of its own instance's, the loop has one wherever it works
\* with one, whoever waits to kill one has asked it to end, and no context is cancelled before
\* its loop has started.
THEOREM ReferencesHold == Spec => []Inv
<1>1. TypeOK /\ IInv /\ Refs => Inv
  BY DEF Refs, Inv
<1> QED
  BY <1>1, InitRefs, NextKeepsRefs, TypesHold, Invariance, PTL DEF Spec

-----------------------------------------------------------------------------
(* Every session is asked to end before it is killed. *)

EndsInOrder(s) ==
  proc'[s] # proc[s] =>
    \/ proc[s] = "live" /\ proc'[s] \in {"term", "gone"}
    \/ proc[s] = "term" /\ proc'[s] \in {"kill", "gone"}
    \/ proc[s] = "kill" /\ proc'[s] = "gone"
    \/ proc[s] = "gone" /\ proc'[s] = "live" /\ FreeSess(s)

LEMMA TerminateInOrder ==
  ASSUME TypeOK, NEW r, Terminate(r), NEW s \in Sessions
  PROVE  EndsInOrder(s)
BY DEF TypeOK, Terminate, EndsInOrder

\* A kill is in order once the session was asked.
LEMMA ReapInOrder ==
  ASSUME TypeOK, NEW r, Reap(r), r \in Sessions => proc[r] # "live", NEW s \in Sessions
  PROVE  EndsInOrder(s)
<1>1. CASE UNCHANGED proc
  BY <1>1 DEF EndsInOrder
<1>2. CASE proc[r] # "gone" /\ proc' = [proc EXCEPT ![r] = "kill"]
  <2>1. CASE s = r
    <3>1. proc[s] \in {"term", "kill"} /\ proc'[s] = "kill"
      BY <1>2, <2>1 DEF TypeOK, ProcStates
    <3> QED
      BY <3>1 DEF EndsInOrder
  <2>2. CASE s # r
    BY <1>2, <2>2 DEF TypeOK, EndsInOrder
  <2> QED
    BY <2>1, <2>2
<1> QED
  BY <1>1, <1>2 DEF Reap

\* Every step that may end a session, or start one.
LEMMA NextInOrder == TypeOK /\ Refs /\ Next => \A s \in Sessions : EndsInOrder(s)
<1> SUFFICES ASSUME TypeOK, Refs, Next, NEW s \in Sessions PROVE EndsInOrder(s)
  OBVIOUS
<1>1. ASSUME UNCHANGED proc PROVE EndsInOrder(s)
  BY <1>1 DEF EndsInOrder
<1>2. ASSUME NEW i \in Insts, LoopStep(i) PROVE EndsInOrder(s)
  <2>1. CASE ConnectStartSession(i)
    <3>1. PICK r \in Sessions : FreeSess(r) /\ proc' = [proc EXCEPT ![r] = "live"]
      BY <2>1 DEF ConnectStartSession
    <3>2. CASE s = r
      BY <3>1, <3>2 DEF TypeOK, EndsInOrder, FreeSess
    <3>3. CASE s # r
      BY <3>1, <3>3 DEF TypeOK, EndsInOrder
    <3> QED
      BY <3>2, <3>3
  <2>2. CASE ConnectStopSession(i)
    BY <2>2, TerminateInOrder DEF ConnectStopSession
  <2>3. CASE ConnectSessionStopped(i)
    BY <2>3, ReapInOrder DEF ConnectSessionStopped, Refs, WaiterHasAsked
  <2>4. CASE \/ LoopNextRound(i) \/ LoopBegin(i) \/ ConnectAllocate(i) \/ ConnectAddDNS(i)
             \/ ConnectStartFails(i) \/ ConnectOpenProxy(i) \/ ConnectOpenProxyFails(i)
             \/ ConnectCommit(i) \/ ConnectRefused(i) \/ ConnectStopProxy(i)
    BY <1>1, <2>4 DEF LoopNextRound, LoopBegin, ConnectAllocate, ConnectAddDNS,
       ConnectStartFails, ConnectOpenProxy, ConnectOpenProxyFails, ConnectCommit,
       ConnectRefused, ConnectStopProxy
  <2>5. CASE \/ LoopConnectRetry(i) \/ LoopSessionEnded(i) \/ LoopTakeProxy(i)
             \/ LoopStopProxy(i) \/ LoopReconnecting(i) \/ LoopCredentialsExpired(i)
    BY <1>1, <2>5 DEF LoopConnectRetry, LoopSessionEnded, LoopTakeProxy, LoopStopProxy,
       LoopReconnecting, LoopCredentialsExpired
  <2> QED
    BY <1>2, <2>1, <2>2, <2>3, <2>4, <2>5 DEF LoopStep
<1>3. ASSUME NEW c \in Callers, CallerStep(c) PROVE EndsInOrder(s)
  BY <1>1, <1>3 DEF CallerStep, UpSkip, UpCheck, UpAllocate, UpInsert, UpSpawn, UpReply,
     DownRemoveDNS
<1>4. ASSUME NEW c \in Callers, NEW i \in Insts, StopStep(c, i) PROVE EndsInOrder(s)
  <2>1. CASE StopSession(c, i)
    BY <2>1, TerminateInOrder DEF StopSession
  <2>2. CASE StopSessionStopped(c, i)
    BY <2>2, ReapInOrder DEF StopSessionStopped, Refs, WaiterHasAsked
  <2>3. CASE \/ StopCancel(c, i) \/ StopCancelPanics(c, i) \/ StopRead(c, i)
             \/ StopMoveToStopping(c, i) \/ StopWithoutSession(c, i)
    BY <1>1, <2>3 DEF StopCancel, StopCancelPanics, StopRead, StopMoveToStopping,
       StopWithoutSession
  <2>4. CASE \/ StopTakeProxy(c, i) \/ StopProxy(c, i) \/ StopMoveToDisconnected(c, i)
             \/ DownRelease(c, i) \/ DownDelete(c, i)
    BY <1>1, <2>4 DEF StopTakeProxy, StopProxy, StopMoveToDisconnected, DownRelease,
       DownDelete
  <2> QED
    BY <1>4, <2>1, <2>2, <2>3, <2>4 DEF StopStep
<1>5. ASSUME NEW c \in Callers, NEW targets \in SUBSET Services,
             UpRequest(c, targets) \/ DownRequest(c, targets)
      PROVE  EndsInOrder(s)
  BY <1>1, <1>5 DEF UpRequest, DownRequest
<1>6. CASE NetChange \/ DropStep
  <2>1. ASSUME NEW r \in Sessions, DropSignal(r) PROVE EndsInOrder(s)
    BY <2>1, TerminateInOrder DEF DropSignal
  <2>2. ASSUME NEW r \in Sessions, DropReaped(r) PROVE EndsInOrder(s)
    BY <2>2, ReapInOrder DEF DropReaped, Refs, WaiterHasAsked
  <2>3. CASE NetChange \/ DropBegin \/ DropEnd \/ \E i \in Insts : DropRead(i)
    BY <1>1, <2>3 DEF NetChange, DropBegin, DropEnd, DropRead
  <2> QED
    BY <1>6, <2>1, <2>2, <2>3 DEF DropStep
<1>7. ASSUME NEW r \in Sessions, SessionStep(r) \/ SessionDies(r) PROVE EndsInOrder(s)
  BY <1>7 DEF SessionStep, SessionDies, SessionKilled, SessionCancelled, SessionGone, TypeOK,
     EndsInOrder
<1> QED
  BY <1>2, <1>3, <1>4, <1>5, <1>6, <1>7 DEF Next

\* No session is killed that was not asked first, whoever ends it.
THEOREM SessionsAreAskedFirst == Spec => SessionsEndInOrder
<1>1. Inv /\ [Next]_vars => [\A s \in Sessions : EndsInOrder(s)]_vars
  BY NextInOrder DEF Inv, IInv, Refs
<1> QED
  BY <1>1, ReferencesHold, PTL DEF Spec, SessionsEndInOrder, EndsInOrder

-----------------------------------------------------------------------------
(* The loop of a cancelled instance counts down. *)

WindsDown(i) ==
  (ctxDone[i] /\ ctxDone'[i] /\ pc'[i] # pc[i]) => StepsLeft(pc'[i]) < StepsLeft(pc[i])

\* Each of its own steps leads nearer to its end, and none of another loop moves it.
LEMMA LoopWindsDown ==
  ASSUME TypeOK, NEW i \in Insts, NEW j \in Insts, LoopStep(j)
  PROVE  WindsDown(i)
<1> USE DEF TypeOK, WindsDown, StepsLeft, Goto, MoveOrExit, ConnectError
<1>1. CASE LoopNextRound(j)
  BY <1>1 DEF LoopNextRound
<1>2. CASE LoopBegin(j)
  BY <1>2 DEF LoopBegin
<1>3. CASE ConnectAllocate(j)
  BY <1>3 DEF ConnectAllocate
<1>4. CASE ConnectAddDNS(j)
  BY <1>4 DEF ConnectAddDNS
<1>5. CASE ConnectStartSession(j)
  BY <1>5 DEF ConnectStartSession
<1>6. CASE ConnectStartFails(j)
  BY <1>6 DEF ConnectStartFails
<1>7. CASE ConnectOpenProxy(j)
  BY <1>7 DEF ConnectOpenProxy
<1>8. CASE ConnectOpenProxyFails(j)
  BY <1>8 DEF ConnectOpenProxyFails
<1>9. CASE ConnectCommit(j)
  BY <1>9 DEF ConnectCommit
<1>10. CASE ConnectRefused(j)
  BY <1>10 DEF ConnectRefused
<1>11. CASE ConnectStopProxy(j)
  BY <1>11 DEF ConnectStopProxy
<1>12. CASE ConnectStopSession(j)
  BY <1>12 DEF ConnectStopSession
<1>13. CASE ConnectSessionStopped(j)
  BY <1>13 DEF ConnectSessionStopped
<1>14. CASE LoopConnectRetry(j)
  BY <1>14 DEF LoopConnectRetry
<1>15. CASE LoopSessionEnded(j)
  BY <1>15 DEF LoopSessionEnded
<1>16. CASE LoopTakeProxy(j)
  BY <1>16 DEF LoopTakeProxy
<1>17. CASE LoopStopProxy(j)
  BY <1>17 DEF LoopStopProxy
<1>18. CASE LoopReconnecting(j)
  BY <1>18 DEF LoopReconnecting
<1>19. CASE LoopCredentialsExpired(j)
  BY <1>19 DEF LoopCredentialsExpired
<1> QED
  BY <1>1, <1>2, <1>3, <1>4, <1>5, <1>6, <1>7, <1>8, <1>9, <1>10, <1>11,
     <1>12, <1>13, <1>14, <1>15, <1>16, <1>17, <1>18, <1>19 DEF LoopStep

\* Start takes only the name of an instance whose loop is over, whose context is a new one, and
\* starts the loop of one that nobody has cancelled yet.
LEMMA CallerWindsDown ==
  ASSUME TypeOK, NewIsUnstarted, CancelledHasStarted, NEW i \in Insts, NEW c \in Callers,
         CallerStep(c)
  PROVE  WindsDown(i)
<1> USE DEF TypeOK, WindsDown
<1>1. CASE UpCheck(c)
  BY <1>1 DEF UpCheck
<1>2. CASE UpSpawn(c)
  BY <1>2 DEF UpSpawn, Goto, NewIsUnstarted, CancelledHasStarted
<1>3. CASE UpSkip(c) \/ UpAllocate(c) \/ UpInsert(c) \/ UpReply(c) \/ DownRemoveDNS(c)
  BY <1>3 DEF UpSkip, UpAllocate, UpInsert, UpReply, DownRemoveDNS
<1> QED
  BY <1>1, <1>2, <1>3 DEF CallerStep

\* Once its context is done a loop takes a bounded number of steps and starts nothing anew.
THEOREM CancelledLoopsEnd == Spec => CancelledLoopWindsDown
<1>1. Inv /\ [Next]_vars => [\A i \in Insts : WindsDown(i)]_vars
  <2> SUFFICES ASSUME Inv, Next, NEW i \in Insts PROVE WindsDown(i)
    OBVIOUS
  <2>1. TypeOK /\ NewIsUnstarted /\ CancelledHasStarted
    BY DEF Inv, IInv
  <2>2. ASSUME UNCHANGED pc PROVE WindsDown(i)
    BY <2>2 DEF WindsDown
  <2>3. ASSUME NEW c \in Callers, NEW j \in Insts, StopStep(c, j) PROVE UNCHANGED pc
    BY <2>3 DEF StopStep, StopCancel, StopCancelPanics, StopRead, StopMoveToStopping,
       StopWithoutSession, StopSession, StopSessionStopped, StopTakeProxy, StopProxy,
       StopMoveToDisconnected, DownRelease, DownDelete
  <2>4. ASSUME NEW c \in Callers, NEW targets \in SUBSET Services,
               UpRequest(c, targets) \/ DownRequest(c, targets)
        PROVE  UNCHANGED pc
    BY <2>4 DEF UpRequest, DownRequest
  <2>5. CASE NetChange \/ DropStep
    BY <2>2, <2>5 DEF NetChange, DropStep, DropBegin, DropEnd, DropRead, DropSignal,
       DropReaped
  <2>6. ASSUME NEW s \in Sessions, SessionStep(s) \/ SessionDies(s) PROVE UNCHANGED pc
    BY <2>6 DEF SessionStep, SessionDies, SessionKilled, SessionCancelled, SessionGone
  <2> QED
    BY <2>1, <2>2, <2>3, <2>4, <2>5, <2>6, LoopWindsDown, CallerWindsDown DEF Next
<1> QED
  BY <1>1, ReferencesHold, PTL DEF Spec, CancelledLoopWindsDown, WindsDown

-----------------------------------------------------------------------------
(* While no two requests work on the same service, every step preserves Serial. *)

\* What an instance's address and name need.
KeepsName == KeepsAddress /\ (HomesDiffer => RecordsKeepHome)

\* The inductive part of Serial: with IInv it implies the rest.
SerialCore ==
  /\ ListedUnderItsKey
  /\ RunningIsListed
  /\ ListedIsWanted
  /\ NewHasItsPlace
  /\ StoppedHasItsPlace
  /\ KeepsName

\* Every open listener belongs to a loop or to a stopper, and they to a listed instance or to one
\* that a stop has left behind.
LEMMA PortsCounted == IInv /\ SerialCore => Serial
<1> SUFFICES ASSUME IInv, SerialCore, NEW i \in Insts, proxyAt[i] # "none"
             PROVE  instances[ServiceOf[i]] = i \/ i \in Leftovers(ServiceOf[i])
  BY DEF Serial, SerialCore, KeepsName, PortsAreCounted
<1>1. CASE \E c \in Callers : stopPc[c][i] \in BeforeTake \cup {"close"}
  BY <1>1 DEF SerialCore, StoppedHasItsPlace, BeforeTake
<1>2. CASE pc[i] \notin {"idle", "done"}
  BY <1>2, NamesAssumption DEF SerialCore, RunningIsListed, Leftovers
<1>3. proxyAt[i] \in {"connect", "loop", "field"} \/ proxyAt[i] \in Callers
  BY DEF IInv, TypeOK, ProxyPlaces
<1> QED
  BY <1>1, <1>2, <1>3 DEF IInv, ProxyHasHolder

\* An address that a key holds is given again; and with hashes that differ it is the key's own.
LEMMA AllocationsKeep ==
  ASSUME TypeOK, NEW k \in Services, NEW a \in Allocations(k)
  PROVE  /\ ips[k] # NoAddr => a = ips[k]
         /\ HomesDiffer /\ RecordsKeepHome => a = Home[k]
<1>1. CASE ips[k] # NoAddr
  BY <1>1 DEF Allocations, RecordsKeepHome
<1>2. CASE ips[k] = NoAddr
  <2> SUFFICES ASSUME HomesDiffer, RecordsKeepHome PROVE a = Home[k]
    BY <1>2
  <2>1. Home[k] \in Addresses /\ Home[k] # NoAddr
    BY AddressAssumption
  <2>2. \A j \in Services : ips[j] # Home[k]
    BY <1>2, <2>1 DEF HomesDiffer, RecordsKeepHome
  <2> QED
    BY <1>2, <2>1, <2>2 DEF Allocations
<1> QED
  BY <1>1, <1>2

\* What listing, cancelling, creating and stopping leave alone.
LEMMA PlacesKept ==
  ASSUME Serial, UNCHANGED <<instances, ctxDone, cpc, new, stopPc>>
  PROVE  ListedUnderItsKey' /\ ListedIsWanted' /\ NewHasItsPlace' /\ StoppedHasItsPlace'
BY DEF Serial, ListedUnderItsKey, ListedIsWanted, NewHasItsPlace, StoppedHasItsPlace

\* Steps of the service loop: each keeps what connect reserved, and none lists, stops or
\* creates an instance.
LEMMA LoopKeepsSerial ==
  ASSUME IInv, Serial, NEW i \in Insts, LoopStep(i)
  PROVE  SerialCore'
<1> SUFFICES /\ UNCHANGED <<instances, ctxDone, cpc, new, stopPc>>
             /\ pc[i] \notin {"idle", "done"} /\ \A j \in Insts : j # i => pc'[j] = pc[j]
             /\ KeepsName'
  <2>1. ASSUME UNCHANGED <<instances, ctxDone>>, pc[i] \notin {"idle", "done"},
               \A j \in Insts : j # i => pc'[j] = pc[j]
        PROVE  RunningIsListed'
    BY <2>1 DEF Serial, RunningIsListed
  <2> QED
    BY <2>1, PlacesKept DEF SerialCore
<1> USE DEF IInv, TypeOK, Serial, KeepsName, KeepsAddress, RecordsKeepHome, Goto, MoveOrExit,
            ConnectError
<1>1. CASE LoopNextRound(i)
  BY <1>1 DEF LoopNextRound
<1>2. CASE LoopBegin(i)
  BY <1>2 DEF LoopBegin
<1>3. CASE ConnectAllocate(i)
  <2>1. PICK a \in Allocations(ServiceOf[i]) :
          ips' = [ips EXCEPT ![ServiceOf[i]] = a] /\ addr' = [addr EXCEPT ![i] = a]
    BY <1>3 DEF ConnectAllocate
  <2>2. /\ UNCHANGED <<instances, ctxDone, cpc, new, stopPc, dns>>
        /\ pc[i] = "alloc" /\ pc' = [pc EXCEPT ![i] = "dns"]
    BY <1>3 DEF ConnectAllocate
  <2>3. /\ ips[ServiceOf[i]] # NoAddr => a = ips[ServiceOf[i]]
        /\ HomesDiffer => a = Home[ServiceOf[i]]
    BY <2>1, AllocationsKeep, NamesAssumption
  <2>4. KeepsAddress'
    BY <2>1, <2>2, <2>3, NamesAssumption
  <2>5. ASSUME HomesDiffer PROVE RecordsKeepHome'
    BY <2>1, <2>2, <2>3, <2>5, NamesAssumption
  <2> QED
    BY <2>2, <2>4, <2>5 DEF HomesDiffer
<1>4. CASE ConnectAddDNS(i)
  <2>1. /\ UNCHANGED <<instances, ctxDone, cpc, new, stopPc, ips, addr>>
        /\ pc[i] = "dns" /\ pc' = [pc EXCEPT ![i] = "start"]
        /\ dns' = [dns EXCEPT ![ServiceOf[i]] = addr[i]]
    BY <1>4 DEF ConnectAddDNS, Register
  <2>2. KeepsAddress'
    BY <2>1
  <2>3. ASSUME HomesDiffer PROVE RecordsKeepHome'
    <3>1. addr[i] = Home[ServiceOf[i]] /\ ServiceOf[i] \in Services
      BY <2>1, <2>3, NamesAssumption
    <3>2. \A k \in Services : dns'[k] = IF k = ServiceOf[i] THEN Home[k] ELSE dns[k]
      BY <2>1, <3>1
    <3>3. \A j \in Insts : pc'[j] = IF j = i THEN "start" ELSE pc[j]
      BY <2>1
    <3> QED
      BY <2>1, <2>3, <3>1, <3>2, <3>3, NamesAssumption
  <2>4. \A j \in Insts : j # i => pc'[j] = pc[j]
    BY <2>1
  <2> QED
    BY <2>1, <2>2, <2>3, <2>4 DEF HomesDiffer
<1>5. CASE ConnectStartSession(i)
  BY <1>5 DEF ConnectStartSession
<1>6. CASE ConnectStartFails(i)
  BY <1>6 DEF ConnectStartFails
<1>7. CASE ConnectOpenProxy(i)
  BY <1>7 DEF ConnectOpenProxy
<1>8. CASE ConnectOpenProxyFails(i)
  BY <1>8 DEF ConnectOpenProxyFails
<1>9. CASE ConnectCommit(i)
  BY <1>9 DEF ConnectCommit
<1>10. CASE ConnectRefused(i)
  BY <1>10 DEF ConnectRefused
<1>11. CASE ConnectStopProxy(i)
  BY <1>11 DEF ConnectStopProxy
<1>12. CASE ConnectStopSession(i)
  BY <1>12 DEF ConnectStopSession
<1>13. CASE ConnectSessionStopped(i)
  BY <1>13 DEF ConnectSessionStopped
<1>14. CASE LoopConnectRetry(i)
  BY <1>14 DEF LoopConnectRetry
<1>15. CASE LoopSessionEnded(i)
  BY <1>15 DEF LoopSessionEnded
<1>16. CASE LoopTakeProxy(i)
  BY <1>16 DEF LoopTakeProxy
<1>17. CASE LoopStopProxy(i)
  BY <1>17 DEF LoopStopProxy
<1>18. CASE LoopReconnecting(i)
  BY <1>18 DEF LoopReconnecting
<1>19. CASE LoopCredentialsExpired(i)
  BY <1>19 DEF LoopCredentialsExpired
<1> QED
  BY <1>1, <1>2, <1>3, <1>4, <1>5, <1>6, <1>7, <1>8, <1>9, <1>10, <1>11, <1>12, <1>13,
     <1>14, <1>15, <1>16, <1>17, <1>18, <1>19 DEF LoopStep

\* Steps of Start and of Stop's clean-up, by the only caller at work on the service.
LEMMA CallerKeepsSerial ==
  ASSUME IInv, Serial, RequestsKeepApart, NEW c \in Callers, CallerStep(c)
  PROVE  SerialCore'
<1> USE NilAssumption, NamesAssumption
    DEF IInv, TypeOK, NewIsUnstarted, StopperHasCaller, Serial, Goto
<1>1. CASE UpSkip(c)
  <2>1. ListedUnderItsKey'
    BY <1>1 DEF UpSkip, ListedUnderItsKey
  <2>2. RunningIsListed'
    BY <1>1 DEF UpSkip, RunningIsListed
  <2>3. ListedIsWanted'
    BY <1>1 DEF UpSkip, ListedIsWanted
  <2>4. NewHasItsPlace'
    BY <1>1 DEF UpSkip, NewHasItsPlace
  <2>5. StoppedHasItsPlace'
    BY <1>1 DEF UpSkip, StoppedHasItsPlace
  <2>6. KeepsName'
    BY <1>1 DEF UpSkip, KeepsName, KeepsAddress, RecordsKeepHome
  <2> QED
    BY <2>1, <2>2, <2>3, <2>4, <2>5, <2>6 DEF SerialCore
<1>2. CASE UpCheck(c)
  <2>1. ListedUnderItsKey'
    BY <1>2 DEF UpCheck, FreeInst, Running, ListedUnderItsKey
  <2>2. RunningIsListed'
    BY <1>2 DEF UpCheck, FreeInst, Running, RunningIsListed
  <2>3. ListedIsWanted'
    BY <1>2 DEF UpCheck, FreeInst, Running, ListedIsWanted
  <2>4. NewHasItsPlace'
    BY <1>2 DEF UpCheck, FreeInst, Running, NewHasItsPlace
  <2>5. StoppedHasItsPlace'
    BY <1>2 DEF UpCheck, FreeInst, Running, StoppedHasItsPlace
  <2>6. KeepsName'
    BY <1>2 DEF UpCheck, FreeInst, Running, KeepsName, KeepsAddress, RecordsKeepHome
  <2> QED
    BY <2>1, <2>2, <2>3, <2>4, <2>5, <2>6 DEF SerialCore
<1>3. CASE UpAllocate(c)
  <2>1. ListedUnderItsKey'
    BY <1>3 DEF UpAllocate, ListedUnderItsKey
  <2>2. RunningIsListed'
    BY <1>3 DEF UpAllocate, RunningIsListed
  <2>3. ListedIsWanted'
    BY <1>3 DEF UpAllocate, ListedIsWanted
  <2>4. NewHasItsPlace'
    BY <1>3 DEF UpAllocate, NewHasItsPlace
  <2>5. StoppedHasItsPlace'
    BY <1>3 DEF UpAllocate, StoppedHasItsPlace
  <2>6. KeepsName'
    <3> DEFINE k == ServiceOf[new[c]]
    <3>1. PICK a \in Allocations(k) :
            /\ ips' = [ips EXCEPT ![k] = a]
            /\ cpc' = [cpc EXCEPT ![c] = IF a = NoAddr THEN "up" ELSE "insert"]
            /\ new' = [new EXCEPT ![c] = IF a = NoAddr THEN NoInst ELSE @]
      BY <1>3 DEF UpAllocate
    <3>2. UNCHANGED <<ctxDone, pc, addr, dns>> /\ k \in Services
      BY <1>3 DEF UpAllocate
    <3>3. /\ ips[k] # NoAddr => a = ips[k]
          /\ HomesDiffer => a = Home[k]
      BY <3>2, AllocationsKeep
    <3> HIDE DEF k
    <3>4. \A d \in Callers : cpc'[d] \in {"insert", "spawn"} => ips'[ServiceOf[new'[d]]] # NoAddr
      <4> SUFFICES ASSUME NEW d \in Callers, cpc'[d] \in {"insert", "spawn"}
                   PROVE  ips'[ServiceOf[new'[d]]] # NoAddr
        OBVIOUS
      <4>1. CASE d = c
        BY <3>1, <3>2, <4>1 DEF k
      <4>2. CASE d # c
        BY <3>1, <3>2, <3>3, <4>2 DEF KeepsAddress
      <4> QED
        BY <4>1, <4>2
    <3>5. KeepsAddress'
      BY <3>1, <3>2, <3>3, <3>4 DEF KeepsAddress
    <3>6. ASSUME HomesDiffer PROVE RecordsKeepHome'
      BY <3>1, <3>2, <3>3, <3>6 DEF RecordsKeepHome
    <3> QED
      BY <3>5, <3>6 DEF KeepsName, HomesDiffer
  <2> QED
    BY <2>1, <2>2, <2>3, <2>4, <2>5, <2>6 DEF SerialCore
<1>4. CASE UpInsert(c)
  <2>1. ListedUnderItsKey'
    BY <1>4 DEF UpInsert, ListedUnderItsKey
  <2>2. RunningIsListed'
    BY <1>4 DEF UpInsert, RunningIsListed, NewHasItsPlace
  <2>3. ListedIsWanted'
    BY <1>4 DEF UpInsert, ListedIsWanted, NewHasItsPlace
  <2>4. NewHasItsPlace'
    <3>1. /\ cpc' = [cpc EXCEPT ![c] = "spawn"] /\ UNCHANGED <<new, ctxDone>>
          /\ instances' = [instances EXCEPT ![ServiceOf[new[c]]] = new[c]]
          /\ cpc[c] = "insert"
      BY <1>4 DEF UpInsert
    <3>2. new[c] \in Insts /\ ServiceOf[new[c]] \in Services
      BY <3>1
    <3>3. instances'[ServiceOf[new'[c]]] = new'[c] /\ cpc'[c] = "spawn" /\ ~ctxDone'[new'[c]]
      BY <3>1, <3>2 DEF NewHasItsPlace
    <3>4. ASSUME NEW d \in Callers, d # c, cpc[d] \in {"alloc", "insert", "spawn"}
          PROVE  instances'[ServiceOf[new[d]]] = instances[ServiceOf[new[d]]]
      <4>1. new[d] \in Insts
        BY <3>4
      <4>2. ServiceOf[new[d]] # ServiceOf[new[c]]
        BY <3>2, <3>4, <4>1 DEF RequestsKeepApart, WorksOn
      <4> QED
        BY <3>1, <4>1, <4>2
    <3>5. \A d \in Callers : d # c => cpc'[d] = cpc[d]
      BY <3>1
    <3> QED
      BY <3>1, <3>3, <3>4, <3>5 DEF NewHasItsPlace
  <2>5. StoppedHasItsPlace'
    <3>1. /\ stopPc' = stopPc /\ cpc[c] = "insert"
          /\ instances' = [instances EXCEPT ![ServiceOf[new[c]]] = new[c]]
      BY <1>4 DEF UpInsert
    <3>2. new[c] \in Insts /\ instances[ServiceOf[new[c]]] = NoInst
      BY <3>1 DEF NewHasItsPlace
    <3>3. ASSUME NEW d \in Callers, NEW i \in Insts, stopPc[d][i] # "none"
          PROVE  ServiceOf[i] # ServiceOf[new[c]]
      <4>1. d # c
        BY <3>1, <3>3
      <4> QED
        BY <3>2, <3>3, <4>1 DEF RequestsKeepApart, WorksOn
    <3> QED
      BY <3>1, <3>2, <3>3 DEF StoppedHasItsPlace
  <2>6. KeepsName'
    BY <1>4 DEF UpInsert, KeepsName, KeepsAddress, RecordsKeepHome
  <2> QED
    BY <2>1, <2>2, <2>3, <2>4, <2>5, <2>6 DEF SerialCore
<1>5. CASE UpSpawn(c)
  <2>1. ListedUnderItsKey'
    BY <1>5 DEF UpSpawn, ListedUnderItsKey
  <2>2. RunningIsListed'
    BY <1>5 DEF UpSpawn, RunningIsListed, NewHasItsPlace
  <2>3. ListedIsWanted'
    BY <1>5 DEF UpSpawn, ListedIsWanted
  <2>4. NewHasItsPlace'
    BY <1>5 DEF UpSpawn, NewHasItsPlace
  <2>5. StoppedHasItsPlace'
    BY <1>5 DEF UpSpawn, StoppedHasItsPlace
  <2>6. KeepsName'
    BY <1>5 DEF UpSpawn, KeepsName, KeepsAddress, RecordsKeepHome
  <2> QED
    BY <2>1, <2>2, <2>3, <2>4, <2>5, <2>6 DEF SerialCore
<1>6. CASE UpReply(c)
  <2>1. ListedUnderItsKey'
    BY <1>6 DEF UpReply, ListedUnderItsKey
  <2>2. RunningIsListed'
    BY <1>6 DEF UpReply, RunningIsListed
  <2>3. ListedIsWanted'
    BY <1>6 DEF UpReply, ListedIsWanted
  <2>4. NewHasItsPlace'
    BY <1>6 DEF UpReply, NewHasItsPlace
  <2>5. StoppedHasItsPlace'
    BY <1>6 DEF UpReply, StoppedHasItsPlace
  <2>6. KeepsName'
    BY <1>6 DEF UpReply, KeepsName, KeepsAddress, RecordsKeepHome
  <2> QED
    BY <2>1, <2>2, <2>3, <2>4, <2>5, <2>6 DEF SerialCore
<1>7. CASE DownRemoveDNS(c)
  <2>1. ListedUnderItsKey'
    BY <1>7 DEF DownRemoveDNS, Unregister, Stopping, ListedUnderItsKey
  <2>2. RunningIsListed'
    BY <1>7 DEF DownRemoveDNS, Unregister, Stopping, RunningIsListed
  <2>3. ListedIsWanted'
    <3>1. /\ UNCHANGED <<instances, ctxDone>>
          /\ \A d \in Callers : d # c => stopPc'[d] = stopPc[d]
          /\ \A i \in Insts : stopPc[c][i] \in {"none", "deleted"}
      BY <1>7 DEF DownRemoveDNS, Stopping
    <3> SUFFICES ASSUME NEW k \in Services, instances[k] # NoInst, ctxDone[instances[k]]
                 PROVE  \E d \in Callers : stopPc'[d][instances[k]] # "none"
      BY <3>1 DEF ListedIsWanted
    <3>2. PICK d \in Callers : stopPc[d][instances[k]] # "none"
      BY DEF ListedIsWanted
    <3>3. d # c
      BY <3>1, <3>2 DEF ListedUnderItsKey, StoppedHasItsPlace
    <3> QED
      BY <3>1, <3>2, <3>3
  <2>4. NewHasItsPlace'
    BY <1>7 DEF DownRemoveDNS, Unregister, Stopping, NewHasItsPlace
  <2>5. StoppedHasItsPlace'
    BY <1>7 DEF DownRemoveDNS, Unregister, Stopping, StoppedHasItsPlace
  <2>6. KeepsName'
    <3>1. /\ UNCHANGED <<instances, ctxDone, pc, ips, addr, new>>
          /\ cpc' = [cpc EXCEPT ![c] = "idle"]
          /\ \A j \in Insts : stopPc[c][j] \in {"none", "deleted"}
          /\ dns' = [k \in Services |->
                       IF k \in {ServiceOf[j] : j \in Stopping(c)} THEN NoAddr ELSE dns[k]]
      BY <1>7 DEF DownRemoveDNS, Unregister, Stopping
    <3>2. ASSUME NEW i \in Insts, ~ctxDone[i], pc[i] \notin {"idle", "done"}
          PROVE  dns'[ServiceOf[i]] = dns[ServiceOf[i]]
      BY <3>1, <3>2 DEF RunningIsListed, StoppedHasItsPlace, Stopping
    <3>3. KeepsAddress'
      BY <3>1 DEF KeepsAddress
    <3>4. ASSUME HomesDiffer PROVE RecordsKeepHome'
      BY <3>1, <3>2, <3>4 DEF RecordsKeepHome
    <3> QED
      BY <3>3, <3>4 DEF KeepsName, HomesDiffer
  <2> QED
    BY <2>1, <2>2, <2>3, <2>4, <2>5, <2>6 DEF SerialCore
<1> QED
  BY <1>1, <1>2, <1>3, <1>4, <1>5, <1>6, <1>7 DEF CallerStep

\* Steps of a stopService goroutine, whose caller is the only one at work on the service.
LEMMA StopKeepsSerial ==
  ASSUME IInv, Serial, RequestsKeepApart, NEW c \in Callers, NEW i \in Insts, StopStep(c, i)
  PROVE  SerialCore'
<1> USE NilAssumption, NamesAssumption
    DEF IInv, TypeOK, NewIsUnstarted, StopperHasCaller, StopperCancelled, Serial, StopGoto
<1>1. CASE StopCancel(c, i)
  <2>1. ListedUnderItsKey'
    BY <1>1 DEF StopCancel, ListedUnderItsKey
  <2>2. RunningIsListed'
    BY <1>1 DEF StopCancel, RunningIsListed
  <2>3. ListedIsWanted'
    BY <1>1 DEF StopCancel, ListedIsWanted
  <2>4. NewHasItsPlace'
    BY <1>1 DEF StopCancel, NewHasItsPlace
  <2>5. StoppedHasItsPlace'
    BY <1>1 DEF StopCancel, StoppedHasItsPlace
  <2>6. KeepsName'
    BY <1>1 DEF StopCancel, KeepsName, KeepsAddress, RecordsKeepHome
  <2> QED
    BY <2>1, <2>2, <2>3, <2>4, <2>5, <2>6 DEF SerialCore
<1>2. CASE StopCancelPanics(c, i)
  <2>1. ListedUnderItsKey'
    BY <1>2 DEF StopCancelPanics, ListedUnderItsKey
  <2>2. RunningIsListed'
    BY <1>2 DEF StopCancelPanics, RunningIsListed
  <2>3. ListedIsWanted'
    BY <1>2 DEF StopCancelPanics, ListedIsWanted
  <2>4. NewHasItsPlace'
    BY <1>2 DEF StopCancelPanics, NewHasItsPlace
  <2>5. StoppedHasItsPlace'
    BY <1>2 DEF StopCancelPanics, StoppedHasItsPlace
  <2>6. KeepsName'
    BY <1>2 DEF StopCancelPanics, KeepsName, KeepsAddress, RecordsKeepHome
  <2> QED
    BY <2>1, <2>2, <2>3, <2>4, <2>5, <2>6 DEF SerialCore
<1>3. CASE StopRead(c, i)
  <2>1. ListedUnderItsKey'
    BY <1>3 DEF StopRead, ListedUnderItsKey
  <2>2. RunningIsListed'
    BY <1>3 DEF StopRead, RunningIsListed
  <2>3. ListedIsWanted'
    BY <1>3 DEF StopRead, ListedIsWanted
  <2>4. NewHasItsPlace'
    BY <1>3 DEF StopRead, NewHasItsPlace
  <2>5. StoppedHasItsPlace'
    BY <1>3 DEF StopRead, StoppedHasItsPlace
  <2>6. KeepsName'
    BY <1>3 DEF StopRead, KeepsName, KeepsAddress, RecordsKeepHome
  <2> QED
    BY <2>1, <2>2, <2>3, <2>4, <2>5, <2>6 DEF SerialCore
<1>4. CASE StopMoveToStopping(c, i)
  <2>1. ListedUnderItsKey'
    BY <1>4 DEF StopMoveToStopping, ListedUnderItsKey
  <2>2. RunningIsListed'
    BY <1>4 DEF StopMoveToStopping, RunningIsListed
  <2>3. ListedIsWanted'
    BY <1>4 DEF StopMoveToStopping, ListedIsWanted
  <2>4. NewHasItsPlace'
    BY <1>4 DEF StopMoveToStopping, NewHasItsPlace
  <2>5. StoppedHasItsPlace'
    BY <1>4 DEF StopMoveToStopping, StoppedHasItsPlace
  <2>6. KeepsName'
    BY <1>4 DEF StopMoveToStopping, KeepsName, KeepsAddress, RecordsKeepHome
  <2> QED
    BY <2>1, <2>2, <2>3, <2>4, <2>5, <2>6 DEF SerialCore
<1>5. CASE StopWithoutSession(c, i)
  <2>1. ListedUnderItsKey'
    BY <1>5 DEF StopWithoutSession, ListedUnderItsKey
  <2>2. RunningIsListed'
    BY <1>5 DEF StopWithoutSession, RunningIsListed
  <2>3. ListedIsWanted'
    BY <1>5 DEF StopWithoutSession, ListedIsWanted
  <2>4. NewHasItsPlace'
    BY <1>5 DEF StopWithoutSession, NewHasItsPlace
  <2>5. StoppedHasItsPlace'
    BY <1>5 DEF StopWithoutSession, StoppedHasItsPlace
  <2>6. KeepsName'
    BY <1>5 DEF StopWithoutSession, KeepsName, KeepsAddress, RecordsKeepHome
  <2> QED
    BY <2>1, <2>2, <2>3, <2>4, <2>5, <2>6 DEF SerialCore
<1>6. CASE StopSession(c, i)
  <2>1. ListedUnderItsKey'
    BY <1>6 DEF StopSession, ListedUnderItsKey
  <2>2. RunningIsListed'
    BY <1>6 DEF StopSession, RunningIsListed
  <2>3. ListedIsWanted'
    BY <1>6 DEF StopSession, ListedIsWanted
  <2>4. NewHasItsPlace'
    BY <1>6 DEF StopSession, NewHasItsPlace
  <2>5. StoppedHasItsPlace'
    BY <1>6 DEF StopSession, StoppedHasItsPlace
  <2>6. KeepsName'
    BY <1>6 DEF StopSession, KeepsName, KeepsAddress, RecordsKeepHome
  <2> QED
    BY <2>1, <2>2, <2>3, <2>4, <2>5, <2>6 DEF SerialCore
<1>7. CASE StopSessionStopped(c, i)
  <2>1. ListedUnderItsKey'
    BY <1>7 DEF StopSessionStopped, ListedUnderItsKey
  <2>2. RunningIsListed'
    BY <1>7 DEF StopSessionStopped, RunningIsListed
  <2>3. ListedIsWanted'
    BY <1>7 DEF StopSessionStopped, ListedIsWanted
  <2>4. NewHasItsPlace'
    BY <1>7 DEF StopSessionStopped, NewHasItsPlace
  <2>5. StoppedHasItsPlace'
    BY <1>7 DEF StopSessionStopped, StoppedHasItsPlace
  <2>6. KeepsName'
    BY <1>7 DEF StopSessionStopped, KeepsName, KeepsAddress, RecordsKeepHome
  <2> QED
    BY <2>1, <2>2, <2>3, <2>4, <2>5, <2>6 DEF SerialCore
<1>8. CASE StopTakeProxy(c, i)
  <2>1. ListedUnderItsKey'
    BY <1>8 DEF StopTakeProxy, ListedUnderItsKey
  <2>2. RunningIsListed'
    BY <1>8 DEF StopTakeProxy, RunningIsListed
  <2>3. ListedIsWanted'
    BY <1>8 DEF StopTakeProxy, ListedIsWanted
  <2>4. NewHasItsPlace'
    BY <1>8 DEF StopTakeProxy, NewHasItsPlace
  <2>5. StoppedHasItsPlace'
    BY <1>8 DEF StopTakeProxy, StoppedHasItsPlace
  <2>6. KeepsName'
    BY <1>8 DEF StopTakeProxy, KeepsName, KeepsAddress, RecordsKeepHome
  <2> QED
    BY <2>1, <2>2, <2>3, <2>4, <2>5, <2>6 DEF SerialCore
<1>9. CASE StopProxy(c, i)
  <2>1. ListedUnderItsKey'
    BY <1>9 DEF StopProxy, ListedUnderItsKey
  <2>2. RunningIsListed'
    BY <1>9 DEF StopProxy, RunningIsListed
  <2>3. ListedIsWanted'
    BY <1>9 DEF StopProxy, ListedIsWanted
  <2>4. NewHasItsPlace'
    BY <1>9 DEF StopProxy, NewHasItsPlace
  <2>5. StoppedHasItsPlace'
    BY <1>9 DEF StopProxy, StoppedHasItsPlace
  <2>6. KeepsName'
    BY <1>9 DEF StopProxy, KeepsName, KeepsAddress, RecordsKeepHome
  <2> QED
    BY <2>1, <2>2, <2>3, <2>4, <2>5, <2>6 DEF SerialCore
<1>10. CASE StopMoveToDisconnected(c, i)
  <2>1. ListedUnderItsKey'
    BY <1>10 DEF StopMoveToDisconnected, ListedUnderItsKey
  <2>2. RunningIsListed'
    BY <1>10 DEF StopMoveToDisconnected, RunningIsListed
  <2>3. ListedIsWanted'
    BY <1>10 DEF StopMoveToDisconnected, ListedIsWanted
  <2>4. NewHasItsPlace'
    BY <1>10 DEF StopMoveToDisconnected, NewHasItsPlace
  <2>5. StoppedHasItsPlace'
    BY <1>10 DEF StopMoveToDisconnected, StoppedHasItsPlace
  <2>6. KeepsName'
    BY <1>10 DEF StopMoveToDisconnected, KeepsName, KeepsAddress, RecordsKeepHome
  <2> QED
    BY <2>1, <2>2, <2>3, <2>4, <2>5, <2>6 DEF SerialCore
<1>11. CASE DownRelease(c, i)
  <2>1. ListedUnderItsKey'
    BY <1>11 DEF DownRelease, ListedUnderItsKey
  <2>2. RunningIsListed'
    BY <1>11 DEF DownRelease, RunningIsListed
  <2>3. ListedIsWanted'
    BY <1>11 DEF DownRelease, ListedIsWanted
  <2>4. NewHasItsPlace'
    BY <1>11 DEF DownRelease, NewHasItsPlace
  <2>5. StoppedHasItsPlace'
    BY <1>11 DEF DownRelease, StoppedHasItsPlace
  <2>6. KeepsName'
    <3>1. /\ UNCHANGED <<ctxDone, pc, dns, addr, cpc, new>> /\ ctxDone[i]
          /\ ips' = [ips EXCEPT ![ServiceOf[i]] = NoAddr]
          /\ stopPc[c][i] = "stopped" /\ cpc[c] = "down"
      BY <1>11 DEF DownRelease
    <3>2. instances[ServiceOf[i]] = i
      BY <1>11 DEF DownRelease, StoppedHasItsPlace
    <3>3. ASSUME NEW j \in Insts, ~ctxDone[j], pc[j] \notin {"idle", "done"}
          PROVE  ServiceOf[j] # ServiceOf[i]
      BY <3>1, <3>2, <3>3 DEF RunningIsListed
    <3>4. ASSUME NEW d \in Callers, cpc[d] \in {"insert", "spawn"}
          PROVE  ServiceOf[new[d]] # ServiceOf[i]
      <4>1. new[d] \in Insts /\ d # c
        BY <3>1, <3>4
      <4>2. WorksOn(d, new[d]) /\ WorksOn(c, i)
        BY <3>1 DEF WorksOn
      <4> QED
        BY <4>1, <4>2 DEF RequestsKeepApart
    <3>5. KeepsAddress'
      BY <3>1, <3>3, <3>4 DEF KeepsAddress
    <3>6. ASSUME HomesDiffer PROVE RecordsKeepHome'
      BY <3>1, <3>6 DEF RecordsKeepHome
    <3> QED
      BY <3>5, <3>6 DEF KeepsName, HomesDiffer
  <2> QED
    BY <2>1, <2>2, <2>3, <2>4, <2>5, <2>6 DEF SerialCore
<1>12. CASE DownDelete(c, i)
  <2>1. ListedUnderItsKey'
    BY <1>12 DEF DownDelete, ListedUnderItsKey
  <2>2. RunningIsListed'
    <3>1. /\ UNCHANGED <<ctxDone, pc>> /\ ctxDone[i]
          /\ instances' = [instances EXCEPT ![ServiceOf[i]] = NoInst]
      BY <1>12 DEF DownDelete
    <3>2. instances[ServiceOf[i]] = i
      BY <1>12 DEF DownDelete, StoppedHasItsPlace
    <3> QED
      BY <3>1, <3>2 DEF RunningIsListed
  <2>3. ListedIsWanted'
    BY <1>12 DEF DownDelete, ListedIsWanted
  <2>4. NewHasItsPlace'
    <3>1. /\ UNCHANGED <<ctxDone, cpc, new>> /\ ctxDone[i]
          /\ instances' = [instances EXCEPT ![ServiceOf[i]] = NoInst]
      BY <1>12 DEF DownDelete
    <3>2. instances[ServiceOf[i]] = i
      BY <1>12 DEF DownDelete, StoppedHasItsPlace
    <3>3. ASSUME NEW d \in Callers, cpc[d] = "spawn" PROVE ServiceOf[new[d]] # ServiceOf[i]
      BY <3>1, <3>2, <3>3 DEF NewHasItsPlace
    <3>4. \A d \in Callers : cpc[d] \in {"alloc", "insert", "spawn"} => new[d] \in Insts
      OBVIOUS
    <3>5. \A k \in Services : instances'[k] = (IF k = ServiceOf[i] THEN NoInst ELSE instances[k])
      BY <3>1
    <3> QED
      BY <3>1, <3>3, <3>4, <3>5 DEF NewHasItsPlace
  <2>5. StoppedHasItsPlace'
    <3>1. /\ instances' = [instances EXCEPT ![ServiceOf[i]] = NoInst]
          /\ stopPc' = [stopPc EXCEPT ![c][i] = "deleted"]
          /\ instances[ServiceOf[i]] = i
      BY <1>12 DEF DownDelete, StoppedHasItsPlace
    <3>2. stopPc[c][i] = "released" /\ cpc[c] = "down"
      BY <1>12 DEF DownDelete
    <3>6. i \in Insts /\ c \in Callers /\ i # NoInst
      OBVIOUS
    <3> SUFFICES ASSUME NEW d \in Callers, NEW j \in Insts, stopPc'[d][j] # "none"
                 PROVE  /\ stopPc'[d][j] # "deleted" => instances'[ServiceOf[j]] = j
                        /\ stopPc'[d][j] = "deleted" => instances'[ServiceOf[j]] = NoInst
      BY DEF StoppedHasItsPlace
    <3>3. CASE d = c /\ j = i
      BY <3>1, <3>3
    <3>4. CASE ~(d = c /\ j = i)
      <4>1. stopPc'[d][j] = stopPc[d][j]
        BY <3>1, <3>4
      <4>2. /\ stopPc[d][j] # "deleted" => instances[ServiceOf[j]] = j
            /\ stopPc[d][j] = "deleted" => instances[ServiceOf[j]] = NoInst
        BY <4>1 DEF StoppedHasItsPlace
      <4>3. CASE ServiceOf[j] # ServiceOf[i]
        <5>1. instances'[ServiceOf[j]] = instances[ServiceOf[j]]
          BY <3>1, <4>3
        <5> QED
          BY <4>1, <4>2, <5>1
      <4>4. CASE ServiceOf[j] = ServiceOf[i]
        <5>1. d = c
          BY <3>2, <4>1, <4>4 DEF RequestsKeepApart, WorksOn
        <5>2. stopPc[d][j] = "deleted" \/ j = i
          BY <3>1, <4>2, <4>4
        <5>3. stopPc[d][j] = "deleted" => FALSE
          BY <3>1, <3>6, <4>2, <4>4
        <5> QED
          BY <3>4, <5>1, <5>2, <5>3
      <4> QED
        BY <4>3, <4>4
    <3> QED
      BY <3>3, <3>4
  <2>6. KeepsName'
    BY <1>12 DEF DownDelete, KeepsName, KeepsAddress, RecordsKeepHome
  <2> QED
    BY <2>1, <2>2, <2>3, <2>4, <2>5, <2>6 DEF SerialCore
<1> QED
  BY <1>1, <1>2, <1>3, <1>4, <1>5, <1>6, <1>7, <1>8, <1>9, <1>10, <1>11, <1>12 DEF
     StopStep

\* The arrival of a request.
LEMMA RequestKeepsSerial ==
  ASSUME IInv, Serial, NEW c \in Callers,
         NEW targets \in SUBSET Services, UpRequest(c, targets) \/ DownRequest(c, targets)
  PROVE  SerialCore'
<1> USE NilAssumption, NamesAssumption DEF IInv, TypeOK, StopperHasCaller, Serial
<1>1. UNCHANGED <<instances, ctxDone, pc, nameVars, new>>
  BY DEF UpRequest, DownRequest
<1>2. /\ cpc[c] = "idle" /\ cpc'[c] \in {"up", "down"}
      /\ \A d \in Callers : d # c => cpc'[d] = cpc[d]
  BY DEF UpRequest, DownRequest
<1>3. \A d \in Callers : d # c => stopPc'[d] = stopPc[d]
  BY DEF UpRequest, DownRequest
<1>4. \A i \in Insts : /\ stopPc[c][i] = "none"
                       /\ stopPc'[c][i] \in {"none", "cancel"}
                       /\ stopPc'[c][i] = "cancel" => instances[ServiceOf[i]] = i
  <2>1. \A i \in Insts : stopPc[c][i] = "none"
    BY <1>2
  <2>2. CASE UpRequest(c, targets)
    BY <2>1, <2>2 DEF UpRequest
  <2>3. CASE DownRequest(c, targets)
    <3>1. stopPc'[c] = [i \in Insts |->
            IF ServiceOf[i] \in targets /\ instances[ServiceOf[i]] = i
            THEN "cancel" ELSE "none"]
      BY <2>3 DEF DownRequest
    <3> QED
      BY <2>1, <3>1
  <2> QED
    BY <2>2, <2>3
<1>5. ListedUnderItsKey' /\ RunningIsListed' /\ KeepsName'
  BY <1>1, <1>2 DEF ListedUnderItsKey, RunningIsListed, KeepsName, KeepsAddress, RecordsKeepHome
<1>6. \A d \in Callers, i \in Insts : stopPc[d][i] # "none" => stopPc'[d][i] = stopPc[d][i]
  BY <1>3, <1>4
<1>7. ListedIsWanted'
  <2> SUFFICES ASSUME NEW k \in Services, instances[k] # NoInst, ctxDone[instances[k]]
               PROVE  \E d \in Callers : stopPc'[d][instances[k]] # "none"
    BY <1>1 DEF ListedIsWanted
  <2>1. PICK d \in Callers : stopPc[d][instances[k]] # "none"
    BY DEF ListedIsWanted
  <2>2. instances[k] \in Insts
    OBVIOUS
  <2> QED
    BY <1>6, <2>1, <2>2, Zenon
<1>8. NewHasItsPlace'
  BY <1>1, <1>2 DEF NewHasItsPlace
<1>9. StoppedHasItsPlace'
  <2> SUFFICES ASSUME NEW d \in Callers, NEW i \in Insts
               PROVE  /\ stopPc'[d][i] \notin {"none", "deleted"} => instances[ServiceOf[i]] = i
                      /\ stopPc'[d][i] = "deleted" => instances[ServiceOf[i]] = NoInst
    BY <1>1 DEF StoppedHasItsPlace
  <2>1. CASE d = c
    BY <1>4, <2>1
  <2>2. CASE d # c
    <3>1. stopPc'[d][i] = stopPc[d][i]
      BY <1>3, <2>2
    <3> QED
      BY <3>1 DEF StoppedHasItsPlace
  <2> QED
    BY <2>1, <2>2
<1> QED
  BY <1>5, <1>7, <1>8, <1>9 DEF SerialCore

\* Network events, drops and session processes touch none of it.
LEMMA OtherKeepsSerial ==
  ASSUME Serial, UNCHANGED <<instances, ctxDone, cpc, new, stopPc, pc, nameVars>>
  PROVE  SerialCore'
BY PlacesKept DEF Serial, SerialCore, RunningIsListed, KeepsName, KeepsAddress, RecordsKeepHome

\* The initial state has no loops, no entries and no requests.
LEMMA InitSerial == Init => Serial
<1> SUFFICES ASSUME Init PROVE SerialCore
  BY InitEstablishes, PortsCounted
<1> QED
  BY NilAssumption, NamesAssumption, AddressAssumption
     DEF Init, SerialCore, ListedUnderItsKey, RunningIsListed, ListedIsWanted, NewHasItsPlace,
         StoppedHasItsPlace, KeepsName, KeepsAddress, RecordsKeepHome

\* Every step from a state in which requests keep apart preserves the invariant.
LEMMA NextKeepsSerial ==
  IInv /\ Serial /\ RequestsKeepApart /\ [Next]_vars => Serial'
<1>0. IInv' /\ SerialCore' => Serial'
  BY PortsCounted, PTL
<1> SUFFICES ASSUME IInv, Serial, RequestsKeepApart, [Next]_vars
             PROVE  SerialCore'
  BY <1>0, NextPreserves
<1>1. CASE UNCHANGED vars
  BY <1>1, OtherKeepsSerial DEF vars
<1>2. CASE NetChange \/ DropStep
  BY <1>2, OtherKeepsSerial DEF NetChange, DropStep, DropBegin, DropEnd, DropRead, DropSignal,
     DropReaped
<1>3. ASSUME NEW s \in Sessions, SessionStep(s) \/ SessionDies(s) PROVE SerialCore'
  BY <1>3, OtherKeepsSerial DEF SessionStep, SessionDies, SessionKilled, SessionCancelled,
     SessionGone
<1> QED
  BY <1>1, <1>2, <1>3, LoopKeepsSerial, CallerKeepsSerial, StopKeepsSerial,
     RequestKeepsSerial DEF Next

\* No request is at work at first.
LEMMA InitApart == Init => RequestsKeepApart
BY NilAssumption DEF Init, RequestsKeepApart, WorksOn

\* The engine of ApartSpec is that of Spec.
LEMMA ApartIsEngine == ApartSpec => Spec
<1>1. ApartInit => Init
  BY DEF ApartInit
<1>2. [ApartNext]_requestsVars => [Next]_vars
  BY DEF ApartNext, requestsVars
<1> QED
  BY <1>1, <1>2, PTL DEF ApartSpec, Spec

\* As long as no two requests have worked on the same service, the invariant holds.
THEOREM SerialInvariance == ApartSpec => []SerialIfApart
<1>1. ApartInit => SerialIfApart
  BY InitSerial, InitApart DEF ApartInit, SerialIfApart
<1>2. IInv /\ SerialIfApart /\ [ApartNext]_requestsVars => SerialIfApart'
  <2> SUFFICES ASSUME IInv, SerialIfApart, [ApartNext]_requestsVars, apart'
               PROVE  RequestsKeepApart' /\ Serial'
    BY DEF SerialIfApart
  <2>1. [Next]_vars /\ apart
    BY DEF ApartNext, requestsVars
  <2>2. Serial'
    BY <2>1, NextKeepsSerial DEF SerialIfApart
  <2>3. RequestsKeepApart'
    <3>1. CASE ApartNext
      BY <3>1 DEF ApartNext
    <3>2. CASE UNCHANGED requestsVars
      BY <2>1, <3>2 DEF requestsVars, vars, SerialIfApart, RequestsKeepApart, WorksOn
    <3> QED
      BY <3>1, <3>2
  <2> QED
    BY <2>2, <2>3
<1> QED
  BY <1>1, <1>2, ApartIsEngine, Invariance, PTL DEF ApartSpec

\* Every loop that nobody stopped is the listed one: status shows it and down reaches it.
THEOREM LoopsAreListed == ApartSpec => [](apart => RunningIsListed)
<1>1. SerialIfApart => (apart => RunningIsListed)
  BY DEF SerialIfApart, Serial
<1> QED
  BY <1>1, SerialInvariance, PTL

\* A Connected service keeps the address it listens on, and its hostname leads there when no two
\* keys hash to the same address, whatever the loops of earlier instances still do.
THEOREM ConnectedResolves == ApartSpec => []ReachableIfApart
<1>1. IInv /\ Serial => ConnectedIsReachable
  <2> SUFFICES ASSUME IInv, Serial, NEW i \in Insts, st[i] = "Connected", ~ctxDone[i]
               PROVE  /\ addr[i] # NoAddr /\ ips[ServiceOf[i]] = addr[i]
                      /\ HomesDiffer => dns[ServiceOf[i]] = addr[i]
    BY NilAssumption DEF ConnectedIsReachable, Running, IInv, TypeOK
  <2>1. pc[i] \in {"wait", "take", "stopproxy", "rec"}
    BY DEF IInv, TypeOK, StateFollowsLoop, LoopLabels
  <2>2. addr[i] # NoAddr /\ ips[ServiceOf[i]] = addr[i]
    BY <2>1 DEF Serial, KeepsAddress
  <2>3. ASSUME HomesDiffer PROVE dns[ServiceOf[i]] = addr[i]
    BY <2>1, <2>2, <2>3, NamesAssumption DEF Serial, RecordsKeepHome
  <2> QED
    BY <2>2, <2>3
<1>2. IInv /\ SerialIfApart => ReachableIfApart
  BY <1>1 DEF SerialIfApart, ReachableIfApart
<1> QED
  BY <1>2, SerialInvariance, ApartIsEngine, Invariance, PTL

\* What is still listed after a down is up, or is being taken down.
THEOREM NoGhostStaysListed == ApartSpec => [](apart => ListedIsWanted)
<1>1. SerialIfApart => (apart => ListedIsWanted)
  BY DEF SerialIfApart, Serial
<1> QED
  BY <1>1, SerialInvariance, PTL

-----------------------------------------------------------------------------
(* The engine implements Tunnels. *)

\* Instance i is what a stop has left behind.
IsLeft(i) == instances[ServiceOf[i]] # i /\ ctxDone[i] /\ pc[i] \notin {"idle", "done"}

\* A service's leftovers are those of its instances.
LEMMA LeftoversOf == \A k \in Services : Leftovers(k) = {i \in Insts : ServiceOf[i] = k /\ IsLeft(i)}
BY DEF Leftovers, IsLeft

\* The leftovers of a service linger when none joins them and none ends with a port.
LEMMA OldLingers ==
  ASSUME NEW k \in Services,
         \A i \in Insts : ServiceOf[i] = k =>
           /\ IsLeft(i)' => IsLeft(i)
           /\ IsLeft(i) /\ proxyAt[i] # "none" => IsLeft(i)'
  PROVE  \/ Old(k)' = Old(k)
         \/ Old(k) = "loop" /\ Old(k)' \in Tunnel!Remains
         \/ Old(k) = "port" /\ Old(k)' = "loop"
<1>1. Leftovers(k) = {i \in Insts : ServiceOf[i] = k /\ IsLeft(i)}
  BY LeftoversOf
<1>2. Leftovers(k)' = {i \in Insts : ServiceOf[i] = k /\ IsLeft(i)'}
  BY DEF Leftovers, IsLeft
<1>3. Old(k)' \in {"none", "loop", "port"}
  BY DEF Old
<1>4. CASE Old(k) = "none"
  <2>1. Leftovers(k) = {}
    BY <1>4 DEF Old
  <2>2. Leftovers(k)' = {}
    BY <1>1, <1>2, <2>1
  <2> QED
    BY <1>4, <2>2 DEF Old
<1>5. CASE Old(k) = "port"
  <2>1. PICK i \in Leftovers(k) : proxyAt[i] # "none"
    BY <1>5 DEF Old
  <2>2. i \in Leftovers(k)'
    BY <1>1, <1>2, <2>1
  <2> QED
    BY <1>5, <2>2 DEF Old
<1>6. CASE Old(k) = "loop"
  BY <1>3, <1>6 DEF Tunnel!Remains
<1> QED
  BY <1>4, <1>5, <1>6 DEF Old

\* What is left of a service stays what it is when its leftovers do.
LEMMA OldStays ==
  ASSUME NEW k \in Services,
         \A i \in Insts : ServiceOf[i] = k =>
           /\ IsLeft(i)' <=> IsLeft(i)
           /\ IsLeft(i) => (proxyAt'[i] = "none" <=> proxyAt[i] = "none")
  PROVE  Old(k)' = Old(k)
<1>1. Leftovers(k) = {i \in Insts : ServiceOf[i] = k /\ IsLeft(i)}
  BY LeftoversOf
<1>2. Leftovers(k)' = {i \in Insts : ServiceOf[i] = k /\ IsLeft(i)'}
  BY DEF Leftovers, IsLeft
<1>3. Leftovers(k)' = Leftovers(k)
  BY <1>1, <1>2
<1>4. \A i \in Leftovers(k) : proxyAt'[i] = "none" <=> proxyAt[i] = "none"
  BY <1>1
<1>5. (\E i \in Leftovers(k) : proxyAt[i] # "none") <=> (\E i \in Leftovers(k) : proxyAt'[i] # "none")
  BY <1>4
<1> QED
  BY <1>3, <1>5 DEF Old

\* What a step must leave alone not to be seen.
LEMMA Unseen ==
  ASSUME UNCHANGED <<instances, st, ctxDone, proxyAt>>,
         \A i \in Insts : ctxDone[i] => pc'[i] = pc[i]
  PROVE  UNCHANGED Tunnel!tunnelVars
<1>1. WishNow' = WishNow /\ ShownNow' = ShownNow /\ DoorNow' = DoorNow
  BY DEF WishNow, Wish, ShownNow, Shown, DoorNow, Door, DoorOf
<1>2. \A k \in Services : Old(k)' = Old(k)
  BY OldStays DEF IsLeft
<1>3. OldNow' = OldNow
  BY <1>2 DEF OldNow
<1> QED
  BY <1>1, <1>3 DEF Tunnel!tunnelVars

\* A step of an instance that is not listed is at most one of its service's leftovers.
LEMMA LeftoverLingers ==
  ASSUME TypeOK, ListedUnderItsKey, NEW i \in Insts, instances' = instances,
         instances[ServiceOf[i]] # i,
         IsLeft(i)' => IsLeft(i), IsLeft(i) /\ proxyAt[i] # "none" => IsLeft(i)',
         \A j \in Insts : j # i => /\ st'[j] = st[j] /\ ctxDone'[j] = ctxDone[j]
                                   /\ pc'[j] = pc[j] /\ proxyAt'[j] = proxyAt[j]
  PROVE  [Tunnel!Next]_(Tunnel!tunnelVars)
<1> DEFINE k == ServiceOf[i]
<1>0. k \in Services
  BY NamesAssumption
<1>1. \A h \in Services : instances[h] # NoInst => instances[h] \in Insts \ {i}
  BY DEF TypeOK, ListedUnderItsKey
<1>2. WishNow' = WishNow /\ ShownNow' = ShownNow /\ DoorNow' = DoorNow
  <2>1. \A h \in Services : Wish(h)' = Wish(h) /\ Shown(h)' = Shown(h) /\ Door(h)' = Door(h)
    BY <1>1 DEF Wish, Shown, Door, DoorOf
  <2> QED
    BY <2>1 DEF WishNow, ShownNow, DoorNow
<1>3. \A j \in Insts : j # i => IsLeft(j)' = IsLeft(j)
  BY DEF IsLeft
<1>4. \A h \in Services : h # k => Old(h)' = Old(h)
  <2>1. ASSUME NEW h \in Services, h # k PROVE \A j \in Insts : ServiceOf[j] = h => j # i
    BY <2>1
  <2> QED
    BY <1>3, <2>1, OldStays
<1>5. \/ Old(k)' = Old(k)
      \/ Old(k) = "loop" /\ Old(k)' \in Tunnel!Remains
      \/ Old(k) = "port" /\ Old(k)' = "loop"
  <2>1. \A j \in Insts : ServiceOf[j] = k =>
          /\ IsLeft(j)' => IsLeft(j)
          /\ IsLeft(j) /\ proxyAt[j] # "none" => IsLeft(j)'
    BY <1>3
  <2> QED
    BY <1>0, <2>1, OldLingers
<1>6. OldNow' = [OldNow EXCEPT ![k] = Old(k)'] /\ OldNow[k] = Old(k)
  BY <1>0, <1>4 DEF OldNow
<1> HIDE DEF k
<1>7. CASE Old(k)' = Old(k)
  <2>1. OldNow' = OldNow
    BY <1>4, <1>7 DEF OldNow
  <2> QED
    BY <1>2, <2>1 DEF Tunnel!tunnelVars
<1>8. CASE Old(k) = "loop" /\ Old(k)' \in Tunnel!Remains
  <2>1. Tunnel!Linger(k)
    BY <1>2, <1>6, <1>8 DEF Tunnel!Linger
  <2> QED
    BY <1>0, <2>1 DEF Tunnel!Next
<1>9. CASE Old(k) = "port" /\ Old(k)' = "loop"
  <2>1. Tunnel!Linger(k)
    BY <1>2, <1>6, <1>9 DEF Tunnel!Linger
  <2> QED
    BY <1>0, <2>1 DEF Tunnel!Next
<1> QED
  BY <1>5, <1>7, <1>8, <1>9

\* A step of a listed instance shows in the tunnel of its service and in no other.
LEMMA ListedShows ==
  ASSUME TypeOK, ListedUnderItsKey, NEW i \in Insts, NEW k \in Services, k = ServiceOf[i],
         instances' = instances, instances[k] = i,
         \A j \in Insts : j # i => /\ st'[j] = st[j] /\ ctxDone'[j] = ctxDone[j]
                                   /\ pc'[j] = pc[j] /\ proxyAt'[j] = proxyAt[j]
  PROVE  /\ WishNow[k] = (IF ctxDone[i] THEN "down" ELSE "up")
         /\ ShownNow[k] = st[i]
         /\ DoorNow[k] = DoorOf(i)
         /\ WishNow' = [WishNow EXCEPT ![k] = IF ctxDone'[i] THEN "down" ELSE "up"]
         /\ ShownNow' = [ShownNow EXCEPT ![k] = st'[i]]
         /\ DoorNow' = [DoorNow EXCEPT ![k] = DoorOf(i)']
         /\ ctxDone'[i] = ctxDone[i] => WishNow' = WishNow
         /\ st'[i] = st[i] => ShownNow' = ShownNow
         /\ DoorOf(i)' = DoorOf(i) => DoorNow' = DoorNow
         /\ OldNow' = OldNow
<1>1. i # NoInst
  BY NilAssumption
<1>2. \A h \in Services : h # k /\ instances[h] # NoInst => instances[h] \in Insts \ {i}
  BY DEF TypeOK, ListedUnderItsKey
<1>3. /\ WishNow[k] = (IF ctxDone[i] THEN "down" ELSE "up")
      /\ WishNow' = [WishNow EXCEPT ![k] = IF ctxDone'[i] THEN "down" ELSE "up"]
      /\ ctxDone'[i] = ctxDone[i] => WishNow' = WishNow
  BY <1>1, <1>2 DEF WishNow, Wish
<1>4. /\ ShownNow[k] = st[i]
      /\ ShownNow' = [ShownNow EXCEPT ![k] = st'[i]]
      /\ st'[i] = st[i] => ShownNow' = ShownNow
  BY <1>1, <1>2 DEF ShownNow, Shown
<1>5. \A h \in Services : Door(h)' = IF h = k THEN DoorOf(i)' ELSE Door(h)
  BY <1>1, <1>2 DEF Door, DoorOf
<1>6. Door(k) = DoorOf(i)
  BY <1>1 DEF Door
<1>7. /\ DoorNow[k] = DoorOf(i)
      /\ DoorNow' = [DoorNow EXCEPT ![k] = DoorOf(i)']
      /\ DoorOf(i)' = DoorOf(i) => DoorNow' = DoorNow
  BY <1>5, <1>6 DEF DoorNow
<1>8. OldNow' = OldNow
  <2>1. \A j \in Insts : IsLeft(j)' = IsLeft(j) /\ (IsLeft(j) => proxyAt'[j] = proxyAt[j])
    BY DEF IsLeft
  <2>2. \A h \in Services : Old(h)' = Old(h)
    BY <2>1, OldStays
  <2> QED
    BY <2>2 DEF OldNow
<1> QED
  BY <1>3, <1>4, <1>7, <1>8

\* What a listed instance may still do after it was cancelled: move, but not to Connected, open
\* a listener that nobody publishes, and withdraw or close the one it has.
Winds(i) ==
  \/ /\ st'[i] = st[i]
     /\ \/ proxyAt'[i] = proxyAt[i]
        \/ proxyAt[i] = "none" /\ proxyAt'[i] \notin {"none", "field"}
        \/ proxyAt[i] = "field" /\ proxyAt'[i] \notin {"none", "field"}
        \/ proxyAt[i] \notin {"none", "field"} /\ proxyAt'[i] = "none"
  \/ /\ st'[i] \in ServiceStates \ {"Connected"} /\ CanMove(st[i], st'[i])
     /\ proxyAt'[i] = proxyAt[i]

\* All of it is what the tunnel of a service that is taken down may do.
LEMMA CancelledWinds ==
  ASSUME TypeOK, ListedUnderItsKey, NEW i \in Insts, instances' = instances,
         instances[ServiceOf[i]] = i, ctxDone' = ctxDone, ctxDone[i], Winds(i),
         \A j \in Insts : j # i => /\ st'[j] = st[j] /\ pc'[j] = pc[j]
                                   /\ proxyAt'[j] = proxyAt[j]
  PROVE  [Tunnel!Next]_(Tunnel!tunnelVars)
<1> DEFINE k == ServiceOf[i]
<1>1. k \in Services
  BY NamesAssumption
<1>2. /\ WishNow[k] = "down" /\ ShownNow[k] = st[i] /\ DoorNow[k] = DoorOf(i)
      /\ WishNow' = WishNow /\ OldNow' = OldNow
      /\ ShownNow' = [ShownNow EXCEPT ![k] = st'[i]]
      /\ DoorNow' = [DoorNow EXCEPT ![k] = DoorOf(i)']
      /\ st'[i] = st[i] => ShownNow' = ShownNow
      /\ DoorOf(i)' = DoorOf(i) => DoorNow' = DoorNow
  BY <1>1, ListedShows
<1> HIDE DEF k
<1>3. CASE st'[i] = st[i] /\ proxyAt'[i] = proxyAt[i]
  BY <1>2, <1>3 DEF Tunnel!tunnelVars, DoorOf
<1>4. CASE st'[i] = st[i] /\ proxyAt[i] = "none" /\ proxyAt'[i] \notin {"none", "field"}
  <2>1. DoorOf(i) = "closed" /\ DoorOf(i)' = "ajar"
    BY <1>4 DEF DoorOf
  <2>2. Tunnel!Listen(k)
    BY <1>2, <1>4, <2>1 DEF Tunnel!Listen, Tunnel!Move
  <2> QED
    BY <1>1, <2>2 DEF Tunnel!Next
<1>5. CASE st'[i] = st[i] /\ proxyAt[i] = "field" /\ proxyAt'[i] \notin {"none", "field"}
  <2>1. DoorOf(i) = "open" /\ DoorOf(i)' = "ajar"
    BY <1>5 DEF DoorOf
  <2>2. Tunnel!Unpublish(k)
    BY <1>2, <1>5, <2>1 DEF Tunnel!Unpublish, Tunnel!Move
  <2> QED
    BY <1>1, <2>2 DEF Tunnel!Next
<1>6. CASE st'[i] = st[i] /\ proxyAt[i] \notin {"none", "field"} /\ proxyAt'[i] = "none"
  <2>1. DoorOf(i) = "ajar" /\ DoorOf(i)' = "closed"
    BY <1>6 DEF DoorOf
  <2>2. Tunnel!Shut(k)
    BY <1>2, <1>6, <2>1 DEF Tunnel!Shut, Tunnel!Move
  <2> QED
    BY <1>1, <2>2 DEF Tunnel!Next
<1>7. CASE /\ st'[i] \in ServiceStates \ {"Connected"} /\ CanMove(st[i], st'[i])
           /\ proxyAt'[i] = proxyAt[i]
  <2>1. DoorNow' = DoorNow
    BY <1>2, <1>7 DEF DoorOf
  <2>2. Tunnel!Wind(k)
    BY <1>2, <1>7, <2>1 DEF Tunnel!Wind, Tunnel!Show, Tunnel!ServiceStates, Tunnel!CanMove,
       Tunnel!AllowedTransitions, Tunnel!MovesFrom, ServiceStates, CanMove,
       AllowedTransitions, MovesFrom
  <2> QED
    BY <1>1, <2>2 DEF Tunnel!Next
<1> QED
  BY <1>3, <1>4, <1>5, <1>6, <1>7 DEF Winds

\* What a step of the loop of instance i may change of what is seen.
LEMMA LoopFrame ==
  ASSUME TypeOK, NEW i \in Insts, LoopStep(i)
  PROVE  /\ UNCHANGED <<instances, ctxDone>>
         /\ pc[i] \notin {"idle", "done"}
         /\ \A j \in Insts : j # i => st'[j] = st[j] /\ pc'[j] = pc[j] /\ proxyAt'[j] = proxyAt[j]
<1> USE DEF TypeOK, MoveOrExit, Goto, ConnectError
<1>1. CASE LoopNextRound(i)
  BY <1>1 DEF LoopNextRound
<1>2. CASE LoopBegin(i)
  BY <1>2 DEF LoopBegin
<1>3. CASE ConnectAllocate(i)
  BY <1>3 DEF ConnectAllocate
<1>4. CASE ConnectAddDNS(i)
  BY <1>4 DEF ConnectAddDNS
<1>5. CASE ConnectStartSession(i)
  BY <1>5 DEF ConnectStartSession
<1>6. CASE ConnectStartFails(i)
  BY <1>6 DEF ConnectStartFails
<1>7. CASE ConnectOpenProxy(i)
  BY <1>7 DEF ConnectOpenProxy
<1>8. CASE ConnectOpenProxyFails(i)
  BY <1>8 DEF ConnectOpenProxyFails
<1>9. CASE ConnectCommit(i)
  BY <1>9 DEF ConnectCommit
<1>10. CASE ConnectRefused(i)
  BY <1>10 DEF ConnectRefused
<1>11. CASE ConnectStopProxy(i)
  BY <1>11 DEF ConnectStopProxy
<1>12. CASE ConnectStopSession(i)
  BY <1>12 DEF ConnectStopSession
<1>13. CASE ConnectSessionStopped(i)
  BY <1>13 DEF ConnectSessionStopped
<1>14. CASE LoopConnectRetry(i)
  BY <1>14 DEF LoopConnectRetry
<1>15. CASE LoopSessionEnded(i)
  BY <1>15 DEF LoopSessionEnded
<1>16. CASE LoopTakeProxy(i)
  BY <1>16 DEF LoopTakeProxy
<1>17. CASE LoopStopProxy(i)
  BY <1>17 DEF LoopStopProxy
<1>18. CASE LoopReconnecting(i)
  BY <1>18 DEF LoopReconnecting
<1>19. CASE LoopCredentialsExpired(i)
  BY <1>19 DEF LoopCredentialsExpired
<1> QED
  BY <1>1, <1>2, <1>3, <1>4, <1>5, <1>6, <1>7, <1>8, <1>9, <1>10, <1>11, <1>12, <1>13,
     <1>14, <1>15, <1>16, <1>17, <1>18, <1>19 DEF LoopStep

\* The loop of an instance that is being stopped: every move it may still ask for is one that
\* the table allows and none is to Connected.
LEMMA CancelledLoopWinds ==
  ASSUME TypeOK, ProxyHasHolder, NEW i \in Insts, ctxDone[i], LoopStep(i)
  PROVE  Winds(i)
<1> USE DEF TypeOK, MoveOrExit, ServiceStates, Winds, ProxyHasHolder
<1>1. CASE LoopNextRound(i)
  BY <1>1 DEF LoopNextRound
<1>2. CASE LoopBegin(i)
  BY <1>2 DEF LoopBegin
<1>3. CASE ConnectAllocate(i)
  BY <1>3 DEF ConnectAllocate
<1>4. CASE ConnectAddDNS(i)
  BY <1>4 DEF ConnectAddDNS
<1>5. CASE ConnectStartSession(i)
  BY <1>5 DEF ConnectStartSession
<1>6. CASE ConnectStartFails(i)
  BY <1>6 DEF ConnectStartFails
<1>7. CASE ConnectOpenProxy(i)
  BY <1>7 DEF ConnectOpenProxy
<1>8. CASE ConnectOpenProxyFails(i)
  BY <1>8 DEF ConnectOpenProxyFails
<1>9. CASE ConnectCommit(i)
  BY <1>9 DEF ConnectCommit
<1>10. CASE ConnectRefused(i)
  BY <1>10 DEF ConnectRefused
<1>11. CASE ConnectStopProxy(i)
  BY <1>11 DEF ConnectStopProxy
<1>12. CASE ConnectStopSession(i)
  BY <1>12 DEF ConnectStopSession
<1>13. CASE ConnectSessionStopped(i)
  BY <1>13 DEF ConnectSessionStopped
<1>14. CASE LoopConnectRetry(i)
  BY <1>14 DEF LoopConnectRetry
<1>15. CASE LoopSessionEnded(i)
  BY <1>15 DEF LoopSessionEnded
<1>16. CASE LoopTakeProxy(i)
  BY <1>16 DEF LoopTakeProxy
<1>17. CASE LoopStopProxy(i)
  BY <1>17 DEF LoopStopProxy
<1>18. CASE LoopReconnecting(i)
  BY <1>18 DEF LoopReconnecting
<1>19. CASE LoopCredentialsExpired(i)
  BY <1>19 DEF LoopCredentialsExpired
<1> QED
  BY <1>1, <1>2, <1>3, <1>4, <1>5, <1>6, <1>7, <1>8, <1>9, <1>10, <1>11, <1>12, <1>13,
     <1>14, <1>15, <1>16, <1>17, <1>18, <1>19 DEF LoopStep

\* The listener of a loop that nobody stopped is open only where the loop works with it.
LEMMA RunningPort ==
  ASSUME IInv, NEW i \in Insts, ~ctxDone[i]
  PROVE  /\ pc[i] \notin {"commit", "abortproxy", "wait", "take", "stopproxy"}
              => proxyAt[i] = "none"
         /\ proxyAt[i] \in ProxyPlaces
<1>1. \A c \in Callers : proxyAt[i] # c
  BY DEF IInv, StopperCancelled, ProxyHasHolder
<1> QED
  BY <1>1 DEF IInv, TypeOK, ProxyPlaces, ProxyHasHolder

\* The loop of an instance that nobody stopped: state and port change as the tunnel's do.
LEMMA RunningLoopTunnels ==
  ASSUME IInv, Serial, NEW i \in Insts, ~ctxDone[i], LoopStep(i)
  PROVE  [Tunnel!Next]_(Tunnel!tunnelVars)
<1> DEFINE k == ServiceOf[i]
<1>0. k \in Services /\ TypeOK /\ ListedUnderItsKey
  BY NamesAssumption DEF IInv, Serial
<1>1. /\ UNCHANGED <<instances, ctxDone>> /\ instances[k] = i
      /\ \A j \in Insts : j # i => st'[j] = st[j] /\ pc'[j] = pc[j] /\ proxyAt'[j] = proxyAt[j]
  BY <1>0, LoopFrame DEF Serial, RunningIsListed
<1>2. /\ WishNow[k] = "up" /\ ShownNow[k] = st[i] /\ DoorNow[k] = DoorOf(i)
      /\ WishNow' = WishNow /\ OldNow' = OldNow
      /\ ShownNow' = [ShownNow EXCEPT ![k] = st'[i]]
      /\ DoorNow' = [DoorNow EXCEPT ![k] = DoorOf(i)']
      /\ st'[i] = st[i] => ShownNow' = ShownNow
      /\ DoorOf(i)' = DoorOf(i) => DoorNow' = DoorNow
  BY <1>0, <1>1, ListedShows
<1> HIDE DEF k
<1>3. ASSUME st'[i] = st[i], proxyAt'[i] = proxyAt[i] PROVE UNCHANGED Tunnel!tunnelVars
  BY <1>2, <1>3 DEF Tunnel!tunnelVars, DoorOf
<1>4. ASSUME NEW s, st'[i] = s, proxyAt'[i] = proxyAt[i]
      PROVE  ShownNow' = [ShownNow EXCEPT ![k] = s] /\ DoorNow' = DoorNow
  BY <1>2, <1>4 DEF DoorOf
<1>5. ASSUME st'[i] = st[i], proxyAt[i] # "none", proxyAt[i] # "field", proxyAt'[i] = "none"
      PROVE  Tunnel!Next
  <2>1. DoorOf(i) = "ajar" /\ DoorOf(i)' = "closed"
    BY <1>5 DEF DoorOf
  <2>2. Tunnel!Shut(k)
    BY <1>2, <1>5, <2>1 DEF Tunnel!Shut, Tunnel!Move
  <2> QED
    BY <1>0, <2>2 DEF Tunnel!Next
<1> USE DEF IInv, TypeOK, StateFollowsLoop, ProxyHasHolder, MoveOrExit
<1>6. CASE LoopBegin(i)
  <2>1. st[i] \in {"Disconnected", "Reconnecting"} /\ proxyAt[i] = "none"
    BY <1>6, RunningPort DEF LoopBegin
  <2>2. st'[i] = "Starting" /\ proxyAt' = proxyAt /\ DoorOf(i) = "closed"
    BY <1>6, <2>1, LoopMoves DEF LoopBegin, DoorOf
  <2>3. ShownNow' = [ShownNow EXCEPT ![k] = "Starting"] /\ DoorNow' = DoorNow
    BY <1>4, <2>2
  <2>4. Tunnel!Begin(k)
    BY <1>2, <2>1, <2>2, <2>3 DEF Tunnel!Begin, Tunnel!Show
  <2> QED
    BY <1>0, <2>4 DEF Tunnel!Next
<1>7. CASE ConnectOpenProxy(i)
  <2>1. st[i] = "Starting" /\ st' = st /\ proxyAt[i] = "none" /\ proxyAt'[i] = "connect"
    BY <1>7, RunningPort DEF ConnectOpenProxy
  <2>2. DoorOf(i) = "closed" /\ DoorOf(i)' = "ajar"
    BY <2>1 DEF DoorOf
  <2>3. Tunnel!Listen(k)
    BY <1>2, <2>1, <2>2 DEF Tunnel!Listen, Tunnel!Move
  <2> QED
    BY <1>0, <2>3 DEF Tunnel!Next
<1>8. CASE ConnectCommit(i)
  <2>1. /\ st[i] = "Starting" /\ st'[i] = "Connected"
        /\ proxyAt[i] = "connect" /\ proxyAt'[i] = "field"
    BY <1>8 DEF ConnectCommit
  <2>2. DoorOf(i) = "ajar" /\ DoorOf(i)' = "open"
    BY <2>1 DEF DoorOf
  <2>3. Tunnel!Connect(k)
    BY <1>2, <2>1, <2>2 DEF Tunnel!Connect, Tunnel!Show, Tunnel!Move
  <2> QED
    BY <1>0, <2>3 DEF Tunnel!Next
<1>9. CASE ConnectStopProxy(i)
  <2>1. st' = st /\ proxyAt[i] = "connect" /\ proxyAt'[i] = "none"
    BY <1>9 DEF ConnectStopProxy
  <2> QED
    BY <1>5, <2>1
<1>10. CASE LoopTakeProxy(i)
  <2>1. st[i] = "Connected" /\ st' = st
    BY <1>10 DEF LoopTakeProxy
  <2>2. CASE proxyAt[i] = "field"
    <3>1. DoorOf(i) = "open" /\ DoorOf(i)' = "ajar"
      BY <1>10, <2>2 DEF LoopTakeProxy, DoorOf
    <3>2. Tunnel!Unpublish(k)
      BY <1>2, <2>1, <3>1 DEF Tunnel!Unpublish, Tunnel!Move
    <3> QED
      BY <1>0, <3>2 DEF Tunnel!Next
  <2>3. CASE proxyAt[i] # "field"
    BY <1>3, <1>10, <2>1, <2>3 DEF LoopTakeProxy
  <2> QED
    BY <2>2, <2>3
<1>11. CASE LoopStopProxy(i)
  <2>1. st' = st /\ proxyAt'[i] = IF proxyAt[i] = "loop" THEN "none" ELSE proxyAt[i]
    BY <1>11 DEF LoopStopProxy
  <2>2. CASE proxyAt[i] = "loop"
    BY <1>5, <2>1, <2>2
  <2>3. CASE proxyAt[i] # "loop"
    BY <1>3, <2>1, <2>3
  <2> QED
    BY <2>2, <2>3
<1>12. CASE LoopConnectRetry(i) \/ LoopReconnecting(i)
  <2>1. st[i] \in {"Starting", "Connected"} /\ proxyAt[i] = "none"
    BY <1>12, RunningPort DEF LoopConnectRetry, LoopReconnecting
  <2>2. st'[i] = "Reconnecting" /\ proxyAt' = proxyAt /\ DoorOf(i) = "closed"
    BY <1>12, <2>1, LoopMoves DEF LoopConnectRetry, LoopReconnecting, DoorOf
  <2>3. ShownNow' = [ShownNow EXCEPT ![k] = "Reconnecting"] /\ DoorNow' = DoorNow
    BY <1>4, <2>2
  <2>4. Tunnel!Retry(k)
    BY <1>2, <2>1, <2>2, <2>3 DEF Tunnel!Retry, Tunnel!Show
  <2> QED
    BY <1>0, <2>4 DEF Tunnel!Next
<1>13. CASE LoopCredentialsExpired(i)
  <2>1. st[i] \in {"Starting", "Reconnecting"} /\ proxyAt[i] = "none"
    BY <1>13, RunningPort DEF LoopCredentialsExpired
  <2>2. st'[i] = "Failed" /\ proxyAt' = proxyAt /\ DoorOf(i) = "closed"
    BY <1>13, <2>1, LoopMoves DEF LoopCredentialsExpired, DoorOf
  <2>3. ShownNow' = [ShownNow EXCEPT ![k] = "Failed"] /\ DoorNow' = DoorNow
    BY <1>4, <2>2
  <2>4. Tunnel!Expire(k)
    BY <1>2, <2>1, <2>2, <2>3 DEF Tunnel!Expire, Tunnel!Show
  <2> QED
    BY <1>0, <2>4 DEF Tunnel!Next
<1>14. CASE \/ LoopNextRound(i) \/ ConnectAllocate(i) \/ ConnectAddDNS(i)
            \/ ConnectStartSession(i) \/ ConnectStartFails(i)
  BY <1>3, <1>14 DEF LoopNextRound, ConnectAllocate, ConnectAddDNS, ConnectStartSession,
     ConnectStartFails
<1>15. CASE \/ ConnectOpenProxyFails(i) \/ ConnectRefused(i) \/ ConnectStopSession(i)
            \/ ConnectSessionStopped(i) \/ LoopSessionEnded(i)
  BY <1>3, <1>15 DEF ConnectOpenProxyFails, ConnectRefused, ConnectStopSession,
     ConnectSessionStopped, LoopSessionEnded
<1> QED
  BY <1>6, <1>7, <1>8, <1>9, <1>10, <1>11, <1>12, <1>13, <1>14, <1>15 DEF LoopStep

\* The only listeners of an instance that a stop has left behind are those its loop is about
\* to close: stopService has taken a published one before.
LEMMA LeftoverPort ==
  ASSUME IInv, Serial, NEW i \in Insts, instances[ServiceOf[i]] # i, proxyAt[i] # "none"
  PROVE  pc[i] \in {"commit", "abortproxy", "stopproxy"}
<1>1. \A c \in Callers : stopPc[c][i] \notin BeforeTake \cup {"close"}
  BY DEF Serial, StoppedHasItsPlace, BeforeTake
<1>2. i \in Leftovers(ServiceOf[i])
  BY DEF Serial, PortsAreCounted
<1>3. ctxDone[i]
  BY <1>2 DEF Leftovers
<1>4. proxyAt[i] \in {"connect", "loop", "field"} \/ proxyAt[i] \in Callers
  BY DEF IInv, TypeOK, ProxyPlaces
<1> QED
  BY <1>1, <1>3, <1>4 DEF IInv, ProxyHasHolder

\* A loop that still has a port to close does not return.
LEMMA PortKeepsLoop ==
  ASSUME TypeOK, NEW i \in Insts, LoopStep(i), pc[i] \in {"commit", "abortproxy", "stopproxy"}
  PROVE  pc'[i] \notin {"idle", "done"}
<1> USE DEF TypeOK, Goto, MoveOrExit
<1>1. CASE ConnectCommit(i)
  BY <1>1 DEF ConnectCommit
<1>2. CASE ConnectRefused(i)
  BY <1>2 DEF ConnectRefused
<1>3. CASE ConnectStopProxy(i)
  BY <1>3 DEF ConnectStopProxy
<1>4. CASE LoopStopProxy(i)
  BY <1>4 DEF LoopStopProxy
<1> QED
  BY <1>1, <1>2, <1>3, <1>4 DEF LoopStep, LoopNextRound, LoopBegin, ConnectAllocate,
     ConnectAddDNS, ConnectStartSession, ConnectStartFails, ConnectOpenProxy,
     ConnectOpenProxyFails, ConnectStopSession, ConnectSessionStopped, LoopConnectRetry,
     LoopSessionEnded, LoopTakeProxy, LoopReconnecting, LoopCredentialsExpired

\* Every step of a loop is a step of its service's tunnel, or is not seen.
LEMMA LoopTunnels ==
  ASSUME IInv, Serial, NEW i \in Insts, LoopStep(i)
  PROVE  [Tunnel!Next]_(Tunnel!tunnelVars)
<1>1. TypeOK /\ ListedUnderItsKey /\ ProxyHasHolder
  BY DEF IInv, Serial
<1>2. /\ UNCHANGED <<instances, ctxDone>> /\ pc[i] \notin {"idle", "done"}
      /\ \A j \in Insts : j # i => st'[j] = st[j] /\ pc'[j] = pc[j] /\ proxyAt'[j] = proxyAt[j]
  BY <1>1, LoopFrame
<1>3. CASE ~ctxDone[i]
  BY <1>3, RunningLoopTunnels
<1>4. CASE ctxDone[i] /\ instances[ServiceOf[i]] = i
  BY <1>1, <1>2, <1>4, CancelledLoopWinds, CancelledWinds
<1>5. CASE ctxDone[i] /\ instances[ServiceOf[i]] # i
  <2>1. IsLeft(i)
    BY <1>2, <1>5 DEF IsLeft
  <2>2. ASSUME proxyAt[i] # "none" PROVE IsLeft(i)'
    <3>1. pc'[i] \notin {"idle", "done"}
      BY <1>1, <1>5, <2>2, LeftoverPort, PortKeepsLoop
    <3> QED
      BY <1>2, <1>5, <3>1 DEF IsLeft
  <2> QED
    BY <1>1, <1>2, <1>5, <2>1, <2>2, LeftoverLingers
<1> QED
  BY <1>3, <1>4, <1>5

\* Stop deletes the entry of an instance whose published listener it has closed.  One that its
\* loop still holds stays behind with the loop.
LEMMA DeleteForgets ==
  ASSUME IInv, Serial, RequestsKeepApart, NEW c \in Callers, NEW i \in Insts, DownDelete(c, i)
  PROVE  Tunnel!Next
<1> DEFINE k == ServiceOf[i]
<1>1. /\ k \in Services /\ TypeOK /\ i # NoInst
      /\ instances' = [instances EXCEPT ![k] = NoInst]
      /\ UNCHANGED <<st, ctxDone, pc, proxyAt>>
      /\ stopPc[c][i] = "released"
  BY NamesAssumption, NilAssumption DEF DownDelete, IInv
<1>2. instances[k] = i /\ ctxDone[i]
  BY <1>1 DEF IInv, StopperCancelled, Serial, StoppedHasItsPlace
<1>3. \A d \in Callers : stopPc[d][i] \notin BeforeTake \cup {"close"}
  <2>1. ASSUME NEW d \in Callers, stopPc[d][i] \in BeforeTake \cup {"close"} PROVE d = c
    BY <1>1, <2>1 DEF BeforeTake, RequestsKeepApart, WorksOn
  <2> QED
    BY <1>1, <2>1 DEF BeforeTake
<1>4. proxyAt[i] # "none" => proxyAt[i] # "field" /\ pc[i] \in {"commit", "abortproxy", "stopproxy"}
  BY <1>2, <1>3 DEF IInv, TypeOK, ProxyPlaces, ProxyHasHolder
<1>5. WishNow[k] = "down" /\ WishNow' = [WishNow EXCEPT ![k] = "none"]
  <2>1. \A h \in Services : Wish(h)' = IF h = k THEN "none" ELSE Wish(h)
    BY <1>1 DEF Wish, TypeOK
  <2> QED
    BY <1>1, <1>2, <2>1 DEF WishNow, Wish
<1>6. ShownNow' = [ShownNow EXCEPT ![k] = "Disconnected"]
  <2>1. \A h \in Services : Shown(h)' = IF h = k THEN "Disconnected" ELSE Shown(h)
    BY <1>1 DEF Shown, TypeOK
  <2> QED
    BY <1>1, <2>1 DEF ShownNow
<1>7. DoorNow[k] = DoorOf(i) /\ DoorNow' = [DoorNow EXCEPT ![k] = "closed"]
  <2>1. \A h \in Services : Door(h)' = IF h = k THEN "closed" ELSE Door(h)
    BY <1>1 DEF Door, DoorOf, TypeOK
  <2> QED
    BY <1>1, <1>2, <2>1 DEF DoorNow, Door
<1>8. \A j \in Insts : j # i => IsLeft(j)' = IsLeft(j)
  <2>1. ASSUME NEW j \in Insts, j # i, ServiceOf[j] = k PROVE IsLeft(j)' = IsLeft(j)
    BY <1>1, <1>2, <2>1, NilAssumption DEF IsLeft, TypeOK
  <2>2. ASSUME NEW j \in Insts, j # i, ServiceOf[j] # k PROVE IsLeft(j)' = IsLeft(j)
    <3>1. instances'[ServiceOf[j]] = instances[ServiceOf[j]]
      BY <1>1, <2>2, NamesAssumption DEF TypeOK
    <3> QED
      BY <1>1, <3>1 DEF IsLeft
  <2> QED
    BY <2>1, <2>2
<1>9. ~IsLeft(i) /\ (IsLeft(i)' <=> pc[i] \notin {"idle", "done"})
  BY <1>1, <1>2 DEF IsLeft, TypeOK
<1>10. /\ Leftovers(k) = {j \in Insts : ServiceOf[j] = k /\ IsLeft(j)}
       /\ Leftovers(k)' = {j \in Insts : ServiceOf[j] = k /\ IsLeft(j)'}
  BY <1>1, LeftoversOf DEF Leftovers, IsLeft
<1>11. Leftovers(k)' = Leftovers(k) \cup (IF pc[i] \in {"idle", "done"} THEN {} ELSE {i})
  BY <1>8, <1>9, <1>10
<1>12. OldNow[k] = Old(k) /\ OldNow' = [OldNow EXCEPT ![k] = Old(k)']
  <2>1. ASSUME NEW h \in Services, h # k PROVE Old(h)' = Old(h)
    <3>1. \A j \in Insts : ServiceOf[j] = h => j # i
      BY <2>1
    <3> QED
      BY <1>1, <1>8, <3>1, OldStays
  <2> QED
    BY <1>1, <2>1 DEF OldNow
<1> HIDE DEF k
<1>13. Old(k)' \in Tunnel!Remains
  BY DEF Old, Tunnel!Remains
<1>14. CASE proxyAt[i] = "none"
  <2>1. DoorOf(i) = "closed"
    BY <1>14 DEF DoorOf
  <2>2. (\E j \in Leftovers(k)' : proxyAt'[j] # "none") <=> (\E j \in Leftovers(k) : proxyAt[j] # "none")
    BY <1>1, <1>11, <1>14
  <2>3. Old(k)' = Old(k) \/ (Old(k) = "none" /\ Old(k)' = "loop")
    BY <1>11, <2>2 DEF Old
  <2>4. Tunnel!Forget(k)
    BY <1>5, <1>6, <1>7, <1>12, <1>13, <2>1, <2>3 DEF Tunnel!Forget, Tunnel!Show
  <2> QED
    BY <1>1, <2>4 DEF Tunnel!Next
<1>15. CASE proxyAt[i] # "none"
  <2>1. DoorOf(i) = "ajar"
    BY <1>4, <1>15 DEF DoorOf
  <2>2. i \in Leftovers(k)' /\ proxyAt'[i] # "none"
    BY <1>1, <1>4, <1>11, <1>15
  <2>3. Old(k)' = "port"
    BY <2>2 DEF Old
  <2>4. Tunnel!Forget(k)
    BY <1>5, <1>6, <1>7, <1>12, <1>13, <2>1, <2>3 DEF Tunnel!Forget, Tunnel!Show
  <2> QED
    BY <1>1, <2>4 DEF Tunnel!Next
<1> QED
  BY <1>14, <1>15

\* Every step of a stopService goroutine takes its service's tunnel down, or is not seen.
LEMMA StopTunnels ==
  ASSUME IInv, Serial, RequestsKeepApart, NEW c \in Callers, NEW i \in Insts, StopStep(c, i)
  PROVE  [Tunnel!Next]_(Tunnel!tunnelVars)
<1> DEFINE k == ServiceOf[i]
<1>1. k \in Services /\ TypeOK /\ ListedUnderItsKey /\ c \notin ProxyPlaces
  BY NamesAssumption, CallersAssumption DEF IInv, Serial
<1>2. /\ stopPc[c][i] \notin {"none", "deleted"} => instances[k] = i
      /\ stopPc[c][i] \notin {"none", "cancel"} => ctxDone[i]
  BY DEF IInv, StopperCancelled, Serial, StoppedHasItsPlace
<1> HIDE DEF k
<1> USE DEF StopGoto
<1>3. CASE StopCancel(c, i)
  <2>1. /\ instances' = instances /\ st' = st /\ pc' = pc /\ proxyAt' = proxyAt
        /\ ctxDone'[i] = TRUE /\ \A j \in Insts : j # i => ctxDone'[j] = ctxDone[j]
        /\ instances[k] = i
    BY <1>1, <1>2, <1>3 DEF StopCancel, TypeOK
  <2>2. /\ WishNow[k] = (IF ctxDone[i] THEN "down" ELSE "up")
        /\ WishNow' = [WishNow EXCEPT ![k] = "down"]
        /\ ctxDone'[i] = ctxDone[i] => WishNow' = WishNow
        /\ ShownNow' = ShownNow /\ OldNow' = OldNow
    BY <1>1, <2>1, ListedShows DEF k
  <2>3. DoorNow' = DoorNow
    BY <2>1 DEF DoorNow, Door, DoorOf
  <2>4. CASE ctxDone[i] = TRUE
    BY <2>1, <2>2, <2>3, <2>4 DEF Tunnel!tunnelVars
  <2>5. CASE ~ctxDone[i]
    BY <1>1, <2>2, <2>3, <2>5 DEF Tunnel!Next, Tunnel!Down
  <2> QED
    BY <1>1, <2>4, <2>5 DEF TypeOK
<1>4. CASE StopMoveToStopping(c, i)
  <2>1. /\ UNCHANGED <<instances, ctxDone, pc, proxyAt>>
        /\ \A j \in Insts : j # i => st'[j] = st[j]
        /\ instances[k] = i /\ ctxDone[i]
    BY <1>2, <1>4 DEF StopMoveToStopping
  <2>2. st'[i] = st[i] \/ (st'[i] = "Stopping" /\ CanMove(st[i], "Stopping"))
    BY <1>1, <1>4 DEF StopMoveToStopping, TypeOK
  <2>3. Winds(i)
    BY <2>1, <2>2 DEF Winds, ServiceStates
  <2> QED
    BY <1>1, <2>1, <2>3, CancelledWinds DEF k
<1>5. CASE StopMoveToDisconnected(c, i)
  <2>1. /\ UNCHANGED <<instances, ctxDone, pc, proxyAt>>
        /\ \A j \in Insts : j # i => st'[j] = st[j]
        /\ instances[k] = i /\ ctxDone[i]
    BY <1>2, <1>5 DEF StopMoveToDisconnected
  <2>2. st'[i] = st[i] \/ (st'[i] = "Disconnected" /\ CanMove(st[i], "Disconnected"))
    BY <1>1, <1>5 DEF StopMoveToDisconnected, TypeOK
  <2>3. Winds(i)
    BY <2>1, <2>2 DEF Winds, ServiceStates
  <2> QED
    BY <1>1, <2>1, <2>3, CancelledWinds DEF k
<1>6. CASE StopTakeProxy(c, i)
  <2>1. /\ UNCHANGED <<instances, ctxDone, st, pc>>
        /\ \A j \in Insts : j # i => proxyAt'[j] = proxyAt[j]
        /\ instances[k] = i /\ ctxDone[i]
    BY <1>2, <1>6 DEF StopTakeProxy
  <2>2. proxyAt'[i] = IF proxyAt[i] = "field" THEN c ELSE proxyAt[i]
    BY <1>1, <1>6 DEF StopTakeProxy, TypeOK
  <2>3. Winds(i)
    BY <1>1, <2>1, <2>2 DEF Winds, ProxyPlaces
  <2> QED
    BY <1>1, <2>1, <2>3, CancelledWinds DEF k
<1>7. CASE StopProxy(c, i)
  <2>1. /\ UNCHANGED <<instances, ctxDone, st, pc>>
        /\ \A j \in Insts : j # i => proxyAt'[j] = proxyAt[j]
        /\ instances[k] = i /\ ctxDone[i]
    BY <1>2, <1>7 DEF StopProxy
  <2>2. proxyAt'[i] = IF proxyAt[i] = c THEN "none" ELSE proxyAt[i]
    BY <1>1, <1>7 DEF StopProxy, TypeOK
  <2>3. Winds(i)
    BY <1>1, <2>1, <2>2 DEF Winds, ProxyPlaces
  <2> QED
    BY <1>1, <2>1, <2>3, CancelledWinds DEF k
<1>8. CASE DownDelete(c, i)
  BY <1>8, DeleteForgets
<1>9. ASSUME UNCHANGED <<instances, st, ctxDone, pc, proxyAt>>
      PROVE  UNCHANGED Tunnel!tunnelVars
  BY <1>9, Unseen
<1>10. CASE StopCancelPanics(c, i) \/ StopRead(c, i) \/ StopWithoutSession(c, i)
  BY <1>9, <1>10 DEF StopCancelPanics, StopRead, StopWithoutSession
<1>11. CASE StopSession(c, i) \/ StopSessionStopped(c, i) \/ DownRelease(c, i)
  BY <1>9, <1>11 DEF StopSession, StopSessionStopped, DownRelease
<1> QED
  BY <1>3, <1>4, <1>5, <1>6, <1>7, <1>8, <1>10, <1>11 DEF StopStep

\* Start shows when it inserts the instance, which is Disconnected and has no listener.
LEMMA CallerTunnels ==
  ASSUME IInv, Serial, NEW c \in Callers, CallerStep(c)
  PROVE  [Tunnel!Next]_(Tunnel!tunnelVars)
<1>1. TypeOK /\ ListedUnderItsKey
  BY DEF IInv, Serial
<1>2. CASE UpInsert(c)
  <2>1. PICK i \in Insts : i = new[c] /\ pc[i] = "idle" /\ i # NoInst
    BY <1>2, NilAssumption DEF UpInsert, IInv, NewIsUnstarted
  <2>2. PICK k \in Services : k = ServiceOf[i]
    BY NamesAssumption
  <2>3. /\ instances' = [instances EXCEPT ![k] = i] /\ UNCHANGED <<st, ctxDone, pc, proxyAt>>
        /\ instances[k] = NoInst /\ ~ctxDone[i]
    BY <1>2, <2>1, <2>2 DEF UpInsert, Serial, NewHasItsPlace
  <2>4. st[i] = "Disconnected" /\ proxyAt[i] = "none"
    BY <2>1, <2>3, RunningPort DEF IInv, StateFollowsLoop
  <2>5. WishNow[k] = "none" /\ WishNow' = [WishNow EXCEPT ![k] = "up"]
    <3>1. \A h \in Services : Wish(h)' = IF h = k THEN "up" ELSE Wish(h)
      BY <1>1, <2>1, <2>3 DEF Wish, TypeOK
    <3> QED
      BY <2>3, <3>1 DEF WishNow, Wish
  <2>6. ShownNow' = ShownNow
    BY <1>1, <2>1, <2>3, <2>4 DEF ShownNow, Shown, TypeOK
  <2>7. DoorNow' = DoorNow
    <3>1. \A h \in Services : Door(h)' = Door(h)
      BY <1>1, <2>1, <2>3, <2>4 DEF Door, DoorOf, TypeOK
    <3> QED
      BY <3>1 DEF DoorNow
  <2>8. OldNow' = OldNow
    <3>1. ASSUME NEW j \in Insts PROVE IsLeft(j)' = IsLeft(j)
      <4>1. CASE ServiceOf[j] # k
        BY <1>1, <2>3, <4>1, NamesAssumption DEF IsLeft, TypeOK
      <4>2. CASE ServiceOf[j] = k /\ j # i
        BY <1>1, <2>3, <4>2, NilAssumption DEF IsLeft, TypeOK
      <4>3. CASE j = i
        BY <2>1, <2>3, <4>3 DEF IsLeft
      <4> QED
        BY <4>1, <4>2, <4>3
    <3>2. \A h \in Services : Old(h)' = Old(h)
      BY <2>3, <3>1, OldStays
    <3> QED
      BY <3>2 DEF OldNow
  <2> QED
    BY <2>5, <2>6, <2>7, <2>8 DEF Tunnel!Next, Tunnel!Up
<1>3. CASE UpCheck(c)
  <2>1. PICK i \in Insts :
          /\ i \notin Running /\ pc[i] \in {"idle", "done"} /\ pc'[i] = "idle"
          /\ \A j \in Insts : j # i => /\ st'[j] = st[j] /\ ctxDone'[j] = ctxDone[j]
                                       /\ pc'[j] = pc[j]
    BY <1>1, <1>3, Zenon DEF UpCheck, FreeInst, TypeOK
  <2>2. instances' = instances /\ proxyAt' = proxyAt
    BY <1>3 DEF UpCheck
  <2>3. instances[ServiceOf[i]] # i
    BY <2>1, NilAssumption, NamesAssumption DEF Running
  <2>4. ~IsLeft(i) /\ ~IsLeft(i)'
    BY <2>1 DEF IsLeft
  <2> QED
    BY <1>1, <2>1, <2>2, <2>3, <2>4, LeftoverLingers
<1>4. CASE UpSpawn(c)
  <2>1. ~ctxDone[new[c]] /\ UNCHANGED <<instances, st, ctxDone, proxyAt>>
    BY <1>4 DEF UpSpawn, Serial, NewHasItsPlace
  <2>2. \A i \in Insts : ctxDone[i] => pc'[i] = pc[i]
    BY <1>1, <1>4, <2>1 DEF UpSpawn, Goto, TypeOK
  <2> QED
    BY <2>1, <2>2, Unseen
<1>5. ASSUME UNCHANGED <<instances, st, ctxDone, pc, proxyAt>>
      PROVE  UNCHANGED Tunnel!tunnelVars
  BY <1>5, Unseen
<1>6. CASE UpSkip(c) \/ UpAllocate(c) \/ UpReply(c) \/ DownRemoveDNS(c)
  BY <1>5, <1>6 DEF UpSkip, UpAllocate, UpReply, DownRemoveDNS, loopVars, instVars
<1> QED
  BY <1>2, <1>3, <1>4, <1>6 DEF CallerStep

\* Every step of the engine is a step of one service's tunnel, or is not seen.
LEMMA NextTunnels ==
  IInv /\ Serial /\ RequestsKeepApart /\ Next => [Tunnel!Next]_(Tunnel!tunnelVars)
<1> SUFFICES ASSUME IInv, Serial, RequestsKeepApart, Next
             PROVE  [Tunnel!Next]_(Tunnel!tunnelVars)
  OBVIOUS
<1>1. ASSUME UNCHANGED <<instances, st, ctxDone, pc, proxyAt>>
      PROVE  UNCHANGED Tunnel!tunnelVars
  BY <1>1, Unseen
<1>2. CASE NetChange \/ DropStep
  BY <1>1, <1>2 DEF NetChange, DropStep, DropBegin, DropEnd, DropRead, DropSignal, DropReaped
<1>3. ASSUME NEW s \in Sessions, SessionStep(s) \/ SessionDies(s)
      PROVE  UNCHANGED Tunnel!tunnelVars
  BY <1>1, <1>3 DEF SessionStep, SessionDies, SessionKilled, SessionCancelled, SessionGone
<1>4. ASSUME NEW c \in Callers, NEW targets \in SUBSET Services,
             UpRequest(c, targets) \/ DownRequest(c, targets)
      PROVE  UNCHANGED Tunnel!tunnelVars
  BY <1>1, <1>4 DEF UpRequest, DownRequest
<1> QED
  BY <1>2, <1>3, <1>4, LoopTunnels, StopTunnels, CallerTunnels DEF Next

\* Nothing is listed at first.
LEMMA InitTunnels == Init => Tunnel!Init
<1> SUFFICES ASSUME Init PROVE Tunnel!Init
  OBVIOUS
<1>1. \A k \in Services : instances[k] = NoInst /\ Leftovers(k) = {}
  BY DEF Init, Leftovers
<1>2. WishNow = [k \in Services |-> "none"] /\ ShownNow = [k \in Services |-> "Disconnected"]
  BY <1>1 DEF WishNow, Wish, ShownNow, Shown
<1>3. DoorNow = [k \in Services |-> "closed"] /\ OldNow = [k \in Services |-> "none"]
  BY <1>1 DEF DoorNow, Door, OldNow, Old
<1> QED
  BY <1>2, <1>3 DEF Tunnel!Init

\* As long as no two requests have worked on the same service, the engine implements Tunnels:
\* ports that listen before they are published, after they are withdrawn and after their
\* service was forgotten are among what its tunnels show.
THEOREM EngineImplementsTunnels == ApartSpec => TunnelsIfApart
<1>1. ApartInit => Tunnel!Init
  BY InitTunnels DEF ApartInit
<1>2. IInv /\ SerialIfApart /\ [ApartNext]_requestsVars =>
        [apart' => [Tunnel!Next]_(Tunnel!tunnelVars)]_requestsVars
  <2> SUFFICES ASSUME IInv, SerialIfApart, ApartNext, apart'
               PROVE  [Tunnel!Next]_(Tunnel!tunnelVars)
    OBVIOUS
  <2>1. Next /\ apart
    BY DEF ApartNext
  <2> QED
    BY <2>1, NextTunnels DEF SerialIfApart
<1> QED
  BY <1>1, <1>2, SerialInvariance, ApartIsEngine, Invariance, PTL DEF ApartSpec, TunnelsIfApart

-----------------------------------------------------------------------------
(* What a tunnel promises, and therefore the engine. *)

FinalForNow(k) ==
  /\ WishNow[k] = "down" =>
       /\ WishNow'[k] # "up"
       /\ DoorNow'[k] = "open" => DoorNow[k] = "open"
       /\ ShownNow'[k] = "Connected" => ShownNow[k] = "Connected"
  /\ OldNow[k] = "none" /\ OldNow'[k] # "none" => WishNow[k] = "down" /\ WishNow'[k] = "none"

\* Every move of a tunnel keeps both promises; the other tunnels do not move.
LEMMA TunnelMoves ==
  ASSUME Tunnel!Promise, Tunnel!Next
  PROVE  Tunnel!Promise' /\ \A k \in Services : FinalForNow(k)
<1> DEFINE Kept == Tunnel!Promise' /\ \A k \in Services : FinalForNow(k)
<1> USE DEF Tunnel!Promise, FinalForNow, Tunnel!Show, Tunnel!Move
<1>0. /\ DOMAIN WishNow = Services /\ DOMAIN ShownNow = Services
      /\ DOMAIN DoorNow = Services /\ DOMAIN OldNow = Services
      /\ DOMAIN WishNow' = Services /\ DOMAIN ShownNow' = Services
      /\ DOMAIN DoorNow' = Services /\ DOMAIN OldNow' = Services
  BY DEF WishNow, ShownNow, DoorNow, OldNow
<1>1. ASSUME NEW k \in Services, Tunnel!Up(k) PROVE Kept
  BY <1>0, <1>1 DEF Tunnel!Up
<1>2. ASSUME NEW k \in Services, Tunnel!Begin(k) PROVE Kept
  BY <1>0, <1>2 DEF Tunnel!Begin
<1>3. ASSUME NEW k \in Services, Tunnel!Listen(k) PROVE Kept
  BY <1>0, <1>3 DEF Tunnel!Listen
<1>4. ASSUME NEW k \in Services, Tunnel!Connect(k) PROVE Kept
  BY <1>0, <1>4 DEF Tunnel!Connect
<1>5. ASSUME NEW k \in Services, Tunnel!Unpublish(k) PROVE Kept
  BY <1>0, <1>5 DEF Tunnel!Unpublish
<1>6. ASSUME NEW k \in Services, Tunnel!Shut(k) PROVE Kept
  BY <1>0, <1>6 DEF Tunnel!Shut
<1>7. ASSUME NEW k \in Services, Tunnel!Retry(k) PROVE Kept
  BY <1>0, <1>7 DEF Tunnel!Retry
<1>8. ASSUME NEW k \in Services, Tunnel!Expire(k) PROVE Kept
  BY <1>0, <1>8 DEF Tunnel!Expire
<1>9. ASSUME NEW k \in Services, Tunnel!Down(k) PROVE Kept
  BY <1>0, <1>9 DEF Tunnel!Down
<1>10. ASSUME NEW k \in Services, Tunnel!Wind(k) PROVE Kept
  BY <1>0, <1>10 DEF Tunnel!Wind
<1>11. ASSUME NEW k \in Services, Tunnel!Forget(k) PROVE Kept
  BY <1>0, <1>11 DEF Tunnel!Forget
<1>12. ASSUME NEW k \in Services, Tunnel!Linger(k) PROVE Kept
  BY <1>0, <1>12 DEF Tunnel!Linger
<1> QED
  BY <1>1, <1>2, <1>3, <1>4, <1>5, <1>6, <1>7, <1>8, <1>9, <1>10, <1>11, <1>12 DEF Tunnel!Next

\* While no two requests work on the same service, a published port leads to a Connected
\* service, a port that listens belongs to a service that is being started, connected or taken
\* down, and a service that is taken down stays so until it is forgotten.
THEOREM ServicesKeepPromises ==
  ApartSpec /\ []apart => Tunnel!Spec /\ []Tunnel!Promise /\ Tunnel!DownIsFinal
<1>1. Tunnel!Init => Tunnel!Promise
  BY DEF Tunnel!Init, Tunnel!Promise
<1>2. Tunnel!Promise /\ [Tunnel!Next]_(Tunnel!tunnelVars) => Tunnel!Promise'
  <2>1. Tunnel!Promise /\ UNCHANGED Tunnel!tunnelVars => Tunnel!Promise'
    BY DEF Tunnel!Promise, Tunnel!tunnelVars
  <2> QED
    BY <2>1, TunnelMoves
<1>3. Tunnel!Promise /\ [Tunnel!Next]_(Tunnel!tunnelVars) =>
        [\A k \in Services : FinalForNow(k)]_(Tunnel!tunnelVars)
  BY TunnelMoves
<1>4. apart' /\ [apart' => [Tunnel!Next]_(Tunnel!tunnelVars)]_requestsVars =>
        [Tunnel!Next]_(Tunnel!tunnelVars)
  <2>1. UNCHANGED requestsVars => UNCHANGED Tunnel!tunnelVars
    BY Unseen DEF requestsVars, vars, serviceVars, instVars, loopVars
  <2> QED
    BY <2>1
<1>5. ApartSpec /\ []apart => Tunnel!Init /\ [][Tunnel!Next]_(Tunnel!tunnelVars)
  BY <1>4, EngineImplementsTunnels, PTL DEF TunnelsIfApart
<1> QED
  BY <1>1, <1>2, <1>3, <1>5, PTL DEF Tunnel!Spec, Tunnel!DownIsFinal, FinalForNow

=============================================================================
