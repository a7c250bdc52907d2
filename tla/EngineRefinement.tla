-------------------------- MODULE EngineRefinement --------------------------
(* The engine while requests keep apart: apart remembers whether any two have  *)
(* been at work on the same service at once so far.  As long as none have, the *)
(* tunnel of a service is its listed instance, next to what a stop left behind *)
(* of earlier ones, and the engine implements Tunnels.                         *)
EXTENDS EngineProperties

VARIABLE apart

requestsVars == <<vars, apart>>

ApartInit == Init /\ apart = TRUE
ApartNext == Next /\ apart' = (apart /\ RequestsKeepApart')
ApartSpec == ApartInit /\ [][ApartNext]_requestsVars

\* Every loop that nobody stopped is listed, every listed instance works or is being stopped,
\* every open port is accounted for, and a service keeps its address and name.
SerialIfApart == apart => RequestsKeepApart /\ Serial

\* A Connected service is reachable at the address that is its own.
ReachableIfApart == apart => ConnectedIsReachable

-----------------------------------------------------------------------------

Wish(k) ==
  IF instances[k] = NoInst THEN "none" ELSE IF ctxDone[instances[k]] THEN "down" ELSE "up"

Shown(k) == IF instances[k] = NoInst THEN "Disconnected" ELSE st[instances[k]]

\* si.tcpProxy is the published listener; anybody else's is not published yet, or no longer.
DoorOf(i) ==
  IF proxyAt[i] = "none" THEN "closed" ELSE IF proxyAt[i] = "field" THEN "open" ELSE "ajar"

Door(k) == IF instances[k] = NoInst THEN "closed" ELSE DoorOf(instances[k])

Old(k) ==
  IF Leftovers(k) = {} THEN "none"
  ELSE IF \E i \in Leftovers(k) : proxyAt[i] # "none" THEN "port" ELSE "loop"

WishNow == [k \in Services |-> Wish(k)]
ShownNow == [k \in Services |-> Shown(k)]
DoorNow == [k \in Services |-> Door(k)]
OldNow == [k \in Services |-> Old(k)]

Tunnel == INSTANCE Tunnels WITH wish <- WishNow, shown <- ShownNow,
                                door <- DoorNow, old <- OldNow

\* The engine implements Tunnels while requests keep apart: every step of a loop, a request, a
\* stop or a drop is a step of one service's tunnel or none at all.  A service connects and
\* publishes its port in one step, and a stopped one never does either any more.  The port may
\* listen before that, and the loop that a stop leaves behind may still hold one, which stays
\* unpublished, next to the tunnel of a new up.
TunnelsIfApart ==
  Tunnel!Init /\ [][apart' => [Tunnel!Next]_Tunnel!tunnelVars]_requestsVars

=============================================================================
