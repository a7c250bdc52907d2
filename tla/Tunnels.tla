------------------------------- MODULE Tunnels -------------------------------
(* What the engine promises of each configured service (README.md, "How it     *)
(* works"; internal/engine/engine.go): a service that is up has one tunnel,    *)
(* whose state follows the table of internal/state/machine.go.  Its local port *)
(* listens ("ajar": users can connect, but nobody was told of it) while the    *)
(* service is Starting, is published together with Connected ("open"), and is  *)
(* closed before the service is retried or given up.  A service that is taken  *)
(* down winds down and never connects again.  It is forgotten with no port     *)
(* published; the loop of its last start may then still be on its way out, and *)
(* even hold a port that listens for a while.                                  *)
(*                                                                             *)
(* EngineRefinement shows that the engine's instances, loops and goroutines    *)
(* implement it.                                                               *)
EXTENDS ServiceState

CONSTANT Services

VARIABLES
  wish,   \* what the user asked for: up, down (being stopped), none (not listed)
  shown,  \* the state that status shows
  door,   \* the tunnel's port: closed, ajar (it listens), open (it is published)
  old     \* what earlier tunnels left behind: nothing, a loop, one whose port listens

tunnelVars == <<wish, shown, door, old>>

Wishes == {"none", "up", "down"}
Doors == {"closed", "ajar", "open"}
Remains == {"none", "loop", "port"}

Init ==
  /\ wish = [k \in Services |-> "none"]
  /\ shown = [k \in Services |-> "Disconnected"]
  /\ door = [k \in Services |-> "closed"]
  /\ old = [k \in Services |-> "none"]

Show(k, s) == shown' = [shown EXCEPT ![k] = s]
Move(k, from, to) == door[k] = from /\ door' = [door EXCEPT ![k] = to]

\* A new tunnel: what an earlier one left behind may still be there.
Up(k) ==
  /\ wish[k] = "none"
  /\ wish' = [wish EXCEPT ![k] = "up"]
  /\ UNCHANGED <<shown, door, old>>

Begin(k) ==
  /\ wish[k] = "up" /\ shown[k] \in {"Disconnected", "Reconnecting"} /\ door[k] = "closed"
  /\ Show(k, "Starting")
  /\ UNCHANGED <<wish, door, old>>

\* The port listens from here on, also for a start that a stop has overtaken.
Listen(k) ==
  /\ (wish[k] = "up" /\ shown[k] = "Starting") \/ wish[k] = "down"
  /\ Move(k, "closed", "ajar")
  /\ UNCHANGED <<wish, shown, old>>

\* Connected and published in one step: nobody sees the one without the other.
Connect(k) ==
  /\ wish[k] = "up" /\ shown[k] = "Starting"
  /\ Show(k, "Connected")
  /\ Move(k, "ajar", "open")
  /\ UNCHANGED <<wish, old>>

\* The session ended, or the service is being stopped: the port is about to be closed.
Unpublish(k) ==
  /\ (wish[k] = "up" /\ shown[k] = "Connected") \/ wish[k] = "down"
  /\ Move(k, "open", "ajar")
  /\ UNCHANGED <<wish, shown, old>>

\* The port closes, after Connected or instead of it.
Shut(k) ==
  /\ wish[k] # "none"
  /\ Move(k, "ajar", "closed")
  /\ UNCHANGED <<wish, shown, old>>

Retry(k) ==
  /\ wish[k] = "up" /\ shown[k] \in {"Starting", "Connected"} /\ door[k] = "closed"
  /\ Show(k, "Reconnecting")
  /\ UNCHANGED <<wish, door, old>>

\* The user has to log in again.
Expire(k) ==
  /\ wish[k] = "up" /\ shown[k] \in {"Starting", "Reconnecting"} /\ door[k] = "closed"
  /\ Show(k, "Failed")
  /\ UNCHANGED <<wish, door, old>>

Down(k) ==
  /\ wish[k] = "up"
  /\ wish' = [wish EXCEPT ![k] = "down"]
  /\ UNCHANGED <<shown, door, old>>

\* Whatever the stop interrupts may still take a step, but not to Connected.
Wind(k) ==
  /\ wish[k] = "down"
  /\ \E s \in ServiceStates \ {"Connected"} : CanMove(shown[k], s) /\ Show(k, s)
  /\ UNCHANGED <<wish, door, old>>

\* A port that still listens stays behind with its loop; a published one never does.
Forget(k) ==
  /\ wish[k] = "down" /\ door[k] # "open"
  /\ wish' = [wish EXCEPT ![k] = "none"]
  /\ Show(k, "Disconnected")
  /\ door' = [door EXCEPT ![k] = "closed"]
  /\ \E r \in Remains :
       /\ door[k] = "ajar" => r = "port"
       /\ door[k] = "closed" => r = old[k] \/ (old[k] = "none" /\ r = "loop")
       /\ old' = [old EXCEPT ![k] = r]

\* What is left behind finishes what it was at: it may listen once more, and ends.
Linger(k) ==
  /\ \/ old[k] = "loop" /\ \E r \in Remains : old' = [old EXCEPT ![k] = r]
     \/ old[k] = "port" /\ old' = [old EXCEPT ![k] = "loop"]
  /\ UNCHANGED <<wish, shown, door>>

Next ==
  \E k \in Services :
    \/ Up(k) \/ Begin(k) \/ Listen(k) \/ Connect(k) \/ Unpublish(k) \/ Shut(k)
    \/ Retry(k) \/ Expire(k) \/ Down(k) \/ Wind(k) \/ Forget(k) \/ Linger(k)

Spec == Init /\ [][Next]_tunnelVars

\* The tunnel's own port: a published one leads to a Connected service, and one that listens to
\* a service that is about to be Connected or no longer is, unless the service is being taken
\* down; a service that is not up shows neither a state nor a port of its own.
Promise ==
  \A k \in Services :
    /\ wish[k] = "up" /\ door[k] = "open" => shown[k] = "Connected"
    /\ wish[k] = "up" /\ door[k] = "ajar" => shown[k] \in {"Starting", "Connected"}
    /\ wish[k] = "none" => shown[k] = "Disconnected" /\ door[k] = "closed"

\* A service that is taken down is not up again, nor Connected, nor its port published, before
\* it has been forgotten; and nothing but a down leaves a loop, or its port, behind.
DownIsFinal ==
  [][\A k \in Services :
       /\ wish[k] = "down" => /\ wish'[k] # "up"
                              /\ door'[k] = "open" => door[k] = "open"
                              /\ shown'[k] = "Connected" => shown[k] = "Connected"
       /\ old[k] = "none" /\ old'[k] # "none" => wish[k] = "down" /\ wish'[k] = "none"
    ]_tunnelVars

=============================================================================
