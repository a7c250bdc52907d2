---------------------------- MODULE ServiceState ----------------------------
(* The states of a port-forwarding service and the moves between them that    *)
(* internal/state/machine.go allows.                                          *)

ServiceStates == {"Disconnected", "Starting", "Connected", "Reconnecting",
                  "Failed", "Stopping"}

MovesFrom(from, targets) == {<<from, to>> : to \in targets}

\* Wrong on purpose: a table without the move that a lost session needs.
TransitionsWithoutReconnect ==
  MovesFrom("Disconnected", {"Starting"})
    \cup MovesFrom("Starting", {"Connected", "Reconnecting", "Failed", "Stopping"})
    \cup MovesFrom("Connected", {"Stopping"})
    \cup MovesFrom("Reconnecting", {"Starting", "Failed", "Stopping"})
    \cup MovesFrom("Failed", {"Starting", "Stopping"})
    \cup MovesFrom("Stopping", {"Disconnected"})

AllowedTransitions ==
  MovesFrom("Disconnected", {"Starting"})
    \cup MovesFrom("Starting", {"Connected", "Reconnecting", "Failed", "Stopping"})
    \cup MovesFrom("Connected", {"Reconnecting", "Stopping"})
    \cup MovesFrom("Reconnecting", {"Starting", "Failed", "Stopping"})
    \cup MovesFrom("Failed", {"Starting", "Stopping"})
    \cup MovesFrom("Stopping", {"Disconnected"})

\* state.Transition: the move is accepted.
CanMove(from, to) == <<from, to>> \in AllowedTransitions

=============================================================================
