------------------------------- MODULE Events -------------------------------
(* How the state of a service reaches the tray: the engine's emit (engine.go), *)
(* the bus (internal/daemon/bus.go), the stream of the tray's connection       *)
(* (internal/daemon/server.go, client.go) and what the tray makes of events    *)
(* and of status snapshots (internal/tray/tray.go).  The desktop notifier      *)
(* (notifier.go) stays silent while a tray is counted.                         *)
(*                                                                             *)
(* One service and its row are followed.  All that tells its states apart here *)
(* is whether the row shows the one the service is in, so any state may follow *)
(* any other.  The other services share the channels and eventSeq with it.     *)
(* The daemon runs all the time; the tray's connection may break whenever it   *)
(* likes.                                                                      *)
EXTENDS Naturals, Sequences

CONSTANTS
  States, Off,      \* states of a service; the one of a service nobody has started
  EngineBuffer,     \* slots of Engine.events
  SubscriberBuffer, \* slots between the bus and the tray's dispatchEvents
  Seeders,          \* goroutines in seedStatuses: these two, and those that apply may start
  MaxLingering      \* handlers of broken connections at a time

Periodic == "periodicReseed"
Streamer == "streamDaemon"

ASSUME EventsAssumption ==
  /\ Off \in States /\ {Periodic, Streamer} \subseteq Seeders
  /\ {EngineBuffer, SubscriberBuffer, MaxLingering} \subseteq Nat \ {0}

Goroutines == {"runService", "stopService"}
Nothing == "nothing"
Other == "other"                   \* an event that leaves the row alone
EventKinds == States \cup {Other}  \* a ServiceStateChanged is told by its To

VARIABLES
  truth,      \* the state Status reports
  unsent,     \* what a goroutine has yet to emit of a move it made
  events,     \* Engine.events
  link,       \* where streamDaemon is: in its seed, about to register, reading its stream
  lingering,  \* handlers of the tray's earlier connections that still run
  stream,     \* the tray's subscription channel, its connection and t.events
  row,        \* the tray's svc.state
  seed        \* a seedStatuses call: its snapshot, or that eventSeq has left its baseline

vars == <<truth, unsent, events, link, lingering, stream, row, seed>>

NoSeed == [at |-> "idle"]
Asked == [at |-> "asked"]
Stale == [at |-> "stale"]
Answered == [at : {"answered"}, snapshot : States]

TypeOK ==
  /\ truth \in States /\ row \in States
  /\ unsent \in [Goroutines -> States \cup {Nothing}]
  /\ events \in Seq(EventKinds) /\ Len(events) <= EngineBuffer
  /\ stream \in Seq(EventKinds) /\ Len(stream) <= SubscriberBuffer
  /\ link \in {"seed", "register", "up"} /\ lingering \in 0..MaxLingering
  /\ seed \in [Seeders -> {NoSeed, Asked, Stale} \cup Answered]

\* The tray has built its menu from a first seed.
Init ==
  /\ truth = Off /\ row = Off
  /\ unsent = [g \in Goroutines |-> Nothing] /\ events = <<>>
  /\ link = "seed" /\ lingering = 0 /\ stream = <<>>
  /\ seed = [d \in Seeders |-> NoSeed]

trayVars == <<row, seed>>
streamVars == <<link, lingering, stream>>

-----------------------------------------------------------------------------
(* The engine. *)

\* transition, under si.mu; the event of the move follows without it.
Move(g, to) ==
  /\ unsent[g] = Nothing /\ to # truth
  /\ truth' = to
  /\ unsent' = [unsent EXCEPT ![g] = to]
  /\ UNCHANGED <<events, streamVars, trayVars>>

\* Stop deletes an instance that its loop moved to Starting after stopService had looked: the
\* service counts as Disconnected, and no event says so.
Forget ==
  /\ truth' = Off
  /\ UNCHANGED <<unsent, events, streamVars, trayVars>>

\* A channel send with a default: the event is dropped when the channel is full.  Log entries
\* take slots of the same channels, so it may be full although few events wait.
Offer(channel, capacity, evt) ==
  {channel} \cup IF Len(channel) < capacity THEN {Append(channel, evt)} ELSE {}

Emit(g) ==
  /\ unsent[g] # Nothing
  /\ events' \in Offer(events, EngineBuffer, unsent[g])
  /\ unsent' = [unsent EXCEPT ![g] = Nothing]
  /\ UNCHANGED <<truth, streamVars, trayVars>>

\* Another service moves, or credentials have expired.
EmitOther ==
  /\ events' \in Offer(events, EngineBuffer, Other)
  /\ UNCHANGED <<truth, unsent, streamVars, trayVars>>

-----------------------------------------------------------------------------
(* The bus and the tray's connection. *)

\* The connection is counted and has a subscription.
Subscribed == link = "up"

\* Wrong on purpose: the bus waits for a subscriber that is behind.
DispatchWaits ==
  /\ events # <<>>
  /\ Subscribed => Len(stream) < SubscriberBuffer
  /\ stream' = IF Subscribed THEN Append(stream, Head(events)) ELSE stream
  /\ events' = Tail(events)
  /\ UNCHANGED <<truth, unsent, link, lingering, trayVars>>

Dispatch ==
  /\ events # <<>>
  /\ stream' \in IF Subscribed THEN Offer(stream, SubscriberBuffer, Head(events)) ELSE {stream}
  /\ events' = Tail(events)
  /\ UNCHANGED <<truth, unsent, link, lingering, trayVars>>

\* handleTrayRegister, for the connection streamDaemon has made: hasTrayClient and the
\* subscription.
Register ==
  /\ link = "register"
  /\ link' = "up"
  /\ UNCHANGED <<truth, unsent, events, lingering, stream, trayVars>>

\* The connection breaks: what the tray has not read of it is lost, and its handler does not
\* know yet.
Disconnect ==
  /\ Subscribed /\ lingering < MaxLingering
  /\ link' = "seed" /\ lingering' = lingering + 1
  /\ \E n \in 0..Len(stream) : stream' = SubSeq(stream, 1, n)
  /\ UNCHANGED <<truth, unsent, events, trayVars>>

\* Wrong on purpose: nobody reads the connection, so its handler ends at the next event.
HandlerEndsByWrite ==
  /\ lingering > 0 /\ events # <<>>
  /\ lingering' = lingering - 1
  /\ UNCHANGED <<truth, unsent, events, link, stream, trayVars>>

\* The goroutine that reads the connection, or a failed write: the subscription is cancelled
\* and the tray no longer counted.
HandlerEnds ==
  /\ lingering > 0
  /\ lingering' = lingering - 1
  /\ UNCHANGED <<truth, unsent, events, link, stream, trayVars>>

\* Server.hasTrayClient, which the notifier asks before it posts an expiry.
HasTrayClient == Subscribed \/ lingering > 0

-----------------------------------------------------------------------------
(* The tray. *)

\* eventSeq counts the events of every service, so that any of them makes the snapshot of every
\* seed in its round trip old news.
Outranked == [d \in Seeders |-> IF seed[d] = NoSeed THEN NoSeed ELSE Stale]

\* apply; for some events it starts a seed.
Apply ==
  /\ stream # <<>>
  /\ stream' = Tail(stream)
  /\ row' = IF Head(stream) = Other THEN row ELSE Head(stream)
  /\ \/ seed' = Outranked
     \/ \E d \in Seeders \ {Periodic, Streamer} :
          seed[d] = NoSeed /\ seed' = [Outranked EXCEPT ![d] = Asked]
  /\ UNCHANGED <<truth, unsent, events, link, lingering>>

\* seedStatuses notes eventSeq and asks for the status.  periodicReseed does so all the time,
\* streamDaemon before it registers.
SeedAsks(d) ==
  /\ d = Periodic \/ (d = Streamer /\ link = "seed")
  /\ seed[d] = NoSeed
  /\ seed' = [seed EXCEPT ![d] = Asked]
  /\ UNCHANGED <<truth, unsent, events, streamVars, row>>

\* handleStatus.
SeedAnswered(d) ==
  /\ seed[d] = Asked
  /\ seed' = [seed EXCEPT ![d] = [at |-> "answered", snapshot |-> truth]]
  /\ UNCHANGED <<truth, unsent, events, streamVars, row>>

\* The call returns, and streamDaemon goes on to register.
SeedReturns(d) ==
  /\ seed' = [seed EXCEPT ![d] = NoSeed]
  /\ link' = IF d = Streamer THEN "register" ELSE link
  /\ UNCHANGED <<truth, unsent, events, lingering, stream>>

\* Wrong on purpose: a snapshot only fills rows that have no state yet.
SeedFillsOnly(d) ==
  /\ seed[d].at \in {"answered", "stale"}
  /\ UNCHANGED row
  /\ SeedReturns(d)

\* The snapshot is written to the row if no event was applied since the baseline.
SeedApplied(d) ==
  /\ seed[d].at \in {"answered", "stale"}
  /\ row' = IF seed[d] = Stale THEN row ELSE seed[d].snapshot
  /\ SeedReturns(d)

-----------------------------------------------------------------------------

SeedStep(d) == SeedAsks(d) \/ SeedAnswered(d) \/ SeedApplied(d)

Next ==
  \/ \E g \in Goroutines : Emit(g) \/ \E to \in States : Move(g, to)
  \/ Forget \/ EmitOther \/ Dispatch \/ Register \/ Disconnect \/ HandlerEnds \/ Apply
  \/ \E d \in Seeders : SeedStep(d)

\* Goroutines that made a move emit it, the bus runs, the ticker of periodicReseed ticks and
\* the daemon answers.  Nobody has to read a stream.
Spec ==
  /\ Init /\ [][Next]_vars
  /\ \A g \in Goroutines : WF_vars(Emit(g))
  /\ WF_vars(Dispatch) /\ WF_vars(HandlerEnds)
  /\ \A d \in Seeders : WF_vars(SeedAnswered(d)) /\ WF_vars(SeedApplied(d))
  /\ WF_vars(SeedAsks(Periodic))

-----------------------------------------------------------------------------

\* "The safety net for any state drift — dropped events, missed Connected transitions": once
\* a service stays in a state and the others come to rest, too, the tray shows that state,
\* whichever events were dropped, lost with a connection or applied late, and whichever seeds
\* they met.  While the other services keep moving nothing is promised: each of their events
\* may discard the snapshot under way.
RowCatchesUp == <>[][FALSE]_truth /\ <>[][~EmitOther]_vars => <>[](row = truth)

\* One stuck client cannot block the engine or the bus: a full channel is drained.
BusKeepsDraining == Len(events) = EngineBuffer ~> Len(events) < EngineBuffer

\* "Without this, a quiet stream will block ... so the tray counter wouldn't decrement": once
\* the tray is gone for good the notifier is silenced no longer, although no event may ever
\* come that shows its handler a broken connection.
SilenceEnds == <>[]~Subscribed => <>[]~HasTrayClient

=============================================================================
