# A TLA+ model of holepunch

holepunch keeps tunnels to private AWS services open: a CLI (`up`, `down`, `restart`,
`status`, `tray`) talks over a unix socket to a daemon, which runs one loop per service.
The loop reserves a loopback address, registers the service's hostname with the embedded DNS
resolver, starts `aws ssm start-session` through a bastion, and puts a TCP or signing proxy in
front of it. It reconnects with a backoff when the session ends, when the bastion rotates out
of its Auto Scaling group, or when the host's network changes.

The modules here are written from the Go code; paths below are relative to `src/`.
`PROJECT.json` gives for each definition the lines it models.

## 1. The system

| Component | State it keeps | Operations | Talks to |
|---|---|---|---|
| Engine, `internal/engine/engine.go` | `instances` under `e.mu`; state, session, proxy, cancel of each instance under `si.mu` | `Start`, `Stop`, `DropSessions`, `Status`, a `runService` goroutine per instance, a `stopService` goroutine per stopped one | all below, by calls |
| State machine, `internal/state` | a state per service | `Transition` | called by the engine |
| SSM session, `internal/session` | a process group, the captured end of stderr, `done`, `err` | start, `wait` goroutine, `Stop` (several at once) | the kernel, aws |
| Bastion lookup, `internal/bastion` | cached target under `r.mu` | `Resolve`, `Invalidate` | Auto Scaling and SSM; shared by the loops |
| Backoff, `internal/reconnect` | attempt count, time of the last connect | `NextDelay`, `MarkConnected`, `ShouldReset`, `Reset` | one per loop |
| Addresses, `internal/ip`, `cmd/setup*.go` | octet of each service | `Allocate`, `Release`; setup makes the aliases | setup and daemon agree by computing alike |
| Events, `internal/engine`, `internal/daemon/bus.go`, `server.go`, `internal/tray` | bounded channels, the tray's rows | `emit`, `Bus.run`, the stream, `apply`, `seedStatuses`, `periodicReseed` | engine to tray, over channels and a socket |
| Network, `internal/netwatch`, `internal/daemon/network.go` | a channel of one event, upstreams | `tick`, `Follow`, `RefreshUpstream` | engine (`DropSessions`), resolver |
| Daemon process and CLI, `cmd`, `internal/daemon/lifecycle.go`, `server.go` | PID file, socket, DNS port, signals | `runDaemon`, `up`, `down`, `down -f`, `restart` | each other, through files and signals |
| DNS resolver, `internal/resolver` | records, upstreams | `Register`, `Unregister`, answering | engine, follower |
| Proxies, `internal/proxy` | listener, connections | `Start`, `Stop` | engine |
| Notifier, `internal/daemon/notifier.go` | what it has told | react to expired credentials | bus |
| Config, hosts file manager, state file, logs | files | read, write | not part of any protocol |

What is hard in it:

- **Concurrency.** Every request has a goroutine of its own, every service two, and they meet
  in critical sections that are shorter than an operation. `Start` checks and inserts in
  different sections; `Stop` cancels a loop and does not wait for it; `connect` publishes what
  `stopService` reads and closes.
- **Failure.** aws may end in any order with its plugin, ignore SIGTERM, or outlive its loop;
  AWS calls fail between two locks; the daemon may be killed with its files in place.
- **Ordering.** Status snapshots cross events; network events cross connects; a PID file is
  read by one process while another writes it.
- **Limits.** Buffers that drop, an allocator with a fixed range, a ring buffer, a delay that
  doubles without a bound on its exponent.

What each component has to guarantee is stated as properties in its module; section 3 lists
them. Every hazard is in `PROJECT.json` at its line, with the properties that cover it or the
reason why none does.

## 2. Modules

| Module | Models | How |
|---|---|---|
| `ServiceState` | state machine | the transition table; used by `Engine` and `Events` |
| `Engine` | engine, with the network follower's dropping of sessions | one action per critical section, call or receive of each goroutine; `pc`, `cpc`, `stopPc` say where the loop, the request and the `stopService` goroutines are |
| `EngineProperties` | — | what the engine guarantees, and the inductive invariants `IInv`, `Inv` and, while no two requests work on the same service at once (`RequestsKeepApart`), `Serial` |
| `Tunnels` | what the engine promises of a service | wish, shown state and port of each service and what earlier tunnels of it left behind, and what follows of them (`Promise`, `DownIsFinal`): the abstract specification of `Engine` |
| `EngineRefinement` | — | the engine with a history variable, `apart`: no two requests have worked on the same service at once so far; the mapping of the engine's state to `Tunnels` |
| `MCEngine`, `MCRequests` | — | names and symmetry for finite instances of `Engine`, and of `EngineRefinement` |
| `SessionLife` | what the engine assumes of a session | live, term, kill, gone; the abstract specification of `Session` |
| `Session`, `RingBuffer` | one SSM session | processes of the group, signals, pipe, `wait`, several `Stop`s; the ring byte by byte |
| `Bastion` | the services that share a `target_asg` | mutex, cache, a lookup in three steps, bastions that come and go |
| `Backoff` | one loop's backoff against the clock | durations in half seconds, with the range of `time.Duration` as a constant |
| `Addresses` | allocator in setup and daemon | hash functions are chosen freely, setup's order too |
| `Events` | emit, bus, stream, tray row | channels that may drop and that carry the other services' events, too; connections that break and whose handlers linger; a seed in flight for each goroutine that seeds |
| `Proxy` | the TCP proxy | accept loop, a handler and two copies per connection, `Stop`; sockets are open or not, peers end or vanish |
| `Network`, `MCNetwork` | watcher, follower, discovery, resolver | time in check intervals, networks with addresses and nameservers, listings that fail from the first on, queries in handlers of their own |
| `Lifecycle` | daemon processes and CLI processes | PID file, socket path and port as shared variables; each file operation, signal and poll is a step; a process with a SIGKILL pending lingers |
| `EngineProofs`, `SessionProofs`, `BastionProofs`, `BackoffProofs`, `AddressesProofs`, `ProxyProofs`, `NetworkProofs`, `LifecycleProofs` | — | theorems about the component of that name |

How they fit together:

- `Engine` implements `Tunnels` as long as no two requests have worked on the same service at once
  (`TunnelsIfApart`). The tunnel of a service is its listed instance: `wish` is none without one, up
  while its context is alive and down afterwards; `shown` is its state, Disconnected without one.
  `door` is its port: *ajar* from `NewProxy`, whose listener accepts users while the service is still
  Starting, to the commit, *open* while the listener is published in `si.tcpProxy`, ajar again from
  the taking of that field until `proxy.Stop` has returned. `old` is what stops left behind, because
  `Stop` does not wait for the loop it cancels: a loop on its way out, or one that holds a listener.
- `Session` implements `SessionLife` (`ImplementsLife`), with its fairness. `SessionLife` is the
  session of `Engine`: its `proc` takes the same values and the same steps (`SessionDies`,
  `SessionKilled`, `SessionCancelled`, `Terminate`, `Reap`). A session is gone when `wait` has
  closed `done`, killed once a `Stop` has timed out, and asked to end once its context is done or a
  `Stop` waits.
- `Lifecycle` takes `Engine.Stop` to return, which is `StopCompletes`; `Engine` takes a proxy's
  `Stop` to return and to leave nothing open, which are `StopReturns` and `NothingSurvivesStop`;
  `Network` takes `DropSessions` to return.
- Delays and targets do not appear in `Engine`; they influence when its steps happen and not which.
  Addresses do: `Allocate` gives a service the address it has, the one its key hashes to, or any free
  one, `connect` carries the address it read to `dns.Add` and to the listener, and a record is the
  address that was written last. How the allocator searches is in `Addresses`.

Definitions marked *wrong on purpose* are not part of any specification. Each is a plausible
mistake in the definition after it, and substituting it makes a property fail.

### Abstractions

- Services, callers, processes and hosts are model values. Names for instances, sessions and
  processes are reused once nothing refers to the old bearer (`FreeInst`, `FreeSess`, `Gone`),
  so behaviours are unbounded although the names are finite. When no name is free a request
  waits.
- Selectors of `up` and `down` are sets of services; validation and texts are left out.
- stderr is a sequence over two bytes, which is what the capture has to keep apart.
- Time: `Backoff` has a clock. Elsewhere a timer may fire whenever the code waits for it, with
  two exceptions that are stated where they are made: a launched daemon listens or gives up
  within the five seconds of `up`, and `down`'s and `restart`'s polls may end at any moment.
- The kernel does not reuse PIDs or group IDs within a behaviour. A signal to a process group fails,
  other than with ESRCH, only when nothing but an unreaped leader is left of it, as on macOS: the
  group runs as the daemon's own user. `Stop` then returns the error (`StopTermFails`,
  `StopKillFails`).
- A process with a SIGKILL pending runs no more of its code, and holds its port and socket until the
  kernel has ended it (`doomed`, `Killed`).
- When `Accept` fails on its own, `Serve` returns without waiting for handlers; its goroutine that
  closes the listener is woken by `runDaemon`'s deferred cancel, which is taken to run before
  `resolver.Stop` returns.
- The daemon's shutdown calls `Engine.Stop` for every service and then cancels the parent context of
  all loops (`cmd/daemon.go:133-134`). The Stop is a down request without selectors. The cancel
  reaches only loops that an `up` has inserted since, and the process exits after it, so it is left
  out.

## 3. What is checked

| Run | Question | Bounds |
|---|---|---|
| `engine_concurrent` | requests that overlap; requests that keep apart, and the refinement of `Tunnels` | 1 service, 2 callers, 2 instances, 1 session each, symmetry, `OverlapBound` |
| `engine_live` | what must eventually happen | 1 service, 1 caller, 1 instance at a time, 2 sessions, 2 network changes |
| `engine_orphan` | *violated*: two `up` at once | as `engine_concurrent`, without its bound |
| `session` | the end of a session, signals that fail, its stderr; it implements `SessionLife` | 2 processes, 2 `Stop`s, ring of 3, writes up to 4 |
| `bastion` | lookups during rotations | 3 services, 2 bastion names |
| `backoff` | delays and resets | the code's constants, doubling up to attempt 9 |
| `backoff_overflow` | *violated*: the README's bounds of every delay | as `backoff` |
| `addresses` | setup and daemon agree | 4 services, 5 octets, every hash function |
| `events` | the tray catches up, and is missed when it is gone | buffers of 1, the seeds of `streamDaemon`, `periodicReseed` and one of `apply`, 1 lingering handler |
| `proxy` | `Stop` against connections in every state | 2 connections |
| `network` | moves, sleeps, failures; queries | 3 networks (two look alike, one without nameservers), 1 query and 1 hostname at a time |
| `lifecycle` | start, stop, crash, restart | 2 CLIs, 2 daemons at a time |

**Engine.** Whatever overlaps, what was stopped leaves no listener and no session
(`StopLeavesNothing`), a loop that was not stopped ends only in Failed (`LoudExit`), an open session
of a Connected service is the published one (`LiveSessionIsPublished`) and a stopped service never
becomes Connected (`CancelledNeverConnects`). Requests of which no two work on the same service at
once keep the books straight although `down` returns before the loop it cancelled
(`SerialIfApart`): a running loop is listed (`RunningIsListed`), no listed entry is dead
(`ListedIsWanted`), and every open port, published or not, is the listed instance's or that of a loop
on its way out (`PortsAreCounted`). `engine_concurrent` lets requests overlap; `apart`
becomes false at the first state in which two work on the service, and what depends on it is
checked up to there. After that the run follows two instances with an `up` and a `down` or two
`up`s at work, and two `down`s at once on one instance, but not two `down`s over two instances
(`OverlapBound`, which divides the states by three and a half): these share nothing but the map,
and the proofs have no such bound.

A Connected service listens on the address that is reserved for it (`ReachableIfApart`), whatever
the loop of its predecessor still does. Its hostname leads there, too, if no two keys hash to the same
address. Otherwise it need not: the loop that a `down` left in front of `dns.Add` has read its
address, another service may be given it meanwhile, and when the first comes up again on the next
address, the late `Add`, which ignores its context and overwrites, makes its name lead to the other
service. Keys rarely share an address (253 of them), and `README.md:182` promises each service one of
its own; this is a hazard in the list.

With fair goroutines `down` is answered (`StopCompletes`), cancelled loops return
(`CancelledLoopEnds`), a dead session is noticed (`DeadSessionNoticed`) and a Connected service drops
a session of the old network, also when a second change comes while the first is handled
(`StaleSessionDropped`). No session is killed that was not asked to end first, although the loop,
`stopService`, `DropSessions` and the context may all end the same one (`SessionsEndInOrder`).

One service is enough for TLC because services share only the map, whose entries are independent,
the counters of requests and the allocator, whose collisions `Addresses` has with four; the proofs are
for any number. Two instances are what a race between an old and a new loop needs, two callers what
a race of requests needs. With one service an address is always free, so the branch of `Start` in
which `Allocate` fails (`UpAllocate`) is there for the proofs and is not taken by TLC. The
concurrent run does not check deadlock: `down` between an `up`'s insert and its assignment of
`si.cancel` calls a nil function and ends the daemon (a hazard in the list), so the system may stop
there.

Seen from outside, a service is a tunnel (`TunnelsIfApart`): its port listens while it is Starting, it
becomes Connected and its port published in one step, the port is closed before the service is
retried or given up, and, once it is being stopped, it is only on its way to being forgotten, with no
port published. What a stop leaves behind may listen for a while, next to the tunnel of a new `up`,
and ends.

**Session.** When `done` is closed, or `Stop` returns whichever way, every process of the group has
ended or was sent SIGKILL (`NothingOutlives` in `Inv`), the capture is the end of stderr
(`CaptureIsLatest`), a session whose leader ended or that is stopped ends (`SessionEnds`), and all
of it is the session that the engine assumes (`ImplementsLife`). Writes of up to one byte more than
the ring cover every position and length at which it wraps.

**Bastion.** An answer from before an invalidation is never handed out after it
(`NoTargetComesBack`), the mutex is free when no lookup runs (`Inv`, `MutexIsHandedOn`), and when
bastions stop changing every service settles on one that is online (`SettlesOnOnline`).

**Backoff.** A session that was stable makes the count start over (`StableStartsOver`), and delays
are between the first one and the cap as long as the doubled delay fits a `time.Duration`, and again
after a stable session (`BoundedBeforeOverflow`). In between they are not: `backoff_overflow`.

**Addresses.** No service has two addresses, and whatever the daemon hands out has an alias
(`AddressHasAlias`): this needs that no more services are started than the range holds, and a
daemon that starts with an empty allocator, as it does. `Inv` also holds the reason, which section
4 explains and proves.

**Events.** The row ends up right when the service stays in a state and the others come to rest,
whatever was dropped and whichever seeds crossed (`RowCatchesUp`). The second condition is the
code's: `eventSeq` counts the events of every service, and any of them discards the snapshots under
way, so that services which keep moving may keep a row wrong. A full channel is drained
(`BusKeepsDraining`); a tray that is gone stops silencing the notifier although no event comes
(`SilenceEnds`). Buffers of one are full after one event, so every event meets both branches of every
send; of the seeds that `apply` starts one at a time is followed, next to the other two goroutines'.

**Proxy.** Stop returns although the peers of idle connections do nothing (`StopReturns`), and then
no goroutine runs and no socket is open or registered, also those that were being accepted or
dialled while Stop collected what it knew (`NothingSurvivesStop`). A connection that Stop does not
end is given up only when both directions are finished and both ends were told
(`BothDirectionsFinish`). Two connections are what it takes for one to be met by Stop while another
is accepted; they share nothing but the map and the WaitGroup. A stopped proxy does nothing more,
so deadlock is not checked.

**Network.** Once the host stays where it is, the connected sessions and the upstreams are those of
its network, whatever arrived while the follower was busy and however many listings failed
(`NetworkIsFollowed`), as far as addresses tell networks apart and the last discovery succeeded.
A long sleep is followed by new sessions (`SleepIsNoticed`), queries are answered
(`QueryIsAnswered`), and neither holepunch nor the stub that leads back to it is ever an upstream
(`Inv`). The host moves at any time and every listing may fail, the first ones included. The watcher
compares with its last successful listing, so a stay that no listing has shown leaves no trace: one
between two ticks, between `RefreshUpstream` and the first tick, or one on which the first listings
failed. `overlooked` remembers such a stay until the next event, and `NetworkIsFollowed` promises
nothing after it. Sessions are those that are Connected when `DropSessions` looks; what becomes of
one that is being opened is in `Engine`.

**Lifecycle.** However commands overlap, the DNS port lets one daemon serve (`PortHasHolder`).
While they do not, one process at most is past the PID check (`PidLockHolds`), the serving
daemon is the one its files lead to (`ServingIsReachable`), and what a crash left behind keeps
nobody from starting (`LeftoversDoNotBlock`). Every command ends, even if the daemon hangs
(`CommandEnds`). The condition `~overlapped` is needed: two `up` at once may both pass the check,
and the one that finds the port taken removes the other's PID file and socket on its way out. A
single `restart` may also end without a daemon, because it waits for the listener and not for the
process to be gone.

### Disagreements between code and text

- `engine_orphan`: of two overlapping `up` requests one loop is lost; no `down` reaches it,
  although Stop says that all running services are stopped.
- A session opened before a network change and committed after `DropSessions` looked stays
  published (`DropRead` takes Connected services only, and `StaleSessionDropped` is stated for
  these); README.md:192 promises a restart of every connected session.
- `backoff_overflow`: from attempt 34 on, after some 16 minutes of failed attempts, the doubled delay
  leaves the range of `time.Duration` before the cap is applied, and on amd64 there is no pause at
  all; README.md:26 promises a delay between one second and the cap.
- A first listing that fails masks a move made before the first that succeeds; watcher.go:81 says
  that a failed listing does not mask the next change.
- The late `dns.Add` of a stopped loop may give a service's name another service's address, when
  their keys hash to one; README.md:182 says that each service resolves to a unique one.

The first and the third are runs; the others hold of the models as described, and the properties
next to them say what remains.

### Fairness

Goroutines that can run do run (weak fairness of each loop, request, `stopService` and of the
follower); processes that were sent SIGKILL end; timers fire. Nobody has to send a request,
change the network, obey SIGTERM, end a session, read a stream, or crash. In `Bastion` the
two actions that take `r.mu` have strong fairness, because Go's mutex hands over to a waiter that
starves; AWS calls return, but may fail every time. In `Network` the watcher's ticks come, a listing of addresses succeeds now and then (strong fairness:
if it failed for ever nobody could notice a move), and exchanges with upstreams time out. In `Proxy`
a dial ends one way or the other, and a copy notices that its socket was closed or its peer has
ended; peers need do nothing. In `Lifecycle` handlers need not return (`Drained` is not fair), and
nobody makes `Accept` fail. In `Events` the goroutines that emit, the bus, the handlers' ends,
`periodicReseed` and the answering of seeds are fair; reading the stream and reconnecting are not.

## 4. What is proved

Every safety invariant and every action property that a passing run checks is also a theorem, for any
number of services, callers, instances, sessions, processes, bastions, octets, connections,
networks, daemons and commands, any capacity, delay and hash function:

| Module | Theorem | States |
|---|---|---|
| `EngineProofs` | `Invariance`, `TypesHold` | `IInv` and `TypeOK` of the engine |
| | `NothingIsLeft`, `LoopsEndLoudly`, `ConnectedCarries`, `StopIsFinal` | `StopLeavesNothing`, `LoudExit`, `LiveSessionIsPublished`, `CancelledNeverConnects` |
| | `ReferencesHold`, `SessionsAreAskedFirst`, `CancelledLoopsEnd` | `Inv`, `SessionsEndInOrder`, `CancelledLoopWindsDown` |
| | `SerialInvariance` | `SerialIfApart` |
| | `LoopsAreListed`, `NoGhostStaysListed` | `RunningIsListed`, `ListedIsWanted`, as long as requests keep apart |
| | `ConnectedResolves` | `ReachableIfApart` |
| | `EngineImplementsTunnels` | `TunnelsIfApart`: the whole refinement |
| | `ServicesKeepPromises` | `Promise` and `DownIsFinal` of `Tunnels`, of the engine whose requests always keep apart |
| `SessionProofs` | `GroupEnds`, `CaptureIsTheEnd` | `Inv`, `CaptureIsLatest` |
| | `StepsAreLife` | the safety part of `ImplementsLife` |
| | `StopsAreAnswered` | `StopEnds` of `SessionLife`, of a session |
| `BastionProofs` | `Consistency`, `InvalidateIsFinal` | `Inv`, `NoTargetComesBack` |
| `BackoffProofs` | `StableResets`, `DelayIsBounded` | `StableStartsOver`, `BoundedBeforeOverflow` |
| `AddressesProofs` | `AddressesExist` | `Inv` |
| `ProxyProofs` | `Invariance`, `StopIsThorough`, `CopiesComplete` | `IInv`, `NothingSurvivesStop`, `BothDirectionsFinish` |
| `NetworkProofs` | `NothingLoops` | `Inv` |
| `LifecycleProofs` | `Invariance`, `OneDaemon`, `DaemonIsFound`, `StartsAlone` | `IInv`, `PidLockHolds`, `ServingIsReachable`, `LeftoversDoNotBlock` |

The only assumptions are those on the constants, named `...Assumption` in the modules that declare
them, which TLC evaluates in every run; what holds only while requests keep apart says so by `apart`.

*Engine, however requests overlap.* `StopLeavesNothing` speaks of finished loops and is not
inductive. `IInv` says who is responsible for each thing at every moment: an open listener belongs
to `connect`, to the loop, to a `stopService` that took it, or is published, and then either the
instance is not cancelled or a `stopService` has yet to look (`ProxyHasHolder`); a session that was
not killed belongs to a loop that is between starting and ending it (`SessionHasLoop`); the state of
an instance that is not cancelled is the one its loop's place implies (`StateFollowsLoop`). The
critical section in which `connect` commits only if the context is alive is what makes it inductive.

*Engine: sessions and cancelled loops.* `Inv` adds to `IInv` who refers to which session: everyone
to one of its own instance's (`SessionsAreOwn`), the loop to one wherever it works with one
(`LoopHasSession`), and whoever waits to kill one has asked it to end (`WaiterHasAsked`), which no
later step undoes, because a name is not given to a new session while anybody refers to it. Most
steps hand out no other session than they find and ask or wait for none (lemma
`HarmlessKeepsRefs`); those that start, ask or wait are treated one by one. `SessionsEndInOrder`
follows step by step. `CancelledLoopWindsDown` counts: by `StepsLeft` each step of a cancelled loop
leads nearer to its end, and since nobody cancels a loop that has not started
(`CancelledHasStarted`) no `Start` puts it further away. It is what `CancelledLoopEnds` needs beside
fairness; and what a cancelled loop waits for, a session of its own, is there to be waited for.

*Engine, requests that keep apart.* `RequestsKeepApart` says that no two callers work on the same
service at once, where a caller works on an instance that it is creating, or is stopping and
whose hostname it has yet to remove. `apart` remembers that it has held so far. It asks nothing of
requests for other services, holds trivially for a single caller, and `engine_orphan` shows that the
conclusions fail without it. Loops, sessions and the follower still interleave with the requests in
every way, among them the loops of instances stopped earlier. `Serial` adds to `IInv` what the map of
instances says: an instance is listed under its service (`ListedUnderItsKey`); the place of one that
`Start` is creating is free until its insertion (`NewHasItsPlace`), that of one being stopped is its
own until its deletion and free from then on (`StoppedHasItsPlace`), so neither can hide a running
loop; whoever holds a listener is listed or left behind (`PortsAreCounted`). Of addresses it says that
a loop that nobody stopped works with the one its service holds (`KeepsAddress`), since `Stop`
releases only those of cancelled instances, and a late `Allocate` for the same key finds the same
address; and, if no two keys share a home, that no other address is ever written for a service
(`RecordsKeepHome`), so that a late `Add` writes what is there.

For `Tunnels` each action is mapped to an action of the tunnel of its service: the loop's while its
instance is alive to `Begin`, `Listen`, `Connect`, `Unpublish`, `Shut`, `Retry` and `Expire`; a
cancelled one's, and `stopService`'s, to `Wind`, `Unpublish`, `Listen` or `Shut`; those of a loop that
is not listed any more to `Linger`; the deletion to `Forget`, which takes what is still there into
`old`. What `Tunnels` promises by itself, `Promise` and `DownIsFinal`, is proved of its own steps and
carried over to the engine (`ServicesKeepPromises`): the published port of a service that is up leads
to a Connected service, and one that only listens to one that is Starting or Connected; a service that
is taken down neither connects nor publishes a port again before it has been forgotten.

*Session.* `NothingOutlives` speaks of the end; `GroupWindsDown` says on the way there that aws has
exited and is reaped once `cmd.Wait` is past; that whatever the group still has has had its SIGKILL
when the wait goroutine is about to close `done`, and for a `Stop` that sent one; that a `Stop`
which saw the end has seen `done` closed; and that nothing was running when a signal of `Stop`
failed. For the ring the proof relates places to ages: `Slot` says at which index the i-th oldest
byte lies, `Holds` that these bytes are the latest ones written, and a write moves every slot by its length; writes as long as the ring or longer are a case of their own.
`StepsAreLife` maps every step to one of `SessionLife`'s or to a stutter, so that what
`SessionLife` promises, `StopEnds`, holds of the session with its processes and signals.

*Bastion.* The mutex is held for the whole lookup, so no invalidation falls between the answer
and the write to the cache; terminated hosts stay terminated.

*Backoff.* A session is never up for longer than since it was connected (`UpSinceConnected`), so
one that was stable finds `ShouldReset` true. The doubled delay never falls below the first one, and
leaves the range of `time.Duration` from `MaxAttempt` on.

*Addresses.* Setup makes aliases for the octets its own linear probing has filled; the daemon probes
the same hashes in another order, with releases in between. Fix an octet p without an alias and
measure the circle backwards from it. Setup never passes a free octet (`SetupPassesNoFreeOctet`),
hence behind p, from any distance on, at least as many keys hash as there are aliases. The invariant
for the daemon, `AliasesSuffice`, is that this surplus always covers the keys that were pushed across
that distance. When one more key is pushed across it, all octets from the key's hash to there are
taken; extend them backwards to the first free octet: the surplus there bounds what entered the
stretch, each other octet of the stretch belongs to a key of its own, and the new key is one more
(lemma `PushedOnAgain`). At distance one before p the surplus is none, because there are as many
aliases as keys, so no key is ever pushed onto p.

*Proxy.* `IInv` says for each connection and each of its goroutines who tracks it, who closes it
and what `Stop` has yet to do about it. `SocketsStayOpen` says that, as
long as nobody stops the proxy, a handler's sockets are open until it closes them itself;
`CopiesEnded`, that a direction which is not copied any more had reached its end; `StopOrder`, that
the listener is closed before the connections and that `Stop` waits before it returns.

*Network.* The filter of `DiscoverFromConfig` is a recursive function, whose values are found to be
lists without holepunch's own address; the stub is in none of the files that networks hand out, and
the file that names it is not read when systemd-resolved keeps another. The inductive form (`Clean`)
types the resolver's and every query's list by these addresses, and never empty.

*Lifecycle.* The port's part needs nothing about commands. For the rest the invariant says that,
while commands do not overlap, whoever starts is awaited by the one command there is; hence
nobody else starts, listens or cleans up meanwhile, the PID file names whoever is past its check,
and a command removes files only after it has seen the process end that they name, or has sent it
SIGKILL. A process with a SIGKILL pending still counts where the port is concerned, and nowhere else.

*Induction over data.* The induction theorems of the library take a predicate as a parameter, which
the provers cannot instantiate. Where a recursive function is involved (`WithoutSelf`, `Doubled`),
and for the least element that `Probed` chooses, the proofs take the least number at which the
statement would fail instead (lemma `LeastElement`, from the library's `WFMin`).

Only model-checked: everything under fairness, that is all `~>` and `<>[]` properties and the
fairness that `ImplementsLife` takes over from `SessionLife`; they need ENABLED, which the prover
does not reason about. `Events` has liveness properties only.

## 5. What is not modelled

- The signing proxy, which relays HTTP requests and signs them; net/http bounds its Stop.
- The notifier's own filter (a window of 30 s per profile), the tray's menu, its
  expired-credentials mark and the login terminal.
- How `classify` tells the errors of a session apart: the engine may meet either.
- The daemon's last cancel, after its Stop (section 2).
- Which process listens on a local port between `freePort` and aws.
- Configuration, hosts file manager, engine state file, logs and log rotation, platform setup.

## 6. Plan

Done so far, in this order: `ServiceState`, `Engine` with its properties and proofs, `Session`,
`Bastion`, `Backoff`, `Addresses`, `Events`, `Lifecycle`; then `Proxy`, `Network`, `SessionLife`
and `Tunnels` with the two refinements, and the handlers of the tray's connections.

Proved in this order: the engine's `IInv`, `Bastion`, `Lifecycle`; `Proxy`, `Session`, the engine
whose requests keep apart and its refinement of `Tunnels`, `Network`, `Addresses`, `Backoff`; the
references to sessions with what follows from them, and the promises of `Tunnels` and `SessionLife`.

What is left is out of the prover's reach: liveness, and with it everything that `Events` promises.
A prover that reasons about ENABLED could complete `CancelledLoopEnds` from `CancelledLoopWindsDown`
and `LoopHasSession`.
