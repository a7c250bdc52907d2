------------------------------- MODULE Network -------------------------------
(* What the daemon does about the host's network: the watcher's ticks          *)
(* (internal/netwatch/watcher.go), the follower that re-reads the DNS upstreams *)
(* and drops sessions (internal/daemon/network.go), the discovery of upstreams  *)
(* and the answering of queries (internal/resolver).                            *)
(*                                                                              *)
(* Time is counted in whole check intervals.  Two networks may give the host    *)
(* the same addresses, and then nobody can tell.                                *)
EXTENDS Naturals, Sequences, Functions

CONSTANTS
  Networks,   \* the networks the host moves between
  AddrsOf,    \* the host's non-loopback IPv4 addresses on a network
  ServersOf,  \* the nameservers that a network hands out, in order
  Self, Stub, \* holepunch's own resolver, and the stub of systemd-resolved
  Handlers,   \* goroutines that answer queries
  Hostnames,  \* names that clients ask for
  NoAddrs     \* lastAddrs before the first listing

ASSUME NetworkAssumption ==
  /\ \A n \in Networks : NoAddrs # AddrsOf[n]
  /\ Self # Stub
  /\ \A n \in Networks : /\ ServersOf[n] \in Seq(Range(ServersOf[n]))
                        /\ Stub \notin Range(ServersOf[n])

Addresses == {AddrsOf[n] : n \in Networks}
Nameservers == UNION {Range(ServersOf[n]) : n \in Networks} \cup {Self, Stub}
LongSleep == 3  \* whole intervals: the first count that is more than twice the interval

VARIABLES
  network,    \* where the host is
  resolved,   \* systemd-resolved manages resolv.conf
  ticked,     \* Watcher.lastTick is set
  elapsed,    \* intervals since the watcher's last tick
  lastAddrs,  \* Watcher.lastAddrs
  event,      \* the watcher's channel holds an event
  follower,   \* where Follow is
  upstream,   \* Resolver.upstream
  failed,     \* the latest attempt to read the upstreams failed
  openedOn,   \* the network on which the oldest connected session was opened
  slept,      \* connected sessions are from before a long sleep
  overlooked, \* the host left a network that no listing had shown, and no event came since
              \* (history)
  records,    \* registered hostnames
  query       \* a handler's query, and the upstreams it may still try

watchVars == <<ticked, elapsed, lastAddrs, event, overlooked>>
sessionVars == <<openedOn, slept>>
vars == <<network, resolved, watchVars, follower, upstream, failed, sessionVars, records,
          query>>

Replies == {"address", "empty", "forwarded", "servfail"}
NoQuery == [at |-> "idle"]
Asked == [at : {"asked"}, name : Hostnames]
Forwarding == [at : {"forward"}, left : Seq(Nameservers) \ {<<>>}]
Answered == [at : {"answered"}, reply : Replies]

TypeOK ==
  /\ network \in Networks /\ resolved \in BOOLEAN
  /\ ticked \in BOOLEAN /\ elapsed \in 0..LongSleep /\ overlooked \in BOOLEAN
  /\ lastAddrs \in Addresses \cup {NoAddrs}
  /\ event \in BOOLEAN
  /\ follower \in {"idle", "refresh", "drop", "dropping"}
  /\ upstream \in Seq(Nameservers) /\ failed \in BOOLEAN
  /\ openedOn \in Networks /\ slept \in BOOLEAN
  /\ records \subseteq Hostnames
  /\ query \in [Handlers -> {NoQuery} \cup Asked \cup Forwarding \cup Answered]

-----------------------------------------------------------------------------
(* discover.go *)

\* /run/systemd/resolve/resolv.conf, if there is one, and /etc/resolv.conf.
ResolvConfs(n) == IF resolved THEN <<ServersOf[n], <<Stub>>>> ELSE <<ServersOf[n]>>

\* Wrong on purpose: /etc/resolv.conf is what programs are expected to read.
EtcFirst(n) == ResolvConfs(n)[Len(ResolvConfs(n))]

\* discoverFromFirst: the first file there is.
FirstConf(n) == Head(ResolvConfs(n))

\* Its loop: the nameservers of a file in their order, without our own address.
WithoutSelf(conf) ==
  LET kept[i \in 0..Len(conf)] ==
        IF i = 0 THEN <<>>
        ELSE IF conf[i] = Self THEN kept[i - 1] ELSE Append(kept[i - 1], conf[i])
  IN kept[Len(conf)]

\* DiscoverFromConfig.
Discover(n) == WithoutSelf(FirstConf(n))

\* The daemon has started its server; RefreshUpstream has run once.
Init ==
  /\ network \in Networks /\ resolved \in BOOLEAN
  /\ ticked = FALSE /\ elapsed = 0 /\ lastAddrs = NoAddrs /\ event = FALSE
  /\ overlooked = FALSE
  /\ follower = "idle"
  /\ \/ upstream = Discover(network) /\ failed = FALSE
     \/ upstream = <<>> /\ failed = TRUE
  /\ openedOn = network /\ slept = FALSE
  /\ records = {} /\ query = [h \in Handlers |-> NoQuery]

-----------------------------------------------------------------------------
(* The host. *)

\* It moves at any time.  Nothing in the code notices a stay that no listing has shown.
Move(n) ==
  /\ n # network
  /\ network' = n
  /\ overlooked' = (overlooked \/ lastAddrs # AddrsOf[network])
  /\ UNCHANGED <<resolved, ticked, elapsed, lastAddrs, event, follower, upstream, failed,
                 sessionVars, records, query>>

\* An interval passes; the time before the first tick is nowhere counted.
TimePasses ==
  /\ ticked /\ elapsed < LongSleep
  /\ elapsed' = elapsed + 1
  /\ slept' = (slept \/ elapsed' = LongSleep)
  /\ UNCHANGED <<network, resolved, ticked, lastAddrs, event, overlooked, follower, upstream,
                 failed, openedOn, records, query>>

-----------------------------------------------------------------------------
(* Watcher.tick.  A send to a full channel is left out: the event that is      *)
(* there stands for both.                                                      *)

\* The first tick, or the next one when an interval has passed.
TickDue == ~ticked \/ elapsed > 0

\* An event goes out, for a sleep or for other addresses than the known ones.
Notify(reason) ==
  /\ event' = (event \/ reason)
  /\ overlooked' = (overlooked /\ ~reason)

\* Wrong on purpose: a failed listing counts as no addresses known.
TickForgets ==
  /\ TickDue
  /\ ticked' = TRUE /\ elapsed' = 0
  /\ lastAddrs' \in {AddrsOf[network], NoAddrs}
  /\ Notify(elapsed >= LongSleep
              \/ (lastAddrs' # NoAddrs /\ lastAddrs \notin {lastAddrs', NoAddrs}))
  /\ UNCHANGED <<network, resolved, follower, upstream, failed, sessionVars, records, query>>

\* The listing of addresses succeeds, or fails and leaves the known ones, of which there are
\* none before the first that succeeds.
Tick ==
  /\ TickDue
  /\ ticked' = TRUE /\ elapsed' = 0
  /\ lastAddrs' \in {AddrsOf[network], lastAddrs}
  /\ Notify(elapsed >= LongSleep \/ lastAddrs \notin {lastAddrs', NoAddrs})
  /\ UNCHANGED <<network, resolved, follower, upstream, failed, sessionVars, records, query>>

-----------------------------------------------------------------------------
(* NetworkFollower. *)

FollowEvent ==
  /\ follower = "idle" /\ event
  /\ event' = FALSE
  /\ follower' = "refresh"
  /\ UNCHANGED <<network, resolved, ticked, elapsed, lastAddrs, overlooked, upstream, failed,
                 sessionVars, records, query>>

\* RefreshUpstream; the upstreams stay when they cannot be read.
FollowRefresh ==
  /\ follower = "refresh"
  /\ \/ upstream' = Discover(network) /\ failed' = FALSE
     \/ upstream' = upstream /\ failed' = TRUE
  /\ follower' = "drop"
  /\ UNCHANGED <<network, resolved, watchVars, sessionVars, records, query>>

\* DropSessions reads which sessions are connected; their services reconnect from here on.
FollowDrop ==
  /\ follower = "drop"
  /\ openedOn' = network /\ slept' = FALSE
  /\ follower' = "dropping"
  /\ UNCHANGED <<network, resolved, watchVars, upstream, failed, records, query>>

\* Wrong on purpose: what happened while the sessions were dropped counts as handled.
FollowDrains ==
  /\ follower = "dropping"
  /\ follower' = "idle"
  /\ event' = FALSE
  /\ UNCHANGED <<network, resolved, ticked, elapsed, lastAddrs, overlooked, upstream, failed,
                 sessionVars, records, query>>

\* DropSessions has waited for the sessions it stopped.
FollowDropped ==
  /\ follower = "dropping"
  /\ follower' = "idle"
  /\ UNCHANGED <<network, resolved, watchVars, upstream, failed, sessionVars, records, query>>

FollowerStep == FollowEvent \/ FollowRefresh \/ FollowDrop \/ FollowDropped

-----------------------------------------------------------------------------
(* The resolver. *)

\* Register and Unregister, for a service that starts or stops.
ChangeRecord(name) ==
  /\ records' = IF name \in records THEN records \ {name} ELSE records \cup {name}
  /\ UNCHANGED <<network, resolved, watchVars, follower, upstream, failed, sessionVars, query>>

Ask(h, name) ==
  /\ query[h] = NoQuery
  /\ query' = [query EXCEPT ![h] = [at |-> "asked", name |-> name]]
  /\ UNCHANGED <<network, resolved, watchVars, follower, upstream, failed, sessionVars, records>>

Reply(h, reply) == query' = [query EXCEPT ![h] = [at |-> "answered", reply |-> reply]]

\* handleDNS reads the record and the upstreams in one critical section.
Lookup(h) ==
  /\ query[h].at = "asked"
  /\ IF query[h].name \in records THEN Reply(h, "address")
     ELSE IF upstream = <<>> THEN Reply(h, "empty")
     ELSE query' = [query EXCEPT ![h] = [at |-> "forward", left |-> upstream]]
  /\ UNCHANGED <<network, resolved, watchVars, follower, upstream, failed, sessionVars, records>>

\* Wrong on purpose: when every exchange failed the client gets no reply.
ForwardGivesUp(h) ==
  /\ query[h].at = "forward"
  /\ \/ Reply(h, "forwarded")
     \/ IF Len(query[h].left) = 1 THEN query' = [query EXCEPT ![h] = NoQuery]
        ELSE query' = [query EXCEPT ![h].left = Tail(@)]
  /\ UNCHANGED <<network, resolved, watchVars, follower, upstream, failed, sessionVars, records>>

\* forward: an exchange succeeds, or fails within the client's timeout and the next server is
\* tried.
Forward(h) ==
  /\ query[h].at = "forward"
  /\ \/ Reply(h, "forwarded")
     \/ IF Len(query[h].left) = 1 THEN Reply(h, "servfail")
        ELSE query' = [query EXCEPT ![h].left = Tail(@)]
  /\ UNCHANGED <<network, resolved, watchVars, follower, upstream, failed, sessionVars, records>>

\* The reply is written and the handler's goroutine ends.
Sent(h) ==
  /\ query[h].at = "answered"
  /\ query' = [query EXCEPT ![h] = NoQuery]
  /\ UNCHANGED <<network, resolved, watchVars, follower, upstream, failed, sessionVars, records>>

HandlerStep(h) == Lookup(h) \/ Forward(h) \/ Sent(h)

-----------------------------------------------------------------------------

Next ==
  \/ \E n \in Networks : Move(n)
  \/ TimePasses \/ Tick \/ FollowerStep
  \/ \E h \in Handlers : HandlerStep(h) \/ \E name \in Hostnames : Ask(h, name)
  \/ \E name \in Hostnames : ChangeRecord(name)

\* The ticker ticks and a listing succeeds now and then; DropSessions returns (StopCompletes'
\* argument); exchanges time out.
Spec ==
  /\ Init /\ [][Next]_vars
  /\ WF_vars(TimePasses) /\ WF_vars(Tick)
  /\ SF_vars(Tick /\ lastAddrs' = AddrsOf[network])
  /\ WF_vars(FollowerStep)
  /\ \A h \in Handlers : WF_vars(HandlerStep(h))

-----------------------------------------------------------------------------

\* "Forwarding to ourselves would loop": neither holepunch's own address nor the stub that
\* routes the configured domains back to it ever is an upstream, or what a query may try.
NoForwardLoop ==
  /\ {Self, Stub} \cap Range(upstream) = {}
  /\ \A h \in Handlers : query[h].at = "forward" => {Self, Stub} \cap Range(query[h].left) = {}

Inv ==
  /\ TypeOK
  /\ NoForwardLoop

SameToWatcher(m, n) == AddrsOf[m] = AddrsOf[n]

\* "Keeps what depends on the network current across network events": once the host stays
\* where it is, sessions and upstreams come to be those of its network, as far as addresses
\* tell, whatever came in while an earlier event was handled and however many listings failed
\* in between; upstreams only if the last attempt could read them.  Not so after a stay that no
\* listing has shown, and there the code has no remedy before the next event: a host that moves
\* before the first listing has succeeded, which a failed first listing makes likely, is not
\* noticed to have moved.
NetworkIsFollowed ==
  <>[][FALSE]_network =>
    <>[](\/ overlooked
         \/ /\ SameToWatcher(openedOn, network)
            /\ failed \/ \E n \in Networks : SameToWatcher(n, network) /\ upstream = Discover(n))

\* After a sleep of more than two intervals the sessions from before it are dropped, listings
\* or no listings.
SleepIsNoticed == []<>~slept

\* Every query is answered, while records and upstreams change and upstreams fail.
QueryIsAnswered == \A h \in Handlers : query[h].at = "asked" ~> query[h].at = "answered"

=============================================================================
