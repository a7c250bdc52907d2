------------------------------ MODULE Bastion ------------------------------
(* How services whose profiles share a target_asg find their bastion, and find *)
(* the next one when it is rotated out (internal/bastion/asg.go and its use by *)
(* the service loops of internal/engine/engine.go).  Stops and expired         *)
(* credentials are Engine's subject, the length of the pauses is Backoff's.    *)
(*                                                                             *)
(* A bastion is terminated for good; a bastion in service may come online at   *)
(* Systems Manager and go offline again.  SSM answers TargetNotConnected to a  *)
(* session with a bastion that is not online.                                  *)
EXTENDS FiniteSets

CONSTANTS Services, Bastions, NoBastion, Nobody

ASSUME BastionAssumption == NoBastion \notin Bastions /\ Nobody \notin Services

VARIABLES
  host,    \* a bastion: new, in service, online or terminated
  cache,   \* r.cache at the key the services share
  holder,  \* who holds r.mu across its AWS calls
  listed,  \* the in-service instances the holder was given
  dead,    \* bastions that were terminated at the last Invalidate (history)
  pc,      \* where a service loop is
  target   \* what Resolve returned to its connect, until that session is over

cacheVars == <<cache, holder, listed, dead>>
vars == <<host, cacheVars, pc, target>>

Hosts == {"new", "inservice", "online", "terminated"}
Are(kinds) == {b \in Bastions : host[b] \in kinds}
Online == Are({"online"})
InService == Are({"inservice", "online"})

TypeOK ==
  /\ host \in [Bastions -> Hosts]
  /\ cache \in Bastions \cup {NoBastion} /\ holder \in Services \cup {Nobody}
  /\ listed \subseteq Bastions /\ dead \subseteq Bastions
  /\ pc \in [Services -> {"resolve", "group", "find", "store", "start", "up",
                          "refused", "invalidate", "pause"}]
  /\ target \in [Services -> Bastions \cup {NoBastion}]

Init ==
  /\ host = [b \in Bastions |-> "new"]
  /\ cache = NoBastion /\ holder = Nobody /\ listed = {} /\ dead = {}
  /\ pc = [s \in Services |-> "resolve"] /\ target = [s \in Services |-> NoBastion]

Goto(s, where) == pc' = [pc EXCEPT ![s] = where]
SetTarget(s, b) == target' = [target EXCEPT ![s] = b]

\* Auto Scaling and Systems Manager.
HostChanges(b) ==
  /\ \E to \in Hosts :
       /\ <<host[b], to>> \in {<<"new", "inservice">>, <<"inservice", "online">>,
                               <<"online", "inservice">>, <<"inservice", "terminated">>,
                               <<"online", "terminated">>}
       /\ host' = [host EXCEPT ![b] = to]
  /\ UNCHANGED <<cacheVars, pc, target>>

-----------------------------------------------------------------------------
(* Resolve: r.mu stays held across the two AWS calls. *)

ResolveCached(s) ==
  /\ pc[s] = "resolve" /\ holder = Nobody /\ cache # NoBastion
  /\ SetTarget(s, cache)
  /\ Goto(s, "start")
  /\ UNCHANGED <<host, cacheVars>>

ResolveCold(s) ==
  /\ pc[s] = "resolve" /\ holder = Nobody /\ cache = NoBastion
  /\ holder' = s
  /\ Goto(s, "group")
  /\ UNCHANGED <<host, cache, listed, dead, target>>

\* DescribeAutoScalingGroups.
ListGroup(s) ==
  /\ pc[s] = "group" /\ InService # {}
  /\ listed' = InService
  /\ Goto(s, "find")
  /\ UNCHANGED <<host, cache, holder, dead, target>>

\* DescribeInstanceInformation: a listed instance that is online when SSM answers.
FindOnline(s) ==
  /\ pc[s] = "find"
  /\ \E b \in listed \cap Online : SetTarget(s, b)
  /\ listed' = {}
  /\ Goto(s, "store")
  /\ UNCHANGED <<host, cache, holder, dead>>

\* The answer has arrived.
StoreTarget(s) ==
  /\ pc[s] = "store"
  /\ cache' = target[s]
  /\ holder' = Nobody
  /\ Goto(s, "start")
  /\ UNCHANGED <<host, listed, dead, target>>

\* Wrong on purpose: the error path keeps the mutex.
LookupFailsLocked(s) ==
  /\ pc[s] \in {"group", "find"}
  /\ listed' = {}
  /\ Goto(s, "pause")
  /\ UNCHANGED <<host, cache, holder, dead, target>>

\* An AWS call fails, the group has no instance in service or none of them is online.
LookupFails(s) ==
  /\ pc[s] \in {"group", "find"}
  /\ holder' = Nobody /\ listed' = {}
  /\ Goto(s, "pause")
  /\ UNCHANGED <<host, cache, dead, target>>

-----------------------------------------------------------------------------
(* The session, as far as its target matters. *)

\* connect commits and shows Connected, whatever SSM will say of the target.
StartSession(s) ==
  /\ pc[s] = "start"
  /\ Goto(s, IF target[s] \in Online THEN "up" ELSE "refused")
  /\ UNCHANGED <<host, cacheVars, target>>

Over(s, next) ==
  /\ SetTarget(s, NoBastion)
  /\ Goto(s, next)
  /\ UNCHANGED <<host, cacheVars>>

\* Starting the session or its listener fails.
StartFails(s) == pc[s] = "start" /\ Over(s, "pause")

SessionEnds(s) == pc[s] = "up" /\ Over(s, "pause")

\* Wait returns ErrTargetNotConnected.
TargetNotConnected(s) == pc[s] = "refused" /\ Over(s, "invalidate")

-----------------------------------------------------------------------------
(* Before the next try. *)

EmptyCache(s) ==
  /\ cache' = NoBastion
  /\ dead' = Are({"terminated"})
  /\ Goto(s, "pause")
  /\ UNCHANGED <<host, holder, listed, target>>

\* Wrong on purpose: the cached target stays.
InvalidateForgotten(s) ==
  /\ pc[s] = "invalidate" /\ holder = Nobody
  /\ Goto(s, "pause")
  /\ UNCHANGED <<host, cacheVars, target>>

\* Wrong on purpose: the cache is emptied while a lookup is in progress.
InvalidateUnlocked(s) == pc[s] = "invalidate" /\ EmptyCache(s)

\* Invalidate waits for r.mu.
Invalidate(s) == pc[s] = "invalidate" /\ holder = Nobody /\ EmptyCache(s)

\* The backoff delay or targetRotationRetryDelay is over.
PauseOver(s) ==
  /\ pc[s] = "pause"
  /\ Goto(s, "resolve")
  /\ UNCHANGED <<host, cacheVars, target>>

-----------------------------------------------------------------------------

Resolve(s) == ResolveCached(s) \/ ResolveCold(s)
Lookup(s) == ListGroup(s) \/ FindOnline(s) \/ StoreTarget(s) \/ LookupFails(s)
LoopStep(s) ==
  StartSession(s) \/ StartFails(s) \/ TargetNotConnected(s) \/ PauseOver(s)

Next ==
  \/ \E b \in Bastions : HostChanges(b)
  \/ \E s \in Services :
       Resolve(s) \/ Lookup(s) \/ LoopStep(s) \/ SessionEnds(s) \/ Invalidate(s)

\* AWS calls return, pauses end, a session dies with its bastion, and a goroutine that waits
\* for r.mu gets it in the end (Go's mutex hands over to the longest waiter).
Spec ==
  /\ Init /\ [][Next]_vars
  /\ \A s \in Services :
       /\ SF_vars(Resolve(s)) /\ SF_vars(Invalidate(s))
       /\ WF_vars(Lookup(s)) /\ WF_vars(LoopStep(s))
       /\ WF_vars(target[s] \notin Online /\ SessionEnds(s))

-----------------------------------------------------------------------------

\* The mutex is held exactly while a lookup is in progress, by the service that looks up, and
\* what it finds or the cache holds was not terminated when the cache was last emptied.
HolderLooksUp == \A s \in Services : pc[s] \in {"group", "find", "store"} <=> holder = s
FoundIsFresh ==
  /\ dead \subseteq Are({"terminated"})
  /\ cache \notin dead
  /\ \A s \in Services : pc[s] = "store" => target[s] \in Bastions \ dead

Inv == TypeOK /\ HolderLooksUp /\ FoundIsFresh

\* "Invalidate cannot land between lookup and cache write": once the cache was emptied no
\* service is given a bastion that was already terminated then, by whichever lookup of
\* whichever service.
NoTargetComesBack ==
  [][\A s \in Services : (pc[s] \in {"resolve", "store"} /\ pc'[s] = "start")
        => target'[s] \notin dead]_vars

\* A rotation ends: when the group settles on one online bastion, services stop opening
\* sessions to any other, through the cache or otherwise.
SettlesOnOnline ==
  \A b \in Bastions :
    <>[](Online = {b}) => <>[](\A s \in Services : pc[s] \in {"up", "refused"} => target[s] = b)

\* r.mu is never lost: a service that wants a target, or wants to drop it, is answered.
MutexIsHandedOn ==
  \A s \in Services :
    /\ pc[s] = "resolve" ~> pc[s] # "resolve"
    /\ pc[s] = "invalidate" ~> pc[s] # "invalidate"

=============================================================================
