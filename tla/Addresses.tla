----------------------------- MODULE Addresses -----------------------------
(* The loopback addresses of the services (internal/ip/allocator.go): setup    *)
(* (cmd/setup.go) allocates one for every service of the configuration and     *)
(* makes an alias of each; the daemon, with an allocator of its own, allocates *)
(* and releases them as services come and go.  Hash is any function: it stands *)
(* for FNV-1a modulo the range, which the keys may collide under in any way.   *)
EXTENDS Integers, FiniteSets

CONSTANTS Keys, MinOctet, MaxOctet, Free

Octets == MinOctet..MaxOctet

ASSUME AddressAssumption ==
  /\ MinOctet \in Nat /\ MaxOctet \in Nat /\ MinOctet <= MaxOctet
  /\ IsFiniteSet(Keys) /\ Free \notin Keys
  /\ Cardinality(Keys) <= Cardinality(Octets)   \* otherwise setup fails and nothing is aliased

VARIABLES
  hash,      \* hashToOctet
  assigned,  \* a.assigned: who owns an octet
  aliases,   \* octets setup has made an alias for
  phase      \* setup, or daemon: which process the allocator is in

vars == <<hash, assigned, aliases, phase>>

OwnedBy(k) == {o \in Octets : assigned[o] = k}
FreeOctets == OwnedBy(Free)
Taken == Octets \ FreeOctets
Unassigned == [o \in Octets |-> Free]

TypeOK ==
  /\ hash \in [Keys -> Octets] /\ assigned \in [Octets -> Keys \cup {Free}]
  /\ aliases \subseteq Octets /\ phase \in {"setup", "daemon"}

Init ==
  /\ hash \in [Keys -> Octets]
  /\ assigned = Unassigned /\ aliases = {} /\ phase = "setup"

\* How many nextOctet steps lead from one octet to another.
Distance(from, to) == (to - from) % Cardinality(Octets)

\* Where the probe for a key stops: the first free octet from its hash on, around the end.
Probed(k) ==
  CHOOSE o \in FreeOctets :
    \A f \in FreeOctets : Distance(hash[k], o) <= Distance(hash[k], f)

\* Allocate: a key keeps what it has; a full range is an error and changes nothing.
Allocate(k) ==
  /\ OwnedBy(k) = {} /\ FreeOctets # {}
  /\ assigned' = [assigned EXCEPT ![Probed(k)] = k]

Release(k) ==
  /\ OwnedBy(k) # {}
  /\ assigned' = [o \in Octets |-> IF o = CHOOSE p \in OwnedBy(k) : TRUE
                                   THEN Free ELSE assigned[o]]

-----------------------------------------------------------------------------

\* runSetup, in the order in which the map yields the services.
SetupAllocates(k) ==
  /\ phase = "setup"
  /\ Allocate(k)
  /\ UNCHANGED <<hash, aliases, phase>>

\* Wrong on purpose: every key is looked up in an allocator of its own.
SetupDoneByHash ==
  /\ phase = "setup" /\ \A k \in Keys : OwnedBy(k) # {}
  /\ aliases' = {hash[k] : k \in Keys}
  /\ assigned' = Unassigned
  /\ phase' = "daemon"
  /\ UNCHANGED hash

\* platformSetup, once every service has its address; the daemon's allocator starts empty.
SetupDone ==
  /\ phase = "setup" /\ \A k \in Keys : OwnedBy(k) # {}
  /\ aliases' = Taken
  /\ assigned' = Unassigned
  /\ phase' = "daemon"
  /\ UNCHANGED hash

DaemonAllocates(k) == phase = "daemon" /\ Allocate(k) /\ UNCHANGED <<hash, aliases, phase>>
DaemonReleases(k) == phase = "daemon" /\ Release(k) /\ UNCHANGED <<hash, aliases, phase>>

Next ==
  \/ \E k \in Keys : SetupAllocates(k) \/ DaemonAllocates(k) \/ DaemonReleases(k)
  \/ SetupDone

Spec == Init /\ [][Next]_vars

-----------------------------------------------------------------------------

\* A service never holds two addresses: Release would free only one of them, and the
\* service would answer at another than the one its DNS record names.
OneAddressEach == \A o1, o2 \in Octets : assigned[o1] = assigned[o2] => o1 = o2 \/ assigned[o1] = Free

\* Whatever the order in which services come and go, the daemon hands out only addresses
\* that setup made an alias for: on any other the listener could not be opened.
AddressHasAlias == phase = "daemon" => Taken \subseteq aliases

\* No key that holds an octet was pushed past octet p on the way to it.
NotPassed(p) == \A o \in Taken : Distance(o, p) <= Distance(hash[assigned[o]], p)

\* What lies d steps or more before octet p: aliases, keys by their hash, and those of them
\* that were pushed on to less than d steps before it.
AliasesBehind(p, d) == {o \in aliases : Distance(o, p) >= d}
KeysBehind(p, d) == {k \in Keys : Distance(hash[k], p) >= d}
PushedOn(p, d) == {k \in KeysBehind(p, d) : \E o \in OwnedBy(k) : Distance(o, p) < d}

\* Why setup's aliases are enough.  Seen from an octet that was left free, every stretch of
\* aliases behind it has as many keys of its own as it has aliases and keys pushed out of it;
\* a service that came and went in another order than in setup does not change that.
SetupPassesNoFreeOctet == phase = "setup" => \A p \in FreeOctets : NotPassed(p)
AliasesSuffice ==
  phase = "daemon" =>
    /\ Cardinality(Keys) <= Cardinality(aliases)
    /\ \A p \in Octets \ aliases :
         /\ NotPassed(p)
         /\ \A d \in 1..Cardinality(Octets) :
              Cardinality(AliasesBehind(p, d)) + Cardinality(PushedOn(p, d))
                <= Cardinality(KeysBehind(p, d))

\* Every service answers where its record points, on an address that exists.
Inv ==
  /\ TypeOK /\ OneAddressEach /\ AddressHasAlias
  /\ SetupPassesNoFreeOctet /\ AliasesSuffice

=============================================================================
