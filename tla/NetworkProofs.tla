---------------------------- MODULE NetworkProofs ----------------------------
(* Proofs about Network, for every set of networks and every list of           *)
(* nameservers they hand out: no query is ever forwarded to holepunch itself    *)
(* or to the stub that routes back to it.                                       *)
(*                                                                              *)
(* The nameservers of a file are filtered by a recursive function.  That there  *)
(* is such a function, and what its values are, is induction over the length of *)
(* the file; it is done by hand, from the least index at which it would fail.   *)
EXTENDS Network, WellFoundedInduction, TLAPS

-----------------------------------------------------------------------------
(* Filtering a file. *)

\* A set of naturals that is not empty has a least element.
LEMMA LeastElement ==
  ASSUME NEW T \in SUBSET Nat, T # {}
  PROVE  \E x \in T : \A y \in T : x <= y
<1>1. PICK x \in T : \A y \in T : <<y, x>> \notin OpToRel(<, Nat)
  BY NatLessThanWellFounded, WFMin, Zenon
<1>2. \A y \in T : ~(y < x)
  BY <1>1, Zenon DEF OpToRel
<1> QED BY <1>2

\* What the loop of DiscoverFromConfig has kept when it comes to the i-th nameserver.
KeptStep(conf, kept, i) ==
  IF i = 0 THEN <<>> ELSE IF conf[i] = Self THEN kept[i - 1] ELSE Append(kept[i - 1], conf[i])

\* The loop up to the i-th nameserver, as a function.
KeepsUpTo(conf, kept, i) == kept = [j \in 0..i |-> KeptStep(conf, kept, j)]

\* The loop gets to the i-th nameserver for every i: a function that describes it up to one
\* nameserver is extended to the next.
LEMMA LoopIsDefined ==
  ASSUME NEW conf, NEW n \in Nat
  PROVE  \E kept : KeepsUpTo(conf, kept, n)
<1> DEFINE Failing == {i \in Nat : ~ \E kept : KeepsUpTo(conf, kept, i)}
<1>1. SUFFICES ASSUME Failing # {} PROVE FALSE
  OBVIOUS
<1>2. PICK i \in Failing : \A j \in Failing : i <= j
  BY <1>1, LeastElement
<1>3. i \in Nat /\ ~ \E kept : KeepsUpTo(conf, kept, i)
  BY <1>2
<1>4. CASE i = 0
  <2> DEFINE g == [j \in 0..0 |-> <<>>]
  <2>1. g = [j \in 0..0 |-> KeptStep(conf, g, j)]
    BY DEF KeptStep
  <2> QED BY <2>1, <1>3, <1>4 DEF KeepsUpTo
<1>5. CASE i # 0
  <2>1. i - 1 \in Nat /\ i - 1 \notin Failing
    BY <1>2, <1>5, <1>3
  <2>2. PICK f : KeepsUpTo(conf, f, i - 1)
    BY <2>1
  <2> DEFINE g == [j \in 0..i |-> IF j = i THEN KeptStep(conf, f, i) ELSE f[j]]
  <2>3. \A j \in 0..i : g[j] = KeptStep(conf, g, j)
    <3> SUFFICES ASSUME NEW j \in 0..i PROVE g[j] = KeptStep(conf, g, j)
      OBVIOUS
    <3>1. CASE j = i
      <4>1. g[i - 1] = f[i - 1]
        BY <1>3, <1>5
      <4> QED BY <3>1, <4>1, <1>3, <1>5 DEF KeptStep
    <3>2. CASE j # i
      <4>1. j \in 0..(i - 1) /\ g[j] = f[j]
        BY <3>2, <1>3
      <4>2. f[j] = KeptStep(conf, f, j)
        BY <2>2, <4>1 DEF KeepsUpTo
      <4>3. j # 0 => g[j - 1] = f[j - 1]
        BY <1>3, <4>1
      <4> QED BY <4>1, <4>2, <4>3, <1>3 DEF KeptStep
    <3> QED BY <3>1, <3>2
  <2>4. KeepsUpTo(conf, g, i)
    BY <2>3 DEF KeepsUpTo
  <2> QED BY <2>4, <1>3
<1> QED BY <1>4, <1>5

\* Nothing but nameservers of the file comes through, and never our own address.
LEMMA NothingOfOurs ==
  ASSUME NEW S, NEW conf \in Seq(S)
  PROVE  WithoutSelf(conf) \in Seq(S \ {Self})
<1> DEFINE kept == CHOOSE k : KeepsUpTo(conf, k, Len(conf))
<1>1. WithoutSelf(conf) = kept[Len(conf)]
  BY DEF WithoutSelf, KeepsUpTo, KeptStep
<1>2. Len(conf) \in Nat
  OBVIOUS
<1>3. KeepsUpTo(conf, kept, Len(conf))
  BY <1>2, LoopIsDefined
<1> HIDE DEF kept
<1> DEFINE Failing == {i \in 0..Len(conf) : kept[i] \notin Seq(S \ {Self})}
<1>4. SUFFICES ASSUME Failing # {} PROVE FALSE
  BY <1>1, <1>2
<1>5. Failing \in SUBSET Nat
  BY <1>2
<1>6. PICK i \in Failing : \A j \in Failing : i <= j
  BY <1>4, <1>5, LeastElement
<1>7. i \in 0..Len(conf) /\ kept[i] \notin Seq(S \ {Self})
  BY <1>6
<1>8. kept[i] = KeptStep(conf, kept, i)
  BY <1>3, <1>7 DEF KeepsUpTo
<1>9. i # 0
  <2>1. <<>> \in Seq(S \ {Self})
    OBVIOUS
  <2> QED BY <1>7, <1>8, <2>1 DEF KeptStep
<1>10. kept[i - 1] \in Seq(S \ {Self})
  <2>1. i - 1 \in 0..Len(conf) /\ i - 1 \notin Failing
    BY <1>2, <1>6, <1>7, <1>9
  <2> QED BY <2>1
<1>11. conf[i] \in S
  BY <1>2, <1>7, <1>9
<1>12. conf[i] # Self => Append(kept[i - 1], conf[i]) \in Seq(S \ {Self})
  BY <1>10, <1>11
<1> QED BY <1>7, <1>8, <1>9, <1>10, <1>12 DEF KeptStep

-----------------------------------------------------------------------------
(* What the resolver takes for its upstreams. *)

\* The addresses that a query may be forwarded to.
Upstreams == Nameservers \ {Self, Stub}

\* Discovery on any network, with systemd-resolved or without: it reads the file that lists the
\* real upstreams, so that neither the stub nor holepunch itself is among what it finds.
LEMMA DiscoveryIsClean ==
  ASSUME resolved \in BOOLEAN, NEW n \in Networks
  PROVE  Discover(n) \in Seq(Upstreams)
<1>1. FirstConf(n) = ServersOf[n]
  BY DEF FirstConf, ResolvConfs
<1> DEFINE S == Range(ServersOf[n])
<1>2. ServersOf[n] \in Seq(S) /\ Stub \notin S
  BY NetworkAssumption
<1>3. S \ {Self} \subseteq Upstreams
  <2>1. S \subseteq Nameservers
    BY DEF Nameservers
  <2> HIDE DEF S
  <2> QED BY <1>2, <2>1 DEF Upstreams
<1> HIDE DEF S
<1>4. WithoutSelf(ServersOf[n]) \in Seq(S \ {Self})
  BY <1>2, NothingOfOurs
<1>5. Discover(n) \in Seq(S \ {Self})
  BY <1>1, <1>4 DEF Discover
<1>6. \A U, V : U \subseteq V => Seq(U) \subseteq Seq(V)
  OBVIOUS
<1> QED BY <1>3, <1>5, <1>6

\* NoForwardLoop says of every list of nameservers that it is one of upstreams.
LEMMA CleanLists ==
  ASSUME NEW s \in Seq(Nameservers)
  PROVE  {Self, Stub} \cap Range(s) = {} <=> s \in Seq(Upstreams)
<1>1. DOMAIN s = 1..Len(s) /\ Len(s) \in Nat /\ \A i \in 1..Len(s) : s[i] \in Nameservers
  OBVIOUS
<1>2. Range(s) = {s[i] : i \in 1..Len(s)}
  BY <1>1 DEF Range
<1>3. ASSUME {Self, Stub} \cap Range(s) = {} PROVE s \in Seq(Upstreams)
  <2>1. \A i \in 1..Len(s) : s[i] \in Upstreams
    BY <1>1, <1>2, <1>3 DEF Upstreams
  <2> QED BY <1>1, <2>1
<1>4. ASSUME s \in Seq(Upstreams) PROVE {Self, Stub} \cap Range(s) = {}
  <2>1. \A i \in 1..Len(s) : s[i] \in Upstreams
    BY <1>4
  <2> QED BY <1>2, <2>1 DEF Upstreams
<1> QED BY <1>3, <1>4

-----------------------------------------------------------------------------
(* The invariant, in the form in which a step keeps it. *)

\* A query on its way, with upstreams left to try and only upstreams.
CleanForwarding == [at : {"forward"}, left : Seq(Upstreams) \ {<<>>}]

\* Inv, with what the resolver and its queries hold typed by upstreams.
Clean ==
  /\ network \in Networks /\ resolved \in BOOLEAN
  /\ ticked \in BOOLEAN /\ elapsed \in 0..LongSleep /\ overlooked \in BOOLEAN
  /\ lastAddrs \in Addresses \cup {NoAddrs}
  /\ event \in BOOLEAN
  /\ follower \in {"idle", "refresh", "drop", "dropping"}
  /\ upstream \in Seq(Upstreams) /\ failed \in BOOLEAN
  /\ openedOn \in Networks /\ slept \in BOOLEAN
  /\ records \subseteq Hostnames
  /\ query \in [Handlers -> {NoQuery} \cup Asked \cup CleanForwarding \cup Answered]

\* Of a query by itself: it is forwarded to upstreams only if its list is a clean one.
LEMMA CleanQueries ==
  ASSUME NEW q
  PROVE  q \in CleanForwarding <=>
           q \in Forwarding /\ {Self, Stub} \cap Range(q.left) = {}
<1>1. Seq(Upstreams) \subseteq Seq(Nameservers)
  <2>1. Upstreams \subseteq Nameservers
    BY DEF Upstreams
  <2> QED BY <2>1
<1>2. ASSUME q \in CleanForwarding
      PROVE  q \in Forwarding /\ {Self, Stub} \cap Range(q.left) = {}
  <2>1. q \in Forwarding /\ q.left \in Seq(Upstreams)
    BY <1>1, <1>2 DEF CleanForwarding, Forwarding
  <2> QED BY <2>1, <1>1, CleanLists
<1>3. ASSUME q \in Forwarding, {Self, Stub} \cap Range(q.left) = {}
      PROVE  q \in CleanForwarding
  <2>1. q.left \in Seq(Nameservers) \ {<<>>}
    BY <1>3 DEF Forwarding
  <2>2. q.left \in Seq(Upstreams)
    BY <1>3, <2>1, CleanLists
  <2> QED BY <1>3, <2>1, <2>2 DEF Forwarding, CleanForwarding
<1> QED BY <1>2, <1>3

\* A clean state satisfies the invariant that the run checks.
LEMMA CleanIsInv == Clean => Inv
<1> SUFFICES ASSUME Clean PROVE Inv
  OBVIOUS
<1> USE DEF Clean
<1>1. Seq(Upstreams) \subseteq Seq(Nameservers)
  <2>1. Upstreams \subseteq Nameservers
    BY DEF Upstreams
  <2> QED BY <2>1
<1>2. CleanForwarding \subseteq Forwarding
  BY CleanQueries
<1>3. query \in [Handlers -> {NoQuery} \cup Asked \cup Forwarding \cup Answered]
  BY <1>2
<1>4. TypeOK
  BY <1>1, <1>3 DEF TypeOK
<1>5. {Self, Stub} \cap Range(upstream) = {}
  BY <1>1, CleanLists
<1>6. ASSUME NEW h \in Handlers, query[h].at = "forward"
      PROVE  {Self, Stub} \cap Range(query[h].left) = {}
  <2>1. query[h] \in {NoQuery} \cup Asked \cup CleanForwarding \cup Answered
    OBVIOUS
  <2>2. query[h] \in CleanForwarding
    BY <1>6, <2>1 DEF NoQuery, Asked, Answered
  <2> QED BY <2>2, CleanQueries
<1> QED BY <1>4, <1>5, <1>6 DEF Inv, NoForwardLoop

-----------------------------------------------------------------------------
(* Every step keeps it. *)

LEMMA InitClean == Init => Clean
<1> SUFFICES ASSUME Init PROVE Clean
  OBVIOUS
<1>1. resolved \in BOOLEAN /\ network \in Networks
  BY DEF Init
<1>2. Discover(network) \in Seq(Upstreams)
  BY <1>1, DiscoveryIsClean
<1>3. upstream \in Seq(Upstreams) /\ failed \in BOOLEAN
  <2>1. <<>> \in Seq(Upstreams)
    OBVIOUS
  <2>2. \/ upstream = Discover(network) /\ failed = FALSE
        \/ upstream = <<>> /\ failed = TRUE
    BY DEF Init
  <2> QED BY <1>2, <2>1, <2>2
<1>4. query \in [Handlers -> {NoQuery} \cup Asked \cup CleanForwarding \cup Answered]
  BY DEF Init
<1>5. elapsed \in 0..LongSleep
  BY DEF Init, LongSleep
<1> QED BY <1>1, <1>3, <1>4, <1>5 DEF Init, Clean

\* The replies, and what is left to try, of one handler.
LEMMA QueryStep ==
  ASSUME Clean, NEW h \in Handlers, HandlerStep(h)
  PROVE  /\ query' \in [Handlers -> {NoQuery} \cup Asked \cup CleanForwarding \cup Answered]
         /\ UNCHANGED <<network, resolved, watchVars, follower, upstream, failed, sessionVars,
                        records>>
<1> DEFINE Q == {NoQuery} \cup Asked \cup CleanForwarding \cup Answered
<1>1. query \in [Handlers -> Q] /\ upstream \in Seq(Upstreams)
  BY DEF Clean
<1>2. \A q \in Q : [query EXCEPT ![h] = q] \in [Handlers -> Q]
  BY <1>1
<1>3. \A r \in Replies : [at |-> "answered", reply |-> r] \in Q
  BY DEF Answered
<1>4. CASE Lookup(h)
  <2>1. upstream # <<>> => [at |-> "forward", left |-> upstream] \in Q
    BY <1>1 DEF CleanForwarding
  <2>2. query' \in [Handlers -> Q]
    BY <1>2, <1>3, <1>4, <2>1 DEF Lookup, Reply, Replies
  <2> QED BY <1>4, <2>2 DEF Lookup
<1>5. CASE Forward(h)
  <2>1. query[h] \in CleanForwarding
    BY <1>1, <1>5 DEF Forward, NoQuery, Asked, Answered
  <2>2. query[h].left \in Seq(Upstreams) /\ query[h].left # <<>>
    BY <2>1 DEF CleanForwarding
  <2>3. Len(query[h].left) # 1 => Tail(query[h].left) \in Seq(Upstreams) \ {<<>>}
    <3> DEFINE s == query[h].left
    <3>1. s \in Seq(Upstreams) /\ s # <<>>
      BY <2>2
    <3> HIDE DEF s
    <3>2. Tail(s) \in Seq(Upstreams) /\ Len(Tail(s)) = Len(s) - 1
      BY <3>1
    <3>3. Len(s) # 1 => Tail(s) # <<>>
      <4>1. Len(s) \in Nat /\ Len(s) # 0
        BY <3>1
      <4>2. Len(<<>>) = 0
        OBVIOUS
      <4>3. Tail(s) = <<>> => Len(Tail(s)) = 0
        BY <4>2, Zenon
      <4> QED
        BY <3>2, <4>1, <4>3
    <3> QED BY <3>2, <3>3 DEF s
  <2>4. Len(query[h].left) # 1 => [query[h] EXCEPT !.left = Tail(@)] \in Q
    BY <2>1, <2>3 DEF CleanForwarding
  <2>5. Len(query[h].left) # 1 =>
          [query EXCEPT ![h].left = Tail(@)] = [query EXCEPT ![h] = [query[h] EXCEPT !.left = Tail(@)]]
    BY <1>1
  <2>6. query' \in [Handlers -> Q]
    BY <1>2, <1>3, <1>5, <2>4, <2>5 DEF Forward, Reply, Replies
  <2> QED BY <1>5, <2>6 DEF Forward
<1>6. CASE Sent(h)
  BY <1>1, <1>2, <1>6 DEF Sent
<1> QED BY <1>4, <1>5, <1>6 DEF HandlerStep

LEMMA StepClean == Clean /\ [Next]_vars => Clean'
<1> SUFFICES ASSUME Clean, [Next]_vars PROVE Clean'
  OBVIOUS
<1>0. resolved' \in BOOLEAN => \A n \in Networks : Discover(n) \in Seq(Upstreams)
  BY DiscoveryIsClean DEF Clean
<1>1. ASSUME NEW n \in Networks, Move(n) PROVE Clean'
  BY <1>1 DEF Clean, Move, sessionVars
<1>2. CASE TimePasses
  BY <1>2 DEF Clean, TimePasses, LongSleep
<1>3. CASE Tick
  <2>1. elapsed' \in 0..LongSleep
    BY <1>3 DEF Tick, LongSleep
  <2>2. lastAddrs' \in Addresses \cup {NoAddrs}
    BY <1>3 DEF Tick, Addresses, Clean
  <2>3. event' \in BOOLEAN /\ overlooked' \in BOOLEAN
    BY <1>3 DEF Tick, Notify, Clean
  <2> QED BY <1>3, <2>1, <2>2, <2>3 DEF Clean, Tick, sessionVars
<1>4. CASE FollowEvent
  BY <1>4 DEF Clean, FollowEvent, sessionVars
<1>5. CASE FollowRefresh
  <2>1. Discover(network) \in Seq(Upstreams)
    BY DiscoveryIsClean DEF Clean
  <2> QED BY <1>5, <2>1 DEF Clean, FollowRefresh, watchVars, sessionVars
<1>6. CASE FollowDrop
  BY <1>6 DEF Clean, FollowDrop, watchVars
<1>7. CASE FollowDropped
  BY <1>7 DEF Clean, FollowDropped, watchVars, sessionVars
<1>8. ASSUME NEW h \in Handlers, HandlerStep(h) PROVE Clean'
  BY <1>8, QueryStep DEF Clean, watchVars, sessionVars
<1>9. ASSUME NEW h \in Handlers, NEW name \in Hostnames, Ask(h, name) PROVE Clean'
  <2>1. [at |-> "asked", name |-> name] \in Asked
    BY DEF Asked
  <2> QED BY <1>9, <2>1 DEF Clean, Ask, watchVars, sessionVars
<1>10. ASSUME NEW name \in Hostnames, ChangeRecord(name) PROVE Clean'
  BY <1>10 DEF Clean, ChangeRecord, watchVars, sessionVars
<1>11. CASE UNCHANGED vars
  BY <1>11 DEF Clean, vars, watchVars, sessionVars
<1> QED BY <1>1, <1>2, <1>3, <1>4, <1>5, <1>6, <1>7, <1>8, <1>9, <1>10, <1>11
         DEF Next, FollowerStep

\* "Forwarding to ourselves would loop" (internal/resolver/discover.go): whatever the networks
\* hand out, however the host moves between them and whatever query is under way while the
\* upstreams change, nothing is forwarded to holepunch or to the stub that leads back to it,
\* and a query that is being forwarded has an upstream left to try.
THEOREM NothingLoops == Spec => []Inv
<1>1. Init => Clean
  BY InitClean
<1>2. Clean /\ [Next]_vars => Clean'
  BY StepClean
<1>3. Clean => Inv
  BY CleanIsInv
<1> QED BY <1>1, <1>2, <1>3, PTL DEF Spec

=============================================================================
