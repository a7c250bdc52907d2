--------------------------- MODULE AddressesProofs ---------------------------
(* Proofs about Addresses, for every configuration, every range of octets and   *)
(* every hash function: a service has one address, and the daemon, in whatever  *)
(* order services come and go, hands out only addresses that setup has made an  *)
(* alias for.                                                                   *)
(*                                                                              *)
(* Setup makes aliases for exactly as many octets as there are keys, so for a   *)
(* key to be pushed onto an octet p without an alias, the keys behind p would   *)
(* have to outnumber themselves.  AliasesSuffice is that count for every        *)
(* distance behind p; the lemma PushedOnAgain is why a further push keeps it.   *)
EXTENDS Addresses, FiniteSetTheorems, WellFoundedInduction, TLAPS

-----------------------------------------------------------------------------
(* The circle of octets. *)

\* A set of naturals that is not empty has a least element.
LEMMA LeastElement ==
  ASSUME NEW T \in SUBSET Nat, T # {}
  PROVE  \E x \in T : \A y \in T : x <= y
<1>1. PICK x \in T : \A y \in T : <<y, x>> \notin OpToRel(<, Nat)
  BY NatLessThanWellFounded, WFMin, Zenon
<1>2. \A y \in T : ~(y < x)
  BY <1>1, Zenon DEF OpToRel
<1> QED BY <1>2

\* The range of octets is finite, and as long as it looks.
LEMMA OctetsAreFinite ==
  /\ MinOctet \in Int /\ MaxOctet \in Int /\ MinOctet <= MaxOctet
  /\ IsFiniteSet(Octets)
  /\ Cardinality(Octets) = MaxOctet - MinOctet + 1
<1>1. MinOctet \in Int /\ MaxOctet \in Int /\ MinOctet <= MaxOctet
  BY AddressAssumption
<1> QED BY <1>1, FS_Interval DEF Octets

\* Distance without the remainder: once round the end, or not at all.
LEMMA DistanceIs ==
  ASSUME NEW a \in Octets, NEW b \in Octets
  PROVE  Distance(a, b) = IF a <= b THEN b - a ELSE b - a + (MaxOctet - MinOctet + 1)
<1> DEFINE N == MaxOctet - MinOctet + 1
<1>1. /\ a \in Int /\ b \in Int /\ N \in Nat /\ N > 0
      /\ MinOctet \in Int /\ MaxOctet \in Int
      /\ MinOctet <= a /\ a <= MaxOctet /\ MinOctet <= b /\ b <= MaxOctet
  BY OctetsAreFinite DEF Octets
<1>2. Distance(a, b) = (b - a) % N
  BY OctetsAreFinite DEF Distance
<1>3. CASE a <= b
  <2>1. 0 <= b - a /\ b - a < N
    BY <1>1, <1>3
  <2> HIDE DEF N
  <2>2. (b - a) % N = b - a
    BY <1>1, <2>1
  <2> QED BY <1>2, <1>3, <2>2
<1>4. CASE ~(a <= b)
  <2>1. 0 <= b - a + N /\ b - a + N < N
    BY <1>1, <1>4
  <2> HIDE DEF N
  <2>2. (b - a) % N = b - a + N
    BY <1>1, <2>1
  <2> QED BY <1>2, <1>4, <2>2 DEF N
<1> QED BY <1>3, <1>4

\* A distance is shorter than the circle, and none only from an octet to itself.
LEMMA DistanceType ==
  ASSUME NEW a \in Octets, NEW b \in Octets
  PROVE  /\ Distance(a, b) \in Nat
         /\ Distance(a, b) < Cardinality(Octets)
         /\ Distance(a, b) = 0 <=> a = b
<1>1. /\ a \in Int /\ b \in Int /\ MinOctet \in Int /\ MaxOctet \in Int
      /\ MinOctet <= a /\ a <= MaxOctet /\ MinOctet <= b /\ b <= MaxOctet
  BY OctetsAreFinite DEF Octets
<1> QED BY <1>1, DistanceIs, OctetsAreFinite

\* Of two octets on the way from h, the one that comes first is the further one from the end.
LEMMA OnTheWay ==
  ASSUME NEW h \in Octets, NEW s \in Octets, NEW f \in Octets, NEW p \in Octets,
         Distance(h, s) <= Distance(h, f), Distance(h, s) <= Distance(h, p)
  PROVE  /\ Distance(s, p) <= Distance(h, p)
         /\ Distance(f, p) <= Distance(h, p) => Distance(f, p) <= Distance(s, p)
<1>1. /\ h \in Int /\ s \in Int /\ f \in Int /\ p \in Int /\ MinOctet \in Int /\ MaxOctet \in Int
      /\ MinOctet <= h /\ h <= MaxOctet /\ MinOctet <= s /\ s <= MaxOctet
      /\ MinOctet <= f /\ f <= MaxOctet /\ MinOctet <= p /\ p <= MaxOctet
  BY OctetsAreFinite DEF Octets
<1> QED BY <1>1, DistanceIs

-----------------------------------------------------------------------------
(* Counting. *)

\* Two sets together have as many elements as they have one by one, less what they share.
LEMMA Together ==
  ASSUME NEW S, NEW T, IsFiniteSet(S), IsFiniteSet(T)
  PROVE  /\ IsFiniteSet(S \cup T)
         /\ Cardinality(S) \in Nat /\ Cardinality(T) \in Nat
         /\ Cardinality(S \cup T) \in Nat /\ Cardinality(S \cap T) \in Nat
         /\ Cardinality(S \cup T) + Cardinality(S \cap T) = Cardinality(S) + Cardinality(T)
         /\ S \cap T = {} => Cardinality(S \cup T) = Cardinality(S) + Cardinality(T)
         /\ Cardinality(S \cup T) <= Cardinality(S) + Cardinality(T)
<1>1. IsFiniteSet(S \cup T) /\ IsFiniteSet(S \cap T)
  BY FS_Union, FS_Intersection
<1>2. /\ Cardinality(S) \in Nat /\ Cardinality(T) \in Nat
      /\ Cardinality(S \cup T) \in Nat /\ Cardinality(S \cap T) \in Nat
  BY <1>1, FS_CardinalityType
<1>3. Cardinality(S \cup T) = Cardinality(S) + Cardinality(T) - Cardinality(S \cap T)
  BY FS_Union
<1>4. S \cap T = {} => Cardinality(S \cap T) = 0
  BY FS_EmptySet
<1> QED BY <1>1, <1>2, <1>3, <1>4

\* What is part of a finite set is finite, and has no more elements.
LEMMA PartOf ==
  ASSUME NEW S, NEW T, IsFiniteSet(S), T \subseteq S
  PROVE  /\ IsFiniteSet(T) /\ Cardinality(T) <= Cardinality(S)
         /\ Cardinality(T) \in Nat /\ Cardinality(S) \in Nat
BY FS_Subset, FS_CardinalityType

\* Octets and keys are finite sets, and so is what lies behind an octet.
LEMMA Finite ==
  ASSUME TypeOK, NEW p, NEW d
  PROVE  /\ IsFiniteSet(Keys) /\ IsFiniteSet(aliases) /\ IsFiniteSet(AliasesBehind(p, d))
         /\ IsFiniteSet(KeysBehind(p, d)) /\ IsFiniteSet(PushedOn(p, d))
<1>1. IsFiniteSet(Keys)
  BY AddressAssumption
<1>2. IsFiniteSet(aliases)
  BY OctetsAreFinite, PartOf DEF TypeOK
<1>3. /\ AliasesBehind(p, d) \subseteq aliases
      /\ KeysBehind(p, d) \subseteq Keys /\ PushedOn(p, d) \subseteq Keys
  BY DEF AliasesBehind, KeysBehind, PushedOn
<1> QED BY <1>1, <1>2, <1>3, PartOf

\* As many keys own the octets of a set as there are octets in it.
LEMMA OwnersCount ==
  ASSUME TypeOK, OneAddressEach, NEW B, B \subseteq Taken
  PROVE  LET Owners == {assigned[o] : o \in B}
         IN  Owners \subseteq Keys /\ IsFiniteSet(B) /\ Cardinality(B) <= Cardinality(Owners)
<1> DEFINE Owners == {assigned[o] : o \in B}
           owner == [o \in B |-> assigned[o]]
<1>1. \A o \in B : o \in Octets /\ assigned[o] \in Keys
  BY DEF TypeOK, Taken, FreeOctets, OwnedBy
<1>2. Owners \subseteq Keys
  BY <1>1
<1>3. IsFiniteSet(Owners)
  BY <1>2, AddressAssumption, PartOf
<1>4. IsFiniteSet(B)
  BY <1>1, OctetsAreFinite, PartOf
<1>5. owner \in [B -> Owners]
  OBVIOUS
<1>6. \A o1, o2 \in B : owner[o1] = owner[o2] => o1 = o2
  BY <1>1, AddressAssumption DEF OneAddressEach
<1>7. owner \in Injection(B, Owners)
  BY <1>5, <1>6 DEF Injection, IsInjective
<1>8. Cardinality(B) <= Cardinality(Owners)
  BY <1>3, <1>7, FS_Injection
<1> QED BY <1>2, <1>4, <1>8

-----------------------------------------------------------------------------
(* One key more that is pushed on. *)

\* When every octet from a key's hash to d steps before an octet p without an alias is taken,
\* the key is one more than AliasesSuffice has counted: the stretch of taken octets that these
\* belong to begins m steps before p, the count for m bounds what was pushed into the stretch,
\* and every other octet of it is held by a key of the stretch itself.
LEMMA PushedOnAgain ==
  ASSUME TypeOK, OneAddressEach, Taken \subseteq aliases,
         NEW p \in Octets, NotPassed(p),
         \A e \in 1..Cardinality(Octets) :
           Cardinality(AliasesBehind(p, e)) + Cardinality(PushedOn(p, e))
             <= Cardinality(KeysBehind(p, e)),
         NEW k \in Keys, OwnedBy(k) = {},
         NEW d \in 1..Cardinality(Octets), d <= Distance(hash[k], p),
         \A o \in Octets : d <= Distance(o, p) /\ Distance(o, p) <= Distance(hash[k], p)
                             => o \in Taken
  PROVE  Cardinality(AliasesBehind(p, d)) + Cardinality(PushedOn(p, d)) + 1
           <= Cardinality(KeysBehind(p, d))
<1> DEFINE N == Cardinality(Octets)
           Ends == {x \in Nat : d <= x /\ (x = N \/ \E f \in FreeOctets : Distance(f, p) = x)}
<1>1. N \in Nat /\ d \in 1..N /\ hash[k] \in Octets /\ FreeOctets \subseteq Octets
  BY OctetsAreFinite DEF TypeOK, FreeOctets, OwnedBy
<1>2. \A o \in Octets : Distance(o, p) \in Nat /\ Distance(o, p) < N
  BY DistanceType
<1> HIDE DEF N
<1>3. PICK m \in Ends : \A x \in Ends : m <= x
  <2>1. N \in Ends
    BY <1>1
  <2> HIDE DEF Ends
  <2>2. Ends \in SUBSET Nat
    BY DEF Ends
  <2> QED BY <2>1, <2>2, LeastElement
<1>4. m \in Nat /\ d <= m /\ m <= N
  BY <1>1, <1>3
<1>5. Distance(hash[k], p) < m
  <2>1. SUFFICES ASSUME m <= Distance(hash[k], p) PROVE FALSE
    BY <1>1, <1>2, <1>4
  <2>2. m < N
    BY <1>1, <1>2, <1>4, <2>1
  <2>3. PICK f \in FreeOctets : Distance(f, p) = m
    BY <1>3, <2>2, <1>4, <1>1
  <2>4. f \in Taken
    BY <1>1, <1>4, <2>1, <2>3
  <2> QED BY <2>3, <2>4 DEF Taken
<1> DEFINE B == {o \in Octets : d <= Distance(o, p) /\ Distance(o, p) < m}
           Owners == {assigned[o] : o \in B}
<1>6. B \subseteq Taken
  <2>1. ASSUME NEW o \in B, o \notin Taken PROVE FALSE
    <3>1. o \in FreeOctets
      BY <2>1 DEF Taken
    <3>2. Distance(o, p) \in Ends /\ Distance(o, p) < m /\ Distance(o, p) \in Nat
      BY <1>2, <2>1, <3>1
    <3> HIDE DEF Ends, B
    <3> QED BY <1>3, <1>4, <3>2
  <2> QED BY <2>1
<1>7. Owners \subseteq Keys /\ IsFiniteSet(B) /\ Cardinality(B) <= Cardinality(Owners)
  <2> HIDE DEF B
  <2> QED BY <1>6, OwnersCount
<1>8. \A e : /\ IsFiniteSet(Keys) /\ IsFiniteSet(aliases) /\ IsFiniteSet(AliasesBehind(p, e))
             /\ IsFiniteSet(KeysBehind(p, e)) /\ IsFiniteSet(PushedOn(p, e))
  BY Finite
<1>9. IsFiniteSet(Owners) /\ Cardinality(Owners) \in Nat /\ Cardinality(B) \in Nat
  <2> HIDE DEF Owners, B
  <2> QED BY <1>7, <1>8, PartOf, FS_CardinalityType
\* The aliases: those of the stretch and those behind it.
<1>10. Cardinality(AliasesBehind(p, d)) <= Cardinality(AliasesBehind(p, m)) + Cardinality(B)
  <2>1. AliasesBehind(p, d) \subseteq AliasesBehind(p, m) \cup B
    <3> SUFFICES ASSUME NEW o \in AliasesBehind(p, d), o \notin B
                 PROVE  o \in AliasesBehind(p, m)
      OBVIOUS
    <3>1. o \in aliases /\ o \in Octets /\ Distance(o, p) >= d
      BY DEF AliasesBehind, TypeOK
    <3>2. Distance(o, p) >= m
      BY <3>1, <1>1, <1>2, <1>4
    <3> QED BY <3>1, <3>2 DEF AliasesBehind
  <2> HIDE DEF B
  <2>2. /\ IsFiniteSet(AliasesBehind(p, m) \cup B)
        /\ Cardinality(AliasesBehind(p, m) \cup B) <= Cardinality(AliasesBehind(p, m)) + Cardinality(B)
        /\ Cardinality(AliasesBehind(p, m)) \in Nat
        /\ Cardinality(AliasesBehind(p, m) \cup B) \in Nat
    BY <1>7, <1>8, Together
  <2>3. /\ Cardinality(AliasesBehind(p, d)) <= Cardinality(AliasesBehind(p, m) \cup B)
        /\ Cardinality(AliasesBehind(p, d)) \in Nat
    BY <2>1, <2>2, PartOf
  <2> QED BY <2>2, <2>3, <1>9
\* The keys: owners of the stretch, keys pushed beyond it, and the new one.
<1> DEFINE Y == (Owners \cup PushedOn(p, d)) \cup {k}
<1>11. IsFiniteSet(Y) /\ Cardinality(Y) = Cardinality(Owners) + Cardinality(PushedOn(p, d)) + 1
  <2>1. Owners \cap PushedOn(p, d) = {}
    <3> SUFFICES ASSUME NEW o \in B, assigned[o] \in PushedOn(p, d) PROVE FALSE
      OBVIOUS
    <3>1. PICK q \in Octets : assigned[q] = assigned[o] /\ Distance(q, p) < d
      BY DEF PushedOn, OwnedBy
    <3>2. o \in Octets /\ assigned[o] # Free
      BY <1>6 DEF Taken, FreeOctets, OwnedBy
    <3>3. o = q
      BY <3>1, <3>2 DEF OneAddressEach
    <3> QED BY <3>1, <3>2, <3>3, <1>1, <1>2
  <2>2. k \notin Owners
    BY DEF OwnedBy
  <2>3. k \notin PushedOn(p, d)
    BY DEF PushedOn
  <2> HIDE DEF Owners
  <2>4. /\ IsFiniteSet(Owners \cup PushedOn(p, d))
        /\ Cardinality(Owners \cup PushedOn(p, d)) = Cardinality(Owners) + Cardinality(PushedOn(p, d))
    BY <1>8, <1>9, <2>1, Together
  <2> QED BY <2>2, <2>3, <2>4, FS_AddElement
<1>12. Y \subseteq KeysBehind(p, d)
  <2>1. Owners \subseteq KeysBehind(p, d)
    <3> SUFFICES ASSUME NEW o \in B PROVE assigned[o] \in KeysBehind(p, d)
      OBVIOUS
    <3>1. o \in Octets /\ o \in Taken /\ assigned[o] \in Keys /\ d <= Distance(o, p)
      BY <1>6, <1>7
    <3>2. Distance(o, p) <= Distance(hash[assigned[o]], p) /\ hash[assigned[o]] \in Octets
      BY <3>1 DEF NotPassed, TypeOK
    <3>3. Distance(hash[assigned[o]], p) >= d
      BY <3>1, <3>2, <1>1, <1>2
    <3> QED BY <3>1, <3>3 DEF KeysBehind
  <2>2. k \in KeysBehind(p, d)
    BY <1>1, <1>2 DEF KeysBehind
  <2>3. PushedOn(p, d) \subseteq KeysBehind(p, d)
    BY DEF PushedOn
  <2> QED BY <2>1, <2>2, <2>3
<1>13. Y \cap KeysBehind(p, m) \subseteq PushedOn(p, m)
  <2> SUFFICES ASSUME NEW y \in Y, y \in KeysBehind(p, m) PROVE y \in PushedOn(p, m)
    OBVIOUS
  <2>1. y # k
    BY <1>1, <1>2, <1>4, <1>5 DEF KeysBehind
  <2>2. ASSUME NEW o \in B, y = assigned[o] PROVE y \in PushedOn(p, m)
    BY <2>2 DEF PushedOn, OwnedBy
  <2>3. ASSUME y \in PushedOn(p, d) PROVE y \in PushedOn(p, m)
    <3>1. PICK o \in OwnedBy(y) : Distance(o, p) < d
      BY <2>3 DEF PushedOn
    <3>2. o \in Octets
      BY DEF OwnedBy
    <3>3. Distance(o, p) < m
      BY <3>1, <3>2, <1>1, <1>2, <1>4
    <3> QED BY <3>3 DEF PushedOn
  <2> QED BY <2>1, <2>2, <2>3
<1>14. KeysBehind(p, m) \subseteq KeysBehind(p, d)
  <2> SUFFICES ASSUME NEW y \in Keys, Distance(hash[y], p) >= m PROVE Distance(hash[y], p) >= d
    BY DEF KeysBehind
  <2>1. hash[y] \in Octets
    BY DEF TypeOK
  <2> QED BY <2>1, <1>1, <1>2, <1>4
<1>15. Cardinality(Y) + Cardinality(KeysBehind(p, m)) - Cardinality(PushedOn(p, m))
         <= Cardinality(KeysBehind(p, d))
  <2> HIDE DEF Y
  <2> DEFINE K == KeysBehind(p, m)
  <2>1. /\ Cardinality(Y \cup K) + Cardinality(Y \cap K) = Cardinality(Y) + Cardinality(K)
        /\ Cardinality(Y \cup K) \in Nat /\ Cardinality(Y \cap K) \in Nat
        /\ Cardinality(Y) \in Nat /\ Cardinality(K) \in Nat
    BY <1>8, <1>11, Together
  <2>2. Cardinality(Y \cap K) <= Cardinality(PushedOn(p, m)) /\ Cardinality(PushedOn(p, m)) \in Nat
    BY <1>8, <1>13, PartOf
  <2>3. Y \cup K \subseteq KeysBehind(p, d)
    BY <1>12, <1>14
  <2>4. Cardinality(Y \cup K) <= Cardinality(KeysBehind(p, d)) /\ Cardinality(KeysBehind(p, d)) \in Nat
    BY <1>8, <2>3, PartOf
  <2> HIDE DEF K
  <2>5. Cardinality(Y) + Cardinality(K) - Cardinality(PushedOn(p, m)) <= Cardinality(KeysBehind(p, d))
    BY <2>1, <2>2, <2>4
  <2> QED BY <2>5 DEF K
<1>16. Cardinality(AliasesBehind(p, m)) + Cardinality(PushedOn(p, m)) <= Cardinality(KeysBehind(p, m))
  <2>1. m \in 1..N
    BY <1>1, <1>4
  <2> QED BY <2>1 DEF N
<1>17. /\ Cardinality(AliasesBehind(p, m)) \in Nat /\ Cardinality(PushedOn(p, m)) \in Nat
       /\ Cardinality(KeysBehind(p, m)) \in Nat /\ Cardinality(AliasesBehind(p, d)) \in Nat
       /\ Cardinality(PushedOn(p, d)) \in Nat /\ Cardinality(KeysBehind(p, d)) \in Nat
  BY <1>8, FS_CardinalityType
<1> HIDE DEF Y, Owners, B, Ends
<1> QED BY <1>7, <1>9, <1>10, <1>11, <1>15, <1>16, <1>17

-----------------------------------------------------------------------------
(* Allocation. *)

\* The probe stops at a free octet, and at none that is further on than another.
LEMMA ProbeStops ==
  ASSUME TypeOK, NEW k \in Keys, FreeOctets # {}
  PROVE  /\ Probed(k) \in FreeOctets
         /\ \A f \in FreeOctets : Distance(hash[k], Probed(k)) <= Distance(hash[k], f)
<1> DEFINE Steps == {Distance(hash[k], f) : f \in FreeOctets}
<1>1. \A f \in FreeOctets : Distance(hash[k], f) \in Nat
  BY DistanceType DEF TypeOK, FreeOctets, OwnedBy
<1>2. PICK x \in Steps : \A y \in Steps : x <= y
  <2>1. Steps \in SUBSET Nat /\ Steps # {}
    BY <1>1
  <2> HIDE DEF Steps
  <2> QED BY <2>1, LeastElement
<1>3. \E o \in FreeOctets : \A f \in FreeOctets : Distance(hash[k], o) <= Distance(hash[k], f)
  BY <1>2
<1> QED BY <1>3 DEF Probed

\* What an allocation does: one octet that was free is the key's from now on.
LEMMA AllocateTakes ==
  ASSUME TypeOK, OneAddressEach, NEW k \in Keys, Allocate(k), UNCHANGED hash
  PROVE  LET s == Probed(k)
         IN  /\ s \in Octets /\ s \in FreeOctets
             /\ \A f \in FreeOctets : Distance(hash[k], s) <= Distance(hash[k], f)
             /\ assigned' \in [Octets -> Keys \cup {Free}]
             /\ assigned'[s] = k
             /\ \A o \in Octets \ {s} : assigned'[o] = assigned[o]
             /\ Taken' = Taken \cup {s}
             /\ OneAddressEach'
<1> DEFINE s == Probed(k)
<1>1. s \in FreeOctets /\ \A f \in FreeOctets : Distance(hash[k], s) <= Distance(hash[k], f)
  BY ProbeStops DEF Allocate
<1>2. /\ s \in Octets /\ assigned' = [assigned EXCEPT ![s] = k]
      /\ assigned \in [Octets -> Keys \cup {Free}]
  BY <1>1 DEF Allocate, FreeOctets, OwnedBy, TypeOK
<1> HIDE DEF s
<1>3. /\ assigned' \in [Octets -> Keys \cup {Free}] /\ assigned'[s] = k
      /\ \A o \in Octets \ {s} : assigned'[o] = assigned[o]
  BY <1>2
<1>4. k # Free
  BY AddressAssumption
<1>5. Taken' = Taken \cup {s}
  BY <1>2, <1>3, <1>4 DEF Taken, FreeOctets, OwnedBy
<1>6. OneAddressEach'
  <2> SUFFICES ASSUME NEW o1 \in Octets, NEW o2 \in Octets, assigned'[o1] = assigned'[o2], o1 # o2
               PROVE  assigned'[o1] = Free
    BY DEF OneAddressEach
  <2>1. \A o \in Octets : assigned[o] # k
    BY DEF Allocate, OwnedBy
  <2>2. o1 # s /\ o2 # s
    BY <1>3, <2>1
  <2> QED BY <1>3, <2>2 DEF OneAddressEach
<1> QED BY <1>1, <1>2, <1>3, <1>5, <1>6 DEF s

\* An allocation passes no octet that stays free.
LEMMA FreeIsNotPassed ==
  ASSUME TypeOK, OneAddressEach, NEW k \in Keys, Allocate(k), UNCHANGED hash,
         NEW p \in FreeOctets, NotPassed(p)
  PROVE  NotPassed(p)'
<1> DEFINE s == Probed(k)
<1>1. /\ s \in Octets /\ s \in FreeOctets
      /\ \A f \in FreeOctets : Distance(hash[k], s) <= Distance(hash[k], f)
      /\ assigned'[s] = k
      /\ \A o \in Octets \ {s} : assigned'[o] = assigned[o]
      /\ Taken' = Taken \cup {s}
  BY AllocateTakes
<1> HIDE DEF s
<1>2. p \in Octets /\ hash[k] \in Octets /\ Taken \subseteq Octets /\ s \notin Taken
  BY <1>1 DEF TypeOK, FreeOctets, OwnedBy, Taken
<1>3. Distance(s, p) <= Distance(hash[k], p)
  BY <1>1, <1>2, OnTheWay
<1>4. ASSUME NEW o \in Taken' PROVE Distance(o, p) <= Distance(hash[assigned'[o]], p)
  <2>1. CASE o = s
    BY <1>1, <1>3, <2>1
  <2>2. CASE o # s
    <3>1. o \in Taken /\ assigned'[o] = assigned[o]
      BY <1>1, <1>2, <2>2
    <3> QED BY <3>1 DEF NotPassed
  <2> QED BY <2>1, <2>2
<1> QED BY <1>4 DEF NotPassed, Distance

\* The daemon finds a free octet among the aliases before it comes to any other.
LEMMA FindsAnAlias ==
  ASSUME Inv, phase = "daemon", NEW k \in Keys, Allocate(k), UNCHANGED hash
  PROVE  Probed(k) \in aliases
<1> DEFINE s == Probed(k)
<1>1. TypeOK /\ OneAddressEach /\ Taken \subseteq aliases
  BY DEF Inv, AddressHasAlias
<1>2. /\ s \in Octets /\ s \in FreeOctets
      /\ \A f \in FreeOctets : Distance(hash[k], s) <= Distance(hash[k], f)
  BY <1>1, AllocateTakes
<1> HIDE DEF s
<1>3. SUFFICES ASSUME s \notin aliases PROVE FALSE
  BY DEF s
<1>4. /\ Cardinality(Keys) <= Cardinality(aliases)
      /\ NotPassed(s)
      /\ \A d \in 1..Cardinality(Octets) :
           Cardinality(AliasesBehind(s, d)) + Cardinality(PushedOn(s, d))
             <= Cardinality(KeysBehind(s, d))
  BY <1>2, <1>3 DEF Inv, AliasesSuffice
<1>5. hash[k] \in Octets /\ aliases \subseteq Octets /\ OwnedBy(k) = {}
  BY <1>1 DEF TypeOK, Allocate
<1>6. /\ Cardinality(Octets) \in Nat /\ 1 \in 1..Cardinality(Octets)
      /\ Distance(hash[k], s) \in Nat
      /\ \A o \in Octets : Distance(o, s) \in Nat
  BY <1>2, <1>5, OctetsAreFinite, DistanceType
<1>7. AliasesBehind(s, 1) = aliases
  <2>1. \A o \in aliases : Distance(o, s) # 0
    BY <1>2, <1>3, <1>5, DistanceType
  <2>2. \A o \in aliases : Distance(o, s) >= 1
    BY <1>5, <1>6, <2>1
  <2> QED BY <2>2 DEF AliasesBehind
<1>8. /\ IsFiniteSet(Keys) /\ IsFiniteSet(aliases)
      /\ IsFiniteSet(KeysBehind(s, 1)) /\ IsFiniteSet(PushedOn(s, 1))
  BY <1>1, Finite
<1>9. /\ Cardinality(Keys) \in Nat /\ Cardinality(aliases) \in Nat
      /\ Cardinality(KeysBehind(s, 1)) \in Nat /\ Cardinality(PushedOn(s, 1)) \in Nat
  BY <1>8, FS_CardinalityType
<1>10. CASE Distance(hash[k], s) = 0
  <2>1. KeysBehind(s, 1) \subseteq Keys \ {k}
    BY <1>10 DEF KeysBehind
  <2>2. IsFiniteSet(Keys \ {k}) /\ Cardinality(Keys \ {k}) = Cardinality(Keys) - 1
    BY <1>8, FS_RemoveElement
  <2>3. Cardinality(KeysBehind(s, 1)) <= Cardinality(Keys) - 1
    BY <2>1, <2>2, PartOf
  <2>4. Cardinality(aliases) + Cardinality(PushedOn(s, 1)) <= Cardinality(KeysBehind(s, 1))
    BY <1>4, <1>6, <1>7
  <2> QED BY <1>4, <1>9, <2>3, <2>4
<1>11. CASE Distance(hash[k], s) # 0
  <2>1. 1 <= Distance(hash[k], s)
    BY <1>6, <1>11
  <2>2. ASSUME NEW o \in Octets, 1 <= Distance(o, s), Distance(o, s) <= Distance(hash[k], s)
        PROVE  o \in Taken
    <3>1. SUFFICES ASSUME o \in FreeOctets PROVE FALSE
      BY DEF Taken
    <3>2. Distance(hash[k], s) <= Distance(hash[k], o)
      BY <1>2, <3>1
    <3>3. Distance(hash[k], s) <= Distance(hash[k], s)
      BY <1>6
    <3>4. Distance(o, s) <= Distance(s, s)
      BY <1>2, <1>5, <2>2, <3>2, <3>3, OnTheWay
    <3>5. Distance(s, s) = 0
      BY <1>2, DistanceType
    <3> QED BY <2>2, <3>4, <3>5, <1>6
  <2>3. Cardinality(AliasesBehind(s, 1)) + Cardinality(PushedOn(s, 1)) + 1
          <= Cardinality(KeysBehind(s, 1))
    BY <1>1, <1>2, <1>4, <1>5, <1>6, <2>1, <2>2, PushedOnAgain
  <2>4. KeysBehind(s, 1) \subseteq Keys
    BY DEF KeysBehind
  <2>5. Cardinality(KeysBehind(s, 1)) <= Cardinality(Keys)
    BY <1>8, <2>4, PartOf
  <2>6. Cardinality(aliases) + Cardinality(PushedOn(s, 1)) + 1 <= Cardinality(KeysBehind(s, 1))
    BY <1>7, <2>3
  <2> QED BY <1>4, <1>9, <2>5, <2>6
<1> QED BY <1>10, <1>11

\* An allocation in the daemon leaves the counts behind an octet without an alias in order.
LEMMA AllocationKeepsCounts ==
  ASSUME Inv, phase = "daemon", NEW k \in Keys, Allocate(k), UNCHANGED <<hash, aliases>>,
         NEW p \in Octets \ aliases, NEW d \in 1..Cardinality(Octets)
  PROVE  Cardinality(AliasesBehind(p, d)') + Cardinality(PushedOn(p, d)')
           <= Cardinality(KeysBehind(p, d)')
<1> DEFINE s == Probed(k)
<1>1. TypeOK /\ OneAddressEach /\ Taken \subseteq aliases
  BY DEF Inv, AddressHasAlias
<1>2. /\ s \in Octets /\ s \in FreeOctets
      /\ \A f \in FreeOctets : Distance(hash[k], s) <= Distance(hash[k], f)
      /\ assigned'[s] = k
      /\ \A o \in Octets \ {s} : assigned'[o] = assigned[o]
  BY <1>1, AllocateTakes
<1> HIDE DEF s
<1>3. /\ NotPassed(p)
      /\ \A e \in 1..Cardinality(Octets) :
           Cardinality(AliasesBehind(p, e)) + Cardinality(PushedOn(p, e))
             <= Cardinality(KeysBehind(p, e))
  BY DEF Inv, AliasesSuffice
<1>4. p \in Octets /\ p \in FreeOctets /\ hash[k] \in Octets /\ OwnedBy(k) = {}
  BY <1>1 DEF TypeOK, Allocate, Taken
<1>5. AliasesBehind(p, d)' = AliasesBehind(p, d) /\ KeysBehind(p, d)' = KeysBehind(p, d)
  BY DEF AliasesBehind, KeysBehind, Distance
<1>6. \A y \in PushedOn(p, d)' : y # k => y \in PushedOn(p, d)
  <2> SUFFICES ASSUME NEW y \in PushedOn(p, d)', y # k PROVE y \in PushedOn(p, d)
    OBVIOUS
  <2>1. y \in KeysBehind(p, d) /\ \E o \in Octets : assigned'[o] = y /\ Distance(o, p) < d
    BY <1>5 DEF PushedOn, OwnedBy, Distance
  <2>2. PICK o \in Octets : assigned'[o] = y /\ Distance(o, p) < d
    BY <2>1
  <2>3. assigned[o] = y
    BY <1>2, <2>2
  <2> QED BY <2>1, <2>2, <2>3 DEF PushedOn, OwnedBy
<1>7. /\ IsFiniteSet(PushedOn(p, d)) /\ Cardinality(PushedOn(p, d)) \in Nat
      /\ Cardinality(AliasesBehind(p, d)) \in Nat /\ Cardinality(KeysBehind(p, d)) \in Nat
  BY <1>1, Finite, FS_CardinalityType
<1>8. CASE k \notin PushedOn(p, d)'
  <2>1. PushedOn(p, d)' \subseteq PushedOn(p, d)
    BY <1>6, <1>8
  <2>2. Cardinality(PushedOn(p, d)') <= Cardinality(PushedOn(p, d)) /\ Cardinality(PushedOn(p, d)') \in Nat
    BY <1>7, <2>1, PartOf
  <2> QED BY <1>3, <1>5, <1>7, <2>2
<1>9. CASE k \in PushedOn(p, d)'
  <2>1. d <= Distance(hash[k], p) /\ \E o \in Octets : assigned'[o] = k /\ Distance(o, p) < d
    <3>1. k \in KeysBehind(p, d)
      BY <1>5, <1>9 DEF PushedOn
    <3>2. \E o \in Octets : assigned'[o] = k /\ Distance(o, p) < d
      BY <1>9 DEF PushedOn, OwnedBy, Distance
    <3>3. Distance(hash[k], p) \in Nat /\ d \in Nat
      BY <1>4, DistanceType
    <3> QED BY <3>1, <3>2, <3>3 DEF KeysBehind
  <2>2. Distance(s, p) < d
    <3>1. \A o \in Octets : assigned[o] # k
      BY <1>4 DEF OwnedBy
    <3> QED BY <1>2, <2>1, <3>1
  <2>3. ASSUME NEW o \in Octets, d <= Distance(o, p), Distance(o, p) <= Distance(hash[k], p)
        PROVE  o \in Taken
    <3>1. SUFFICES ASSUME o \in FreeOctets PROVE FALSE
      BY DEF Taken
    <3>2. Distance(hash[k], s) <= Distance(hash[k], o) /\ Distance(hash[k], s) <= Distance(hash[k], p)
      BY <1>2, <1>4, <3>1
    <3>3. Distance(o, p) <= Distance(s, p)
      BY <1>2, <1>4, <2>3, <3>2, OnTheWay
    <3>4. Distance(o, p) \in Nat /\ Distance(s, p) \in Nat /\ d \in Nat
      BY <1>2, <1>4, DistanceType
    <3> QED BY <2>2, <2>3, <3>3, <3>4
  <2>4. Cardinality(AliasesBehind(p, d)) + Cardinality(PushedOn(p, d)) + 1
          <= Cardinality(KeysBehind(p, d))
    BY <1>1, <1>3, <1>4, <2>1, <2>3, PushedOnAgain
  <2>5. PushedOn(p, d)' \subseteq PushedOn(p, d) \cup {k}
    BY <1>6
  <2>6. /\ IsFiniteSet(PushedOn(p, d) \cup {k})
        /\ Cardinality(PushedOn(p, d) \cup {k}) <= Cardinality(PushedOn(p, d)) + 1
    <3> DEFINE P == PushedOn(p, d)
    <3>1. IsFiniteSet(P) /\ Cardinality(P) \in Nat
      BY <1>7
    <3> HIDE DEF P
    <3>2. /\ IsFiniteSet(P \cup {k})
          /\ Cardinality(P \cup {k}) = IF k \in P THEN Cardinality(P) ELSE Cardinality(P) + 1
      BY <3>1, FS_AddElement
    <3>3. Cardinality(P \cup {k}) <= Cardinality(P) + 1
      BY <3>1, <3>2
    <3> QED BY <3>2, <3>3 DEF P
  <2>7. /\ Cardinality(PushedOn(p, d)') <= Cardinality(PushedOn(p, d) \cup {k})
        /\ Cardinality(PushedOn(p, d)') \in Nat /\ Cardinality(PushedOn(p, d) \cup {k}) \in Nat
    BY <2>5, <2>6, PartOf
  <2> QED BY <1>5, <1>7, <2>4, <2>6, <2>7
<1> QED BY <1>8, <1>9

-----------------------------------------------------------------------------
(* The invariant. *)

LEMMA InitInv == Init => Inv
<1> SUFFICES ASSUME Init PROVE Inv
  OBVIOUS
<1>1. TypeOK
  BY DEF Init, TypeOK, Unassigned
<1>2. \A o \in Octets : assigned[o] = Free
  BY DEF Init, Unassigned
<1>3. OneAddressEach /\ Taken = {}
  BY <1>2 DEF OneAddressEach, Taken, FreeOctets, OwnedBy
<1>4. AddressHasAlias /\ SetupPassesNoFreeOctet
  BY <1>3 DEF AddressHasAlias, SetupPassesNoFreeOctet, NotPassed
<1>5. AliasesSuffice
  BY DEF Init, AliasesSuffice
<1> QED BY <1>1, <1>3, <1>4, <1>5 DEF Inv

LEMMA SetupAllocatesInv ==
  ASSUME Inv, NEW k \in Keys, SetupAllocates(k)
  PROVE  Inv'
<1>1. TypeOK /\ OneAddressEach /\ phase = "setup" /\ Allocate(k) /\ UNCHANGED <<hash, aliases, phase>>
  BY DEF Inv, SetupAllocates
<1>2. /\ Probed(k) \in FreeOctets
      /\ assigned' \in [Octets -> Keys \cup {Free}]
      /\ Taken' = Taken \cup {Probed(k)}
      /\ OneAddressEach'
  BY <1>1, AllocateTakes
<1>3. TypeOK'
  BY <1>1, <1>2 DEF TypeOK
<1>4. AddressHasAlias' /\ AliasesSuffice'
  BY <1>1 DEF AddressHasAlias, AliasesSuffice
<1>5. SetupPassesNoFreeOctet'
  <2> SUFFICES ASSUME NEW p \in FreeOctets' PROVE NotPassed(p)'
    BY DEF SetupPassesNoFreeOctet
  <2>1. p \in FreeOctets
    BY <1>2 DEF Taken, FreeOctets, OwnedBy
  <2>2. NotPassed(p)
    BY <1>1, <2>1 DEF Inv, SetupPassesNoFreeOctet
  <2> QED BY <1>1, <2>1, <2>2, FreeIsNotPassed
<1> QED BY <1>2, <1>3, <1>4, <1>5 DEF Inv

\* When setup is done every key has an octet of its own, none of them beyond a free one: there
\* are as many aliases as keys, and behind a free octet at least as many keys as aliases.
LEMMA SetupDoneInv ==
  ASSUME Inv, SetupDone
  PROVE  Inv'
<1>1. /\ TypeOK /\ OneAddressEach /\ phase = "setup" /\ \A k \in Keys : OwnedBy(k) # {}
      /\ aliases' = Taken /\ assigned' = Unassigned /\ phase' = "daemon" /\ hash' = hash
  BY DEF Inv, SetupDone
<1>2. TypeOK'
  BY <1>1 DEF TypeOK, Taken, Unassigned
<1>3. \A o \in Octets : assigned'[o] = Free
  BY <1>1 DEF Unassigned
<1>4. OneAddressEach' /\ Taken' = {}
  BY <1>3 DEF OneAddressEach, Taken, FreeOctets, OwnedBy
<1>5. AddressHasAlias' /\ SetupPassesNoFreeOctet'
  BY <1>1, <1>4 DEF AddressHasAlias, SetupPassesNoFreeOctet
<1>6. Taken \subseteq Octets /\ IsFiniteSet(Taken)
  BY OctetsAreFinite, PartOf DEF Taken
<1>7. Cardinality(Keys) <= Cardinality(Taken)
  <2> DEFINE owner == [o \in Taken |-> assigned[o]]
  <2>1. owner \in [Taken -> Keys]
    BY <1>1, <1>6 DEF TypeOK, Taken, FreeOctets, OwnedBy
  <2>2. \A k \in Keys : \E o \in Taken : owner[o] = k
    BY <1>1, AddressAssumption DEF Taken, FreeOctets, OwnedBy
  <2>3. owner \in Surjection(Taken, Keys)
    BY <2>1, <2>2 DEF Surjection
  <2> HIDE DEF owner
  <2> QED BY <1>6, <2>3, FS_Surjection
<1>8. ASSUME NEW p \in Octets \ Taken, NEW d \in 1..Cardinality(Octets)
      PROVE  Cardinality(AliasesBehind(p, d)') + Cardinality(PushedOn(p, d)')
               <= Cardinality(KeysBehind(p, d)')
  <2> DEFINE B == {o \in Taken : Distance(o, p) >= d}
             Owners == {assigned[o] : o \in B}
  <2>1. AliasesBehind(p, d)' = B
    BY <1>1 DEF AliasesBehind, Distance
  <2>2. KeysBehind(p, d)' = KeysBehind(p, d)
    BY <1>1 DEF KeysBehind, Distance
  <2>3. PushedOn(p, d)' = {}
    <3>1. \A k \in Keys : OwnedBy(k)' = {}
      BY <1>3, AddressAssumption DEF OwnedBy
    <3> QED BY <3>1 DEF PushedOn, KeysBehind
  <2>4. Owners \subseteq Keys /\ IsFiniteSet(B) /\ Cardinality(B) <= Cardinality(Owners)
    <3>1. B \subseteq Taken
      OBVIOUS
    <3> HIDE DEF B
    <3> QED BY <1>1, <3>1, OwnersCount
  <2>5. Owners \subseteq KeysBehind(p, d)
    <3> SUFFICES ASSUME NEW o \in B PROVE Distance(hash[assigned[o]], p) >= d
      BY <2>4 DEF KeysBehind
    <3>1. p \in FreeOctets
      BY DEF Taken
    <3>2. Distance(o, p) <= Distance(hash[assigned[o]], p)
      BY <1>1, <3>1 DEF Inv, SetupPassesNoFreeOctet, NotPassed
    <3>3. Distance(o, p) \in Nat /\ d \in Nat /\ Distance(o, p) >= d
      BY <1>6, DistanceType
    <3>4. hash[assigned[o]] \in Octets
      BY <1>1, <2>4 DEF TypeOK
    <3>5. Distance(hash[assigned[o]], p) \in Nat
      BY <3>4, DistanceType
    <3> QED BY <3>2, <3>3, <3>5
  <2> HIDE DEF B, Owners
  <2>6. Cardinality(Owners) <= Cardinality(KeysBehind(p, d)) /\ Cardinality(Owners) \in Nat
        /\ Cardinality(KeysBehind(p, d)) \in Nat
    BY <1>1, <2>5, Finite, PartOf
  <2>7. Cardinality(B) \in Nat /\ Cardinality({}) = 0
    BY <2>4, FS_CardinalityType, FS_EmptySet
  <2>8. Cardinality(B) + 0 <= Cardinality(KeysBehind(p, d))
    BY <2>4, <2>6, <2>7
  <2> QED BY <2>1, <2>2, <2>3, <2>7, <2>8
<1>9. AliasesSuffice'
  <2>1. \A p : NotPassed(p)'
    BY <1>4 DEF NotPassed
  <2> QED BY <1>1, <1>7, <1>8, <2>1 DEF AliasesSuffice
<1> QED BY <1>2, <1>4, <1>5, <1>9 DEF Inv

LEMMA DaemonAllocatesInv ==
  ASSUME Inv, NEW k \in Keys, DaemonAllocates(k)
  PROVE  Inv'
<1>1. TypeOK /\ OneAddressEach /\ phase = "daemon" /\ Allocate(k) /\ UNCHANGED <<hash, aliases, phase>>
  BY DEF Inv, DaemonAllocates
<1>2. /\ assigned' \in [Octets -> Keys \cup {Free}]
      /\ Taken' = Taken \cup {Probed(k)}
      /\ OneAddressEach'
  BY <1>1, AllocateTakes
<1>3. TypeOK'
  BY <1>1, <1>2 DEF TypeOK
<1>4. AddressHasAlias'
  <2>1. Probed(k) \in aliases
    BY <1>1, FindsAnAlias
  <2> QED BY <1>1, <1>2, <2>1 DEF Inv, AddressHasAlias
<1>5. SetupPassesNoFreeOctet'
  BY <1>1 DEF SetupPassesNoFreeOctet
<1>6. AliasesSuffice'
  <2>1. Cardinality(Keys) <= Cardinality(aliases)
    BY <1>1 DEF Inv, AliasesSuffice
  <2>2. ASSUME NEW p \in Octets \ aliases PROVE NotPassed(p)'
    <3>1. p \in FreeOctets /\ NotPassed(p)
      BY <1>1 DEF Inv, AddressHasAlias, AliasesSuffice, Taken
    <3> QED BY <1>1, <3>1, FreeIsNotPassed
  <2>3. ASSUME NEW p \in Octets \ aliases, NEW d \in 1..Cardinality(Octets)
        PROVE  Cardinality(AliasesBehind(p, d)') + Cardinality(PushedOn(p, d)')
                 <= Cardinality(KeysBehind(p, d)')
    BY <1>1, AllocationKeepsCounts
  <2> QED BY <1>1, <2>1, <2>2, <2>3 DEF AliasesSuffice
<1> QED BY <1>2, <1>3, <1>4, <1>5, <1>6 DEF Inv

LEMMA DaemonReleasesInv ==
  ASSUME Inv, NEW k \in Keys, DaemonReleases(k)
  PROVE  Inv'
<1> DEFINE s == CHOOSE o \in OwnedBy(k) : TRUE
<1>1. /\ TypeOK /\ OneAddressEach /\ phase = "daemon" /\ UNCHANGED <<hash, aliases, phase>>
      /\ assigned' = [o \in Octets |-> IF o = s THEN Free ELSE assigned[o]]
  BY DEF Inv, DaemonReleases, Release
<1> HIDE DEF s
<1>2. \A o \in Octets : assigned'[o] # Free => assigned'[o] = assigned[o]
  BY <1>1
<1>3. TypeOK'
  BY <1>1 DEF TypeOK
<1>4. OneAddressEach'
  BY <1>1, <1>2 DEF OneAddressEach
<1>5. Taken' \subseteq Taken /\ \A o \in Taken' : assigned'[o] = assigned[o]
  BY <1>2 DEF Taken, FreeOctets, OwnedBy
<1>6. AddressHasAlias'
  BY <1>1, <1>5 DEF Inv, AddressHasAlias
<1>7. SetupPassesNoFreeOctet'
  BY <1>1 DEF SetupPassesNoFreeOctet
<1>8. AliasesSuffice'
  <2>1. Cardinality(Keys) <= Cardinality(aliases)
    BY <1>1 DEF Inv, AliasesSuffice
  <2>2. ASSUME NEW p \in Octets \ aliases PROVE NotPassed(p)'
    <3>1. NotPassed(p)
      BY <1>1 DEF Inv, AliasesSuffice
    <3> QED BY <1>1, <1>5, <3>1 DEF NotPassed, Distance
  <2>3. ASSUME NEW p \in Octets \ aliases, NEW d \in 1..Cardinality(Octets)
        PROVE  Cardinality(AliasesBehind(p, d)') + Cardinality(PushedOn(p, d)')
                 <= Cardinality(KeysBehind(p, d)')
    <3>1. AliasesBehind(p, d)' = AliasesBehind(p, d) /\ KeysBehind(p, d)' = KeysBehind(p, d)
      BY <1>1 DEF AliasesBehind, KeysBehind, Distance
    <3>2. PushedOn(p, d)' \subseteq PushedOn(p, d)
      <4> SUFFICES ASSUME NEW y \in PushedOn(p, d)' PROVE y \in PushedOn(p, d)
        OBVIOUS
      <4>1. y \in KeysBehind(p, d) /\ \E o \in Octets : assigned'[o] = y /\ Distance(o, p) < d
        BY <3>1 DEF PushedOn, OwnedBy, Distance
      <4>2. y # Free
        BY <4>1, AddressAssumption DEF KeysBehind
      <4> QED BY <1>2, <4>1, <4>2 DEF PushedOn, OwnedBy
    <3>3. /\ IsFiniteSet(PushedOn(p, d)) /\ Cardinality(PushedOn(p, d)) \in Nat
          /\ Cardinality(AliasesBehind(p, d)) \in Nat /\ Cardinality(KeysBehind(p, d)) \in Nat
      BY <1>1, Finite, FS_CardinalityType
    <3>4. Cardinality(PushedOn(p, d)') <= Cardinality(PushedOn(p, d)) /\ Cardinality(PushedOn(p, d)') \in Nat
      BY <3>2, <3>3, PartOf
    <3>5. Cardinality(AliasesBehind(p, d)) + Cardinality(PushedOn(p, d)) <= Cardinality(KeysBehind(p, d))
      BY <1>1 DEF Inv, AliasesSuffice
    <3> QED BY <3>1, <3>3, <3>4, <3>5
  <2> QED BY <1>1, <2>1, <2>2, <2>3 DEF AliasesSuffice
<1> QED BY <1>3, <1>4, <1>6, <1>7, <1>8 DEF Inv

LEMMA StepInv == Inv /\ [Next]_vars => Inv'
<1> SUFFICES ASSUME Inv, [Next]_vars PROVE Inv'
  OBVIOUS
<1>1. CASE UNCHANGED vars
  <2>1. UNCHANGED <<hash, assigned, aliases, phase>>
    BY <1>1 DEF vars
  <2> QED BY <2>1 DEF Inv, TypeOK, OneAddressEach, AddressHasAlias, SetupPassesNoFreeOctet,
                      AliasesSuffice, NotPassed, AliasesBehind, KeysBehind, PushedOn, OwnedBy,
                      FreeOctets, Taken, Distance
<1> QED BY <1>1, SetupAllocatesInv, SetupDoneInv, DaemonAllocatesInv, DaemonReleasesInv DEF Next

\* Whatever hash function the keys are under, whatever order setup takes the services in and in
\* whatever order the daemon starts and stops them: no service has two addresses, and the daemon
\* assigns no address that setup has not made an alias for (internal/ip/allocator.go, cmd/setup.go).
THEOREM AddressesExist == Spec => []Inv
<1> QED BY InitInv, StepInv, PTL DEF Spec

=============================================================================
