---------------------------- MODULE BackoffProofs ----------------------------
(* Proofs about Backoff, for every initial, largest, rotation and stable time   *)
(* and every range of time.Duration: a retry's delay is within its bounds until  *)
(* the doubling leaves that range, and again after a stable session.            *)
(*                                                                              *)
(* That the doubled delays exist and grow is induction over the attempts, done  *)
(* by hand from the least attempt at which it would fail.                       *)
EXTENDS Backoff, WellFoundedInduction, TLAPS

-----------------------------------------------------------------------------
(* The doubled delay. *)

\* A set of naturals that is not empty has a least element.
LEMMA LeastElement ==
  ASSUME NEW T \in SUBSET Nat, T # {}
  PROVE  \E x \in T : \A y \in T : x <= y
<1>1. PICK x \in T : \A y \in T : <<y, x>> \notin OpToRel(<, Nat)
  BY NatLessThanWellFounded, WFMin, Zenon
<1>2. \A y \in T : ~(y < x)
  BY <1>1, Zenon DEF OpToRel
<1> QED BY <1>2

\* A function doubles from InitialDelay on up to attempt n.
DoublesUpTo(f, n) == f = [j \in 0..n |-> IF j = 0 THEN InitialDelay ELSE 2 * f[j - 1]]

\* For every n there is one: it is extended from one attempt to the next.
LEMMA DoublingIsDefined ==
  ASSUME NEW n \in Nat
  PROVE  \E f : DoublesUpTo(f, n)
<1> DEFINE Failing == {i \in Nat : ~ \E f : DoublesUpTo(f, i)}
<1>1. SUFFICES ASSUME Failing # {} PROVE FALSE
  OBVIOUS
<1>2. PICK i \in Failing : \A j \in Failing : i <= j
  BY <1>1, LeastElement
<1>3. i \in Nat /\ ~ \E f : DoublesUpTo(f, i)
  BY <1>2
<1>4. CASE i = 0
  <2> DEFINE g == [j \in 0..0 |-> InitialDelay]
  <2>1. g = [j \in 0..0 |-> IF j = 0 THEN InitialDelay ELSE 2 * g[j - 1]]
    OBVIOUS
  <2> QED BY <2>1, <1>3, <1>4 DEF DoublesUpTo
<1>5. CASE i # 0
  <2>1. i - 1 \in Nat /\ i - 1 \notin Failing
    BY <1>2, <1>3, <1>5
  <2>2. PICK f : DoublesUpTo(f, i - 1)
    BY <2>1
  <2> DEFINE g == [j \in 0..i |-> IF j = i THEN 2 * f[i - 1] ELSE f[j]]
  <2>3. ASSUME NEW j \in 0..i PROVE g[j] = IF j = 0 THEN InitialDelay ELSE 2 * g[j - 1]
    <3>1. CASE j = i
      BY <3>1, <1>3, <1>5
    <3>2. CASE j # i
      <4>1. j \in 0..(i - 1) /\ g[j] = f[j] /\ (j # 0 => g[j - 1] = f[j - 1])
        BY <3>2, <1>3
      <4>2. f[j] = IF j = 0 THEN InitialDelay ELSE 2 * f[j - 1]
        BY <2>2, <4>1 DEF DoublesUpTo
      <4> QED BY <4>1, <4>2
    <3> QED BY <3>1, <3>2
  <2>4. DoublesUpTo(g, i)
    BY <2>3 DEF DoublesUpTo
  <2> QED BY <2>4, <1>3
<1> QED BY <1>4, <1>5

\* The delay of the first attempt is InitialDelay, and none is shorter.
LEMMA NoneIsShorter ==
  /\ Doubled[0] = InitialDelay
  /\ \A n \in 0..MaxAttempt : Doubled[n] \in Nat /\ Doubled[n] >= InitialDelay
<1>1. MaxAttempt \in Nat /\ InitialDelay \in Nat
  BY BackoffAssumption
<1>2. DoublesUpTo(Doubled, MaxAttempt)
  BY <1>1, DoublingIsDefined DEF Doubled, DoublesUpTo
<1>3. \A n \in 0..MaxAttempt : Doubled[n] = IF n = 0 THEN InitialDelay ELSE 2 * Doubled[n - 1]
  BY <1>2 DEF DoublesUpTo
<1>4. Doubled[0] = InitialDelay
  BY <1>1, <1>3
<1> DEFINE Failing == {n \in 0..MaxAttempt : ~(Doubled[n] \in Nat /\ Doubled[n] >= InitialDelay)}
<1>5. ASSUME Failing # {} PROVE FALSE
  <2>1. PICK n \in Failing : \A j \in Failing : n <= j
    <3>1. Failing \in SUBSET Nat
      BY <1>1
    <3> HIDE DEF Failing
    <3> QED BY <1>5, <3>1, LeastElement
  <2>2. n \in 0..MaxAttempt /\ n # 0
    BY <1>1, <1>4, <2>1
  <2>3. n - 1 \in 0..MaxAttempt /\ n - 1 \notin Failing
    BY <1>1, <2>1, <2>2
  <2>4. Doubled[n - 1] \in Nat /\ Doubled[n - 1] >= InitialDelay
    BY <2>3
  <2>5. Doubled[n] = 2 * Doubled[n - 1]
    BY <1>3, <2>2
  <2> QED BY <1>1, <2>1, <2>4, <2>5
<1> QED BY <1>4, <1>5

\* What NextDelay makes of an attempt: a delay within the bounds while the doubled one fits a
\* time.Duration, the shortest at first; from then on the cap, or a negative number.
LEMMA DelayOfAttempt ==
  ASSUME NEW n \in 0..MaxAttempt, NEW d \in Delays(n)
  PROVE  /\ d \in Int
         /\ n < MaxAttempt => d \in InitialDelay..MaxDelay
         /\ n = 0 => d = InitialDelay
         /\ n = MaxAttempt => d = MaxDelay \/ d < 0
<1>1. /\ InitialDelay \in Nat /\ MaxDelay \in Nat /\ MaxDuration \in Nat /\ MaxAttempt \in Nat
      /\ InitialDelay <= MaxDelay /\ MaxDelay <= MaxDuration
      /\ Doubled[MaxAttempt] > MaxDuration
      /\ \A j \in 0..MaxAttempt - 1 : Doubled[j] <= MaxDuration
  BY BackoffAssumption
<1>2. Doubled[n] \in Nat /\ Doubled[n] >= InitialDelay /\ Doubled[0] = InitialDelay
  BY NoneIsShorter
<1>3. PICK u \in Durations(Doubled[n]) : d = Smaller(u, MaxDelay)
  BY DEF Delays
<1>4. CASE n < MaxAttempt
  <2>1. Doubled[n] <= MaxDuration
    BY <1>1, <1>4
  <2>2. u = Doubled[n]
    BY <1>3, <2>1 DEF Durations
  <2> QED BY <1>1, <1>2, <1>3, <1>4, <2>2 DEF Smaller
<1>5. CASE n = MaxAttempt
  <2>1. u = MaxDuration \/ u = -MaxDuration - 1
    BY <1>1, <1>2, <1>3, <1>5 DEF Durations
  <2>2. n # 0
    BY <1>1, <1>2, <1>5
  <2> QED BY <1>1, <1>3, <1>5, <2>1, <2>2 DEF Smaller
<1> QED BY <1>1, <1>4, <1>5

-----------------------------------------------------------------------------
(* The invariant. *)

\* The types, and that a session that was stable was connected long enough ago.
BackoffInv == TypeOK /\ UpSinceConnected

LEMMA InitBackoff == Init => BackoffInv
BY BackoffAssumption DEF Init, BackoffInv, TypeOK, UpSinceConnected, Never

LEMMA StepBackoff == BackoffInv /\ [Next]_vars => BackoffInv'
<1> SUFFICES ASSUME BackoffInv, [Next]_vars PROVE BackoffInv'
  OBVIOUS
<1>1. /\ MaxDelay \in Nat /\ StableAfter \in Nat /\ StableAfter > 0 /\ MaxAttempt \in Nat
      /\ RotationDelay \in 0..MaxDelay
  BY BackoffAssumption
<1> USE DEF BackoffInv, TypeOK, UpSinceConnected, Never, Smaller
<1>2. CASE Tick
  BY <1>1, <1>2 DEF Tick
<1>3. CASE Connected
  BY <1>1, <1>3 DEF Connected
<1>4. CASE ConnectFails
  BY <1>1, <1>4 DEF ConnectFails
<1>5. CASE SessionEnds
  BY <1>1, <1>5 DEF SessionEnds
<1>6. CASE TargetRotated
  BY <1>1, <1>6 DEF TargetRotated
<1>7. CASE BackOff
  <2> DEFINE n == IF ShouldReset THEN 0 ELSE attempt
  <2>1. n \in 0..MaxAttempt
    BY <1>1
  <2>2. /\ attempt' = Smaller(n + 1, MaxAttempt)
        /\ \E d \in Delays(n) : wait' = IF d < 0 THEN 0 ELSE d
    BY <1>7 DEF BackOff
  <2> HIDE DEF n
  <2>3. PICK d \in Delays(n) : wait' = IF d < 0 THEN 0 ELSE d
    BY <2>2
  <2>4. d \in Int /\ d <= MaxDelay
    BY <1>1, <2>1, DelayOfAttempt, BackoffAssumption
  <2>5. wait' \in 0..MaxDelay
    BY <1>1, <2>3, <2>4
  <2>6. attempt' \in 0..MaxAttempt
    BY <1>1, <2>1, <2>2
  <2>7. /\ pc' = "delay" /\ upFor' = 0
        /\ since' = IF ShouldReset THEN Never ELSE since
    BY <1>7 DEF BackOff
  <2> QED BY <1>1, <2>5, <2>6, <2>7
<1>8. CASE DelayOver
  BY <1>1, <1>8 DEF DelayOver
<1>9. CASE UNCHANGED vars
  BY <1>9 DEF vars
<1> QED BY <1>2, <1>3, <1>4, <1>5, <1>6, <1>7, <1>8, <1>9 DEF Next

\* The step that sets the delay is NextDelay's.
LEMMA DelayIsSet ==
  ASSUME BackoffInv, Next, pc = "retry", pc' = "delay"
  PROVE  BackOff
BY DEF Next, Tick, Connected, ConnectFails, SessionEnds, TargetRotated, DelayOver

-----------------------------------------------------------------------------

\* A session that was up for StableAfter is followed by the shortest delay, whatever the loop
\* had backed off to before it (runService of internal/engine/engine.go and ShouldReset of
\* internal/reconnect/backoff.go).
THEOREM StableResets == Spec => StableStartsOver
<1>1. BackoffInv /\ [Next]_vars =>
        [(pc = "retry" /\ pc' = "delay" /\ upFor >= StableAfter) => wait' = InitialDelay]_vars
  <2> SUFFICES ASSUME BackoffInv, Next, pc = "retry", pc' = "delay", upFor >= StableAfter
               PROVE  wait' = InitialDelay
    OBVIOUS
  <2>1. BackOff
    BY DelayIsSet
  <2>2. ShouldReset
    BY BackoffAssumption DEF BackoffInv, TypeOK, UpSinceConnected, ShouldReset, Never
  <2>3. PICK d \in Delays(0) : wait' = IF d < 0 THEN 0 ELSE d
    BY <2>1, <2>2 DEF BackOff
  <2>4. d = InitialDelay
    <3>1. 0 \in 0..MaxAttempt
      BY BackoffAssumption
    <3> QED BY <3>1, DelayOfAttempt
  <2> QED BY <2>3, <2>4, BackoffAssumption
<1> QED BY <1>1, InitBackoff, StepBackoff, PTL DEF Spec, StableStartsOver

\* README.md's "1s → 30s, capped by max_backoff_seconds", as far as the code keeps to it: the
\* delay before a retry is between the first one and the cap as long as the doubled delay fits
\* a time.Duration, and again from the first retry after a stable session (NextDelay of
\* internal/reconnect/backoff.go).
THEOREM DelayIsBounded == Spec => BoundedBeforeOverflow
<1>1. BackoffInv /\ [Next]_vars =>
        [(pc = "retry" /\ pc' = "delay" /\ (attempt < MaxAttempt \/ upFor >= StableAfter)) =>
            wait' \in InitialDelay..MaxDelay]_vars
  <2> SUFFICES ASSUME BackoffInv, Next, pc = "retry", pc' = "delay",
                      attempt < MaxAttempt \/ upFor >= StableAfter
               PROVE  wait' \in InitialDelay..MaxDelay
    OBVIOUS
  <2> DEFINE n == IF ShouldReset THEN 0 ELSE attempt
  <2>1. /\ attempt \in 0..MaxAttempt /\ MaxAttempt \in Nat /\ InitialDelay \in Nat
        /\ InitialDelay > 0 /\ MaxDelay \in Nat /\ InitialDelay <= MaxDelay
    BY BackoffAssumption DEF BackoffInv, TypeOK
  <2>2. n \in 0..MaxAttempt
    BY <2>1
  <2>3. BackOff
    BY DelayIsSet
  <2>4. PICK d \in Delays(n) : wait' = IF d < 0 THEN 0 ELSE d
    BY <2>3 DEF BackOff
  <2>5. CASE ShouldReset
    <3>1. d = InitialDelay
      BY <2>2, <2>5, DelayOfAttempt
    <3> QED BY <2>1, <2>4, <3>1
  <2>6. CASE ~ShouldReset
    <3>1. n = attempt
      BY <2>6
    <3>2. attempt < MaxAttempt
      BY <2>6, BackoffAssumption DEF BackoffInv, TypeOK, UpSinceConnected, ShouldReset, Never
    <3>3. d \in InitialDelay..MaxDelay
      BY <2>2, <3>1, <3>2, DelayOfAttempt
    <3> QED BY <2>1, <2>4, <3>3
  <2> QED BY <2>5, <2>6
<1> QED BY <1>1, InitBackoff, StepBackoff, PTL DEF Spec, BoundedBeforeOverflow

=============================================================================
