------------------------------ MODULE Backoff ------------------------------
(* The pauses of one service loop (internal/reconnect/backoff.go, and its use  *)
(* in runService and connect of internal/engine/engine.go) against the clock.  *)
(* The multiplier is 2.  Stops and failed credentials are Engine's subject.    *)
EXTENDS Integers

CONSTANTS
  InitialDelay, MaxDelay, StableAfter, RotationDelay,
  MaxDuration,  \* the largest time.Duration
  MaxAttempt    \* attempts from which the delay no longer fits a time.Duration

\* InitialDelay * Multiplier^n, as far as attempts are told apart.
Doubled[n \in 0..MaxAttempt] == IF n = 0 THEN InitialDelay ELSE 2 * Doubled[n - 1]

ASSUME BackoffAssumption ==
  /\ {InitialDelay, MaxDelay, StableAfter} \subseteq Nat \ {0}
  /\ InitialDelay <= MaxDelay /\ MaxDelay <= MaxDuration /\ RotationDelay \in 0..MaxDelay
  /\ {MaxDuration, MaxAttempt} \subseteq Nat /\ Doubled[MaxAttempt] > MaxDuration
  /\ \A n \in 0..MaxAttempt - 1 : Doubled[n] <= MaxDuration

VARIABLES
  pc,       \* where the loop is: connect, up, retry or delay
  attempt,  \* b.attempt; from MaxAttempt on the values are not told apart
  since,    \* the time since b.connectedAt, counted up to StableAfter
  wait,     \* how long the pause still takes
  upFor     \* how long the last session was up, until the next NextDelay (history)

vars == <<pc, attempt, since, wait, upFor>>

Never == -1   \* b.connectedAt is the zero time
Smaller(a, b) == IF a < b THEN a ELSE b

TypeOK ==
  /\ pc \in {"connect", "up", "retry", "delay"}
  /\ attempt \in 0..MaxAttempt /\ since \in Never..StableAfter
  /\ wait \in 0..MaxDelay /\ upFor \in 0..StableAfter

\* The last session was not up for longer than since it was connected.
UpSinceConnected == IF since = Never THEN upFor = 0 /\ pc # "up" ELSE upFor <= since

Init == pc = "connect" /\ attempt = 0 /\ since = Never /\ wait = 0 /\ upFor = 0

\* What time.Duration(float64) makes of a number.  Go leaves a value out of range to the
\* implementation: amd64 returns the smallest int64, arm64 the largest.
Durations(units) ==
  IF units <= MaxDuration THEN {units} ELSE {MaxDuration, -MaxDuration - 1}

\* Wrong on purpose: the delay is not capped.
DelaysUncapped(n) == Durations(Doubled[n])

\* The delays NextDelay may return for an attempt.
Delays(n) == {Smaller(d, MaxDelay) : d \in Durations(Doubled[n])}

ShouldReset == since # Never /\ since >= StableAfter

-----------------------------------------------------------------------------

Tick ==
  /\ since' = IF since = Never THEN Never ELSE Smaller(since + 1, StableAfter)
  /\ wait' = IF wait = 0 THEN 0 ELSE wait - 1
  /\ upFor' = IF pc = "up" THEN Smaller(upFor + 1, StableAfter) ELSE upFor
  /\ UNCHANGED <<pc, attempt>>

\* connect commits: MarkConnected.
Connected ==
  /\ pc = "connect"
  /\ pc' = "up" /\ since' = 0 /\ upFor' = 0
  /\ UNCHANGED <<attempt, wait>>

ConnectFails ==
  /\ pc = "connect"
  /\ pc' = "retry"
  /\ UNCHANGED <<attempt, since, wait, upFor>>

SessionEnds ==
  /\ pc = "up"
  /\ pc' = "retry"
  /\ UNCHANGED <<attempt, since, wait, upFor>>

\* The target was rotated out: targetRotationRetryDelay takes the place of the backoff.
TargetRotated ==
  /\ pc = "up"
  /\ pc' = "delay" /\ wait' = RotationDelay
  /\ UNCHANGED <<attempt, since, upFor>>

\* Wrong on purpose: the reset forgets the time of the connection and keeps the count.
BackOffKeepsCount ==
  /\ pc = "retry"
  /\ pc' = "delay" /\ upFor' = 0
  /\ since' = IF ShouldReset THEN Never ELSE since
  /\ attempt' = Smaller(attempt + 1, MaxAttempt)
  /\ \E d \in Delays(attempt) : wait' = IF d < 0 THEN 0 ELSE d

\* ShouldReset, Reset, NextDelay; time.After takes a negative delay as none.
BackOff ==
  /\ pc = "retry"
  /\ pc' = "delay" /\ upFor' = 0
  /\ since' = IF ShouldReset THEN Never ELSE since
  /\ LET n == IF ShouldReset THEN 0 ELSE attempt
     IN  /\ attempt' = Smaller(n + 1, MaxAttempt)
         /\ \E d \in Delays(n) : wait' = IF d < 0 THEN 0 ELSE d

DelayOver ==
  /\ pc = "delay" /\ wait = 0
  /\ pc' = "connect"
  /\ UNCHANGED <<attempt, since, wait, upFor>>

Next ==
  \/ Tick \/ Connected \/ ConnectFails \/ SessionEnds \/ TargetRotated \/ BackOff
  \/ DelayOver

\* Time passes, and connect returns.
Spec ==
  /\ Init /\ [][Next]_vars
  /\ WF_vars(Tick) /\ WF_vars(BackOff) /\ WF_vars(DelayOver)
  /\ WF_vars(Connected \/ ConnectFails)

-----------------------------------------------------------------------------

\* A session that was up for StableAfter is followed by the shortest delay, whatever the loop
\* had backed off to before it.
StableStartsOver ==
  [][(pc = "retry" /\ pc' = "delay" /\ upFor >= StableAfter) => wait' = InitialDelay]_vars

\* README.md: "exponential backoff (1s → 30s, capped by
\* `defaults.reconnect.max_backoff_seconds`)": every delay before a retry is between the first
\* one and the cap.  The code does not keep to it: nothing bounds
\* the count, and once the doubled delay no longer fits a time.Duration, after some 16 minutes
\* of failed attempts, there is no pause at all on amd64.
DelayWithinBounds ==
  [][(pc = "retry" /\ pc' = "delay") => wait' \in InitialDelay..MaxDelay]_vars

\* What remains of it: the bounds hold for as long as the doubled delay fits a time.Duration,
\* and again from the first retry after a stable session.
BoundedBeforeOverflow ==
  [][(pc = "retry" /\ pc' = "delay" /\ (attempt < MaxAttempt \/ upFor >= StableAfter)) =>
        wait' \in InitialDelay..MaxDelay]_vars

=============================================================================
