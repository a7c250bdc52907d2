----------------------------- MODULE SessionLife -----------------------------
(* What the callers of an SSM session rely on (the Session interface and the   *)
(* contract in internal/session/manager.go): the abstract session that Engine  *)
(* keeps in proc, and that Session implements with processes and signals.      *)
CONSTANT Stoppers  \* goroutines that may call Stop

VARIABLES
  proc,      \* live, asked to end (term), killed or left with an unreaped leader (kill),
             \* gone (done is closed)
  cancelled, \* the context of its loop is done
  calls      \* a caller's Stop: idle, waiting or returned

lifeVars == <<proc, cancelled, calls>>

\* Start has returned a session.
Init ==
  /\ proc = "live" /\ cancelled = FALSE
  /\ calls = [c \in Stoppers |-> "idle"]

Signalled == IF proc = "live" THEN "term" ELSE proc

\* It ends by itself, or obeys SIGTERM.
Dies ==
  /\ proc \in {"live", "term"}
  /\ proc' = "gone"
  /\ UNCHANGED <<cancelled, calls>>

Killed ==
  /\ proc = "kill"
  /\ proc' = "gone"
  /\ UNCHANGED <<cancelled, calls>>

\* The service is stopped; the signal may go out with it.
Cancel ==
  /\ ~cancelled /\ cancelled' = TRUE
  /\ proc' \in {proc, Signalled}
  /\ UNCHANGED calls

\* os/exec signals, and kills after WaitDelay.
Cancelled ==
  /\ cancelled
  /\ \/ proc = "live" /\ proc' = "term"
     \/ proc = "term" /\ proc' = "kill"
  /\ UNCHANGED <<cancelled, calls>>

Stop(c) ==
  /\ calls[c] = "idle"
  /\ calls' = [calls EXCEPT ![c] = "waiting"]
  /\ proc' = Signalled
  /\ UNCHANGED cancelled

\* Stop returns: the session is gone, or the timeout passed and it was killed, or it could not
\* be signalled because its last process had ended.
Return(c) ==
  /\ calls[c] = "waiting" \/ (calls[c] = "idle" /\ proc = "gone")
  /\ calls' = [calls EXCEPT ![c] = "returned"]
  /\ proc' = IF proc = "gone" THEN proc ELSE "kill"
  /\ UNCHANGED cancelled

Next ==
  \/ Dies \/ Killed \/ Cancel \/ Cancelled
  \/ \E c \in Stoppers : Stop(c) \/ Return(c)

\* Whoever waits has asked the session to end, and a Stop that has returned has ended it.
StopEnds ==
  \A c \in Stoppers :
    /\ calls[c] = "waiting" => proc # "live"
    /\ calls[c] = "returned" => proc \in {"kill", "gone"}

\* What the engine's fairness assumes of a session: killed or cancelled, it comes to its end;
\* a Stop returns.
Spec ==
  /\ Init /\ [][Next]_lifeVars
  /\ WF_lifeVars(Killed \/ Cancelled)
  /\ \A c \in Stoppers : WF_lifeVars(calls[c] = "waiting" /\ Return(c))

=============================================================================
