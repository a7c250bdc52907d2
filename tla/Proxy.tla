-------------------------------- MODULE Proxy --------------------------------
(* The TCP proxy in front of a session (internal/proxy/proxy.go): the accept   *)
(* loop, a handler per accepted connection with its two copying goroutines,    *)
(* and Stop, which closes what is registered and waits for all of them.        *)
(*                                                                             *)
(* A connection has two sockets, towards the client (src) and towards the      *)
(* session's local port (dst).  The bytes are left out: a socket is open or    *)
(* closed on our side, and its peer may have finished sending or be gone.      *)
EXTENDS FiniteSets

CONSTANT Conns  \* the connections that clients make

Sides == {"src", "dst"}
Sockets == Conns \X Sides
Other(side) == IF side = "src" THEN "dst" ELSE "src"

VARIABLES
  loop,     \* where Start and its accept loop are
  listening, \* the listener is open
  handler,  \* where a connection and its handler goroutine are
  open,     \* sockets that are open on our side
  ended,    \* sockets whose peer has finished sending
  gone,     \* those whose peer does not receive any more either
  copying,  \* sides that a connection's goroutines still copy from
  shut,     \* sockets on which CloseWrite has told the peer so
  conns, stopped, \* p.conns and p.stopped, guarded by p.mu
  stop,     \* where Stop is
  toClose   \* its local toClose

vars == <<loop, listening, handler, open, ended, gone, copying, shut, conns, stopped, stop,
          toClose>>

peerVars == <<ended, gone>>
copyVars == <<copying, shut>>
stopVars == <<stopped, stop, toClose>>
listenVars == <<loop, listening>>

Unstarted == {"none", "backlog", "refused"}   \* no handler goroutine
Finished == {"done"} \cup Unstarted

TypeOK ==
  /\ loop \in {"new", "failed", "accept", "spawn", "done"}
  /\ listening \in BOOLEAN /\ stopped \in BOOLEAN
  /\ handler \in [Conns -> Finished \cup {"accepted", "track", "dial", "trackdst", "copy",
                                          "untrackdst", "closedst", "untracksrc", "closesrc"}]
  /\ open \subseteq Sockets /\ conns \subseteq Sockets /\ toClose \subseteq Sockets
  /\ ended \subseteq Sockets /\ gone \subseteq ended
  /\ copying \in [Conns -> SUBSET Sides] /\ shut \subseteq Sockets
  /\ stop \in {"idle", "listener", "conns", "wait", "returned"}

Init ==
  /\ loop = "new" /\ listening = FALSE
  /\ handler = [c \in Conns |-> "none"]
  /\ open = {} /\ ended = {} /\ gone = {} /\ copying = [c \in Conns |-> {}]
  /\ shut = {}
  /\ conns = {} /\ stopped = FALSE
  /\ stop = "idle" /\ toClose = {}

-----------------------------------------------------------------------------
(* Start and the accept loop. *)

StartListens ==
  /\ loop = "new"
  /\ listening' = TRUE
  /\ loop' = "accept"
  /\ UNCHANGED <<handler, open, peerVars, copyVars, conns, stopVars>>

\* The address is in use: the proxy is never handed out.
StartFails ==
  /\ loop = "new"
  /\ loop' = "failed"
  /\ UNCHANGED <<listening, handler, open, peerVars, copyVars, conns, stopVars>>

Accept(c) ==
  /\ loop = "accept" /\ listening /\ handler[c] = "backlog"
  /\ handler' = [handler EXCEPT ![c] = "accepted"]
  /\ open' = open \cup {<<c, "src">>}
  /\ loop' = "spawn"
  /\ UNCHANGED <<listening, peerVars, copyVars, conns, stopVars>>

\* wg.Add and the handler goroutine.
Spawn(c) ==
  /\ loop = "spawn" /\ handler[c] = "accepted"
  /\ handler' = [handler EXCEPT ![c] = "track"]
  /\ loop' = "accept"
  /\ UNCHANGED <<listening, open, peerVars, copyVars, conns, stopVars>>

\* Accept returns an error: the listener was closed, or the process has no file descriptor left.
AcceptFails ==
  /\ loop = "accept"
  /\ loop' = "done"
  /\ UNCHANGED <<listening, handler, open, peerVars, copyVars, conns, stopVars>>

-----------------------------------------------------------------------------
(* handleConn. *)

Goto(c, place) == handler' = [handler EXCEPT ![c] = place]

\* Wrong on purpose: track registers without looking at stopped.
TrackAlways(c, side, next, refused) ==
  /\ conns' = conns \cup {<<c, side>>}
  /\ Goto(c, next)

\* track: one critical section of p.mu.
Track(c, side, next, refused) ==
  /\ conns' = IF stopped THEN conns ELSE conns \cup {<<c, side>>}
  /\ Goto(c, IF stopped THEN refused ELSE next)

HandleTrackSrc(c) ==
  /\ handler[c] = "track"
  /\ Track(c, "src", "dial", "closesrc")
  /\ UNCHANGED <<listenVars, open, peerVars, copyVars, stopVars>>

HandleDial(c) ==
  /\ handler[c] = "dial"
  /\ open' = open \cup {<<c, "dst">>}
  /\ Goto(c, "trackdst")
  /\ UNCHANGED <<listenVars, peerVars, copyVars, conns, stopVars>>

\* The session's port refuses, or the context is done.
HandleDialFails(c) ==
  /\ handler[c] = "dial"
  /\ Goto(c, "untracksrc")
  /\ UNCHANGED <<listenVars, open, peerVars, copyVars, conns, stopVars>>

HandleTrackDst(c) ==
  /\ handler[c] = "trackdst"
  /\ Track(c, "dst", "copy", "closedst")
  /\ copying' = [copying EXCEPT ![c] = IF handler'[c] = "copy" THEN Sides ELSE @]
  /\ UNCHANGED <<listenVars, open, peerVars, shut, stopVars>>

\* io.Copy returns: nothing more to read, or nowhere to write it; then CloseWrite.
CopyEnds(c, side) ==
  /\ handler[c] = "copy" /\ side \in copying[c]
  /\ \/ <<c, side>> \in ended \/ <<c, side>> \notin open
     \/ <<c, Other(side)>> \in gone \/ <<c, Other(side)>> \notin open
  /\ copying' = [copying EXCEPT ![c] = @ \ {side}]
  /\ shut' = shut \cup {<<c, Other(side)>>}
  /\ UNCHANGED <<listenVars, handler, open, peerVars, conns, stopVars>>

\* Wrong on purpose: the handler waits for one of the two directions.
HandleOneCopied(c) ==
  /\ handler[c] = "copy" /\ copying[c] # Sides
  /\ Goto(c, "untrackdst")
  /\ UNCHANGED <<listenVars, open, peerVars, copyVars, conns, stopVars>>

\* The handler's own WaitGroup: both directions have ended.
HandleCopied(c) ==
  /\ handler[c] = "copy" /\ copying[c] = {}
  /\ Goto(c, "untrackdst")
  /\ UNCHANGED <<listenVars, open, peerVars, copyVars, conns, stopVars>>

\* Wrong on purpose: the socket to the session stays registered.
HandleUntrackSrcOnly(c) ==
  /\ \/ /\ handler[c] = "untrackdst" /\ Goto(c, "closedst")
        /\ UNCHANGED conns
     \/ /\ handler[c] = "untracksrc" /\ Goto(c, "closesrc")
        /\ conns' = conns \ {<<c, "src">>}
  /\ UNCHANGED <<listenVars, open, peerVars, copyVars, stopVars>>

HandleUntrack(c) ==
  /\ \/ /\ handler[c] = "untrackdst" /\ Goto(c, "closedst")
        /\ conns' = conns \ {<<c, "dst">>}
     \/ /\ handler[c] = "untracksrc" /\ Goto(c, "closesrc")
        /\ conns' = conns \ {<<c, "src">>}
  /\ UNCHANGED <<listenVars, open, peerVars, copyVars, stopVars>>

HandleClose(c) ==
  /\ \/ /\ handler[c] = "closedst" /\ Goto(c, "untracksrc")
        /\ open' = open \ {<<c, "dst">>}
     \/ /\ handler[c] = "closesrc" /\ Goto(c, "done")
        /\ open' = open \ {<<c, "src">>}
  /\ UNCHANGED <<listenVars, peerVars, copyVars, conns, stopVars>>

HandlerStep(c) ==
  \/ HandleTrackSrc(c) \/ HandleDial(c) \/ HandleDialFails(c) \/ HandleTrackDst(c)
  \/ HandleCopied(c) \/ HandleUntrack(c) \/ HandleClose(c)

-----------------------------------------------------------------------------
(* Stop, called once by whoever took the proxy from its instance. *)

StopBegins ==
  /\ stop = "idle" /\ loop \notin {"new", "failed"}
  /\ stopped' = TRUE
  /\ toClose' = conns
  /\ stop' = "listener"
  /\ UNCHANGED <<listenVars, handler, open, peerVars, copyVars, conns>>

\* The kernel resets the connections that nobody has accepted.
StopClosesListener ==
  /\ stop = "listener"
  /\ listening' = FALSE
  /\ handler' = [c \in Conns |-> IF handler[c] = "backlog" THEN "refused" ELSE handler[c]]
  /\ stop' = "conns"
  /\ UNCHANGED <<loop, open, peerVars, copyVars, conns, stopped, toClose>>

StopClosesConn(s) ==
  /\ stop = "conns" /\ s \in toClose
  /\ open' = open \ {s}
  /\ toClose' = toClose \ {s}
  /\ UNCHANGED <<listenVars, handler, peerVars, copyVars, conns, stopped, stop>>

StopClosedConns ==
  /\ stop = "conns" /\ toClose = {}
  /\ stop' = "wait"
  /\ UNCHANGED <<listenVars, handler, open, peerVars, copyVars, conns, stopped, toClose>>

\* Wrong on purpose: the accept loop is not counted by the WaitGroup.
WaitedForHandlers == \A c \in Conns : handler[c] \in Finished \cup {"accepted"}

\* The WaitGroup counts the accept loop and the handlers it has spawned.
WaitedFor ==
  loop = "done" /\ \A c \in Conns : handler[c] \in Finished \cup {"accepted"}

StopReturn ==
  /\ stop = "wait" /\ WaitedFor
  /\ stop' = "returned"
  /\ UNCHANGED <<listenVars, handler, open, peerVars, copyVars, conns, stopped, toClose>>

StopStep ==
  \/ StopClosesListener \/ StopClosedConns \/ StopReturn
  \/ \E s \in Sockets : StopClosesConn(s)

-----------------------------------------------------------------------------
(* Clients and the session's end. *)

Connect(c) ==
  /\ listening /\ handler[c] = "none"
  /\ Goto(c, "backlog")
  /\ UNCHANGED <<listenVars, open, peerVars, copyVars, conns, stopVars>>

PeerEndsSending(s) ==
  /\ s \in open \ ended
  /\ ended' = ended \cup {s}
  /\ UNCHANGED <<listenVars, handler, open, gone, copyVars, conns, stopVars>>

PeerGoes(s) ==
  /\ s \in open \ gone
  /\ ended' = ended \cup {s}
  /\ gone' = gone \cup {s}
  /\ UNCHANGED <<listenVars, handler, open, copyVars, conns, stopVars>>

-----------------------------------------------------------------------------

AcceptStep == \E c \in Conns : Accept(c) \/ Spawn(c)

Next ==
  \/ StartListens \/ StartFails \/ AcceptStep \/ AcceptFails
  \/ \E c \in Conns : Connect(c) \/ HandlerStep(c) \/ \E side \in Sides : CopyEnds(c, side)
  \/ StopBegins \/ StopStep
  \/ \E s \in Sockets : PeerEndsSending(s) \/ PeerGoes(s)

\* Goroutines run, a dial ends one way or the other, Accept on a closed listener fails, and a
\* copy notices that what it reads has ended or was closed.  Peers do what they like.
Spec ==
  /\ Init /\ [][Next]_vars
  /\ WF_vars(AcceptStep) /\ WF_vars(~listening /\ AcceptFails)
  /\ WF_vars(StopStep)
  /\ \A c \in Conns : WF_vars(HandlerStep(c))
  /\ \A c \in Conns, side \in Sides :
       WF_vars((<<c, side>> \in ended \/ <<c, side>> \notin open) /\ CopyEnds(c, side))

-----------------------------------------------------------------------------

(* The invariant behind the properties: which goroutine owns what. *)

\* Only the accept loop holds a connection that has no handler yet, and one at a time.
AcceptedIsHeld ==
  /\ loop = "spawn" <=> \E c \in Conns : handler[c] = "accepted"
  /\ \A c, d \in Conns : (handler[c] = "accepted" /\ handler[d] = "accepted") => c = d

\* A socket is open, and registered, only while its handler will still close it and forget it.
SocketsHaveHandler ==
  \A c \in Conns :
    /\ <<c, "src">> \in open => handler[c] \notin Finished
    /\ <<c, "dst">> \in open => handler[c] \in {"trackdst", "copy", "untrackdst", "closedst"}
    /\ <<c, "src">> \in conns => handler[c] \notin Finished \cup {"accepted", "track", "closesrc"}
    /\ <<c, "dst">> \in conns => handler[c] \in {"copy", "untrackdst"}

\* As long as nobody stops the proxy, a handler's sockets are open until it closes them itself.
SocketsStayOpen ==
  \A c \in Conns : ~stopped =>
    /\ handler[c] \notin Finished => <<c, "src">> \in open
    /\ handler[c] \in {"trackdst", "copy", "untrackdst", "closedst"} => <<c, "dst">> \in open

\* A direction that is not copied any more, unless Stop ended it, had nothing to carry.
CopiesEnded ==
  \A c \in Conns : (handler[c] \in {"copy", "untrackdst"} /\ ~stopped) =>
    /\ handler[c] = "untrackdst" => copying[c] = {}
    /\ \A side \in Sides \ copying[c] :
         /\ <<c, side>> \in ended \/ <<c, Other(side)>> \in gone
         /\ <<c, Other(side)>> \in shut

StopOrder ==
  /\ stopped <=> stop # "idle"
  /\ listening => stop \in {"idle", "listener"} /\ loop \notin {"new", "failed"}
  /\ loop \in {"new", "failed"} => stop = "idle" /\ \A c \in Conns : handler[c] = "none"
  /\ stop = "returned" => WaitedFor

IInv ==
  /\ TypeOK
  /\ AcceptedIsHeld
  /\ SocketsHaveHandler
  /\ SocketsStayOpen
  /\ CopiesEnded
  /\ StopOrder

\* Whatever Stop meets a connection in, between its acceptance and its end: once Stop has
\* returned no goroutine of the proxy runs and no socket of it is open or registered.
NothingSurvivesStop ==
  stop = "returned" =>
    /\ ~listening /\ loop = "done"
    /\ open = {} /\ conns = {}
    /\ \A c \in Conns : handler[c] \in Finished

\* "Idle long-lived connections leave io.Copy blocked on Read forever, which would otherwise
\* make Stop hang": Stop returns although no peer ever sends or closes anything.
StopReturns == stop # "idle" ~> stop = "returned"

\* A client that has sent its request and closed its side still gets the whole answer: a
\* connection is given up only when neither direction can carry anything more and both ends
\* were told so, or by Stop.
BothDirectionsFinish ==
  \A c \in Conns, side \in Sides :
    (handler[c] = "untrackdst" /\ ~stopped) =>
      /\ <<c, side>> \in ended \/ <<c, Other(side)>> \in gone
      /\ <<c, Other(side)>> \in shut

=============================================================================
