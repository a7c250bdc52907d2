----------------------------- MODULE ProxyProofs -----------------------------
(* For any number of connections: each goroutine of the proxy gives back what  *)
(* it took, so nothing survives Stop, and no connection is given up before     *)
(* both of its directions are finished.                                        *)
EXTENDS Proxy, TLAPS

USE DEF peerVars, copyVars, stopVars, listenVars

\* A socket is determined by its connection and its side.
LEMMA SocketPairs ==
  /\ \A c \in Conns : <<c, "src">> \in Sockets /\ <<c, "dst">> \in Sockets
  /\ \A s \in Sockets : \E c \in Conns : s = <<c, "src">> \/ s = <<c, "dst">>
BY DEF Sockets, Sides

\* The initial state satisfies the inductive invariant.
LEMMA InitIInv == Init => IInv
BY DEF Init, IInv, TypeOK, AcceptedIsHeld, SocketsHaveHandler, SocketsStayOpen, CopiesEnded, StopOrder, Sides,
       Finished, Unstarted

\* Steps of Start and the accept loop.
LEMMA LoopKeeps ==
  ASSUME IInv, \/ StartListens \/ StartFails \/ AcceptFails
               \/ \E c \in Conns : Accept(c) \/ Spawn(c) \/ Connect(c)
  PROVE  IInv'
<1> USE SocketPairs DEF IInv, TypeOK, AcceptedIsHeld, SocketsHaveHandler, SocketsStayOpen, CopiesEnded, StopOrder,
        WaitedFor, Finished, Unstarted, Goto
<1>1. CASE StartListens
  BY <1>1 DEF StartListens
<1>2. CASE StartFails
  BY <1>2 DEF StartFails
<1>3. CASE AcceptFails
  BY <1>3 DEF AcceptFails
<1>4. ASSUME NEW c \in Conns, Accept(c) PROVE IInv'
  <2>1. TypeOK'
    BY <1>4 DEF Accept
  <2>2. AcceptedIsHeld'
    BY <1>4 DEF Accept
  <2>3. SocketsHaveHandler'
    BY <1>4 DEF Accept
  <2>4. SocketsStayOpen'
    BY <1>4 DEF Accept
  <2>5. CopiesEnded'
    BY <1>4 DEF Accept
  <2>6. StopOrder'
    BY <1>4 DEF Accept
  <2> QED
    BY <2>1, <2>2, <2>3, <2>4, <2>5, <2>6
<1>5. ASSUME NEW c \in Conns, Spawn(c) PROVE IInv'
  BY <1>5 DEF Spawn
<1>6. ASSUME NEW c \in Conns, Connect(c) PROVE IInv'
  BY <1>6 DEF Connect
<1> QED
  BY <1>1, <1>2, <1>3, <1>4, <1>5, <1>6

\* Steps of a connection's handler.
LEMMA HandlerKeeps ==
  ASSUME IInv, NEW c \in Conns, HandlerStep(c)
  PROVE  IInv'
<1> USE SocketPairs DEF IInv, TypeOK, AcceptedIsHeld, SocketsHaveHandler, SocketsStayOpen, CopiesEnded, StopOrder,
        WaitedFor, Finished, Unstarted, Goto, Track
<1>1. CASE HandleTrackSrc(c)
  <2>1. TypeOK'
    BY <1>1 DEF HandleTrackSrc
  <2>2. AcceptedIsHeld'
    BY <1>1 DEF HandleTrackSrc
  <2>3. SocketsHaveHandler'
    BY <1>1 DEF HandleTrackSrc
  <2>4. SocketsStayOpen'
    BY <1>1 DEF HandleTrackSrc
  <2>5. CopiesEnded'
    BY <1>1 DEF HandleTrackSrc
  <2>6. StopOrder'
    BY <1>1 DEF HandleTrackSrc
  <2> QED
    BY <2>1, <2>2, <2>3, <2>4, <2>5, <2>6
<1>2. CASE HandleDial(c)
  <2>1. TypeOK'
    BY <1>2 DEF HandleDial
  <2>2. AcceptedIsHeld'
    BY <1>2 DEF HandleDial
  <2>3. SocketsHaveHandler'
    BY <1>2 DEF HandleDial
  <2>4. SocketsStayOpen'
    BY <1>2 DEF HandleDial
  <2>5. CopiesEnded'
    BY <1>2 DEF HandleDial
  <2>6. StopOrder'
    BY <1>2 DEF HandleDial
  <2> QED
    BY <2>1, <2>2, <2>3, <2>4, <2>5, <2>6
<1>3. CASE HandleDialFails(c)
  BY <1>3 DEF HandleDialFails
<1>4. CASE HandleTrackDst(c)
  <2>1. TypeOK'
    BY <1>4 DEF HandleTrackDst
  <2>2. AcceptedIsHeld'
    BY <1>4 DEF HandleTrackDst
  <2>3. SocketsHaveHandler'
    BY <1>4 DEF HandleTrackDst
  <2>4. SocketsStayOpen'
    BY <1>4 DEF HandleTrackDst
  <2>5. CopiesEnded'
    BY <1>4 DEF HandleTrackDst
  <2>6. StopOrder'
    BY <1>4 DEF HandleTrackDst
  <2> QED
    BY <2>1, <2>2, <2>3, <2>4, <2>5, <2>6
<1>5. CASE HandleCopied(c)
  BY <1>5 DEF HandleCopied
<1>6. CASE HandleUntrack(c)
  BY <1>6 DEF HandleUntrack
<1>7. CASE HandleClose(c)
  BY <1>7 DEF HandleClose
<1> QED
  BY <1>1, <1>2, <1>3, <1>4, <1>5, <1>6, <1>7 DEF HandlerStep

\* The end of one direction of a connection.
LEMMA CopyKeeps ==
  ASSUME IInv, NEW c \in Conns, NEW side \in Sides, CopyEnds(c, side)
  PROVE  IInv'
<1> USE SocketPairs DEF IInv, TypeOK, CopyEnds
<1>1. <<c, Other(side)>> \in Sockets
  BY DEF Other, Sockets, Sides
<1>2. TypeOK'
  BY <1>1
<1>3. AcceptedIsHeld' /\ SocketsHaveHandler' /\ SocketsStayOpen' /\ StopOrder'
  BY DEF AcceptedIsHeld, SocketsHaveHandler, SocketsStayOpen, StopOrder, WaitedFor
<1>4. CopiesEnded'
  <2> SUFFICES ASSUME NEW d \in Conns, handler[d] \in {"copy", "untrackdst"}, ~stopped,
                      NEW other \in Sides \ copying'[d]
               PROVE  /\ handler[d] = "untrackdst" => copying'[d] = {}
                      /\ <<d, other>> \in ended \/ <<d, Other(other)>> \in gone
                      /\ <<d, Other(other)>> \in shut'
    BY DEF CopiesEnded
  <2>1. CASE d # c
    BY <2>1 DEF CopiesEnded
  <2>2. CASE d = c /\ other # side
    BY <2>2 DEF CopiesEnded
  <2>3. CASE d = c /\ other = side
    <3>1. <<c, side>> \in open /\ <<c, Other(side)>> \in open
      BY DEF SocketsStayOpen, Finished, Unstarted, Sides, Other
    <3> QED
      BY <2>3, <3>1
  <2> QED
    BY <2>1, <2>2, <2>3
<1> QED
  BY <1>2, <1>3, <1>4

\* Steps of Stop.
LEMMA StopKeeps ==
  ASSUME IInv, StopBegins \/ StopStep
  PROVE  IInv'
<1> USE SocketPairs DEF IInv, TypeOK, AcceptedIsHeld, SocketsHaveHandler, SocketsStayOpen, CopiesEnded, StopOrder,
        WaitedFor, Finished, Unstarted
<1>1. CASE StopBegins
  BY <1>1 DEF StopBegins
<1>2. CASE StopClosesListener
  BY <1>2 DEF StopClosesListener
<1>3. CASE StopClosedConns
  BY <1>3 DEF StopClosedConns
<1>4. CASE StopReturn
  BY <1>4 DEF StopReturn
<1>5. ASSUME NEW s \in Sockets, StopClosesConn(s) PROVE IInv'
  BY <1>5 DEF StopClosesConn
<1> QED
  BY <1>1, <1>2, <1>3, <1>4, <1>5 DEF StopStep

\* What the peers do.
LEMMA PeerKeeps ==
  ASSUME IInv, NEW s \in Sockets, PeerEndsSending(s) \/ PeerGoes(s)
  PROVE  IInv'
BY DEF IInv, TypeOK, AcceptedIsHeld, SocketsHaveHandler, SocketsStayOpen, CopiesEnded, StopOrder, WaitedFor,
   PeerEndsSending, PeerGoes

\* Every step preserves the inductive invariant.
LEMMA StepIInv == IInv /\ [Next]_vars => IInv'
<1> SUFFICES ASSUME IInv, [Next]_vars PROVE IInv'
  OBVIOUS
<1>1. CASE Next
  BY <1>1, LoopKeeps, HandlerKeeps, CopyKeeps, StopKeeps, PeerKeeps DEF Next, AcceptStep
<1>2. CASE UNCHANGED vars
  BY <1>2 DEF vars, IInv, TypeOK, AcceptedIsHeld, SocketsHaveHandler, SocketsStayOpen, CopiesEnded, StopOrder,
     WaitedFor
<1> QED
  BY <1>1, <1>2

\* The inductive invariant holds of every behaviour of the proxy.
THEOREM Invariance == Spec => []IInv
BY InitIInv, StepIInv, PTL DEF Spec

\* Once Stop has returned the accept loop has ended, nobody handles a connection, and no socket
\* is open or registered, whatever Stop met the connections in.
THEOREM StopIsThorough == Spec => []NothingSurvivesStop
<1>1. IInv => NothingSurvivesStop
  <2> SUFFICES ASSUME IInv, stop = "returned"
               PROVE  /\ ~listening /\ loop = "done"
                      /\ open = {} /\ conns = {}
                      /\ \A c \in Conns : handler[c] \in Finished
    BY DEF NothingSurvivesStop
  <2>1. ~listening /\ WaitedFor
    BY DEF IInv, StopOrder
  <2>2. \A c \in Conns : handler[c] \in Finished
    BY <2>1 DEF IInv, AcceptedIsHeld, WaitedFor
  <2>3. open = {} /\ conns = {}
    <3> SUFFICES ASSUME NEW s \in Sockets, s \in open \/ s \in conns PROVE FALSE
      BY DEF IInv, TypeOK
    <3> QED
      BY <2>2, SocketPairs DEF IInv, SocketsHaveHandler, Finished, Unstarted
  <2> QED
    BY <2>1, <2>2, <2>3 DEF WaitedFor
<1> QED
  BY <1>1, Invariance, PTL

\* A connection that Stop does not end is given up only when neither direction can carry
\* anything more and both ends were told so.
THEOREM CopiesComplete == Spec => []BothDirectionsFinish
<1>1. IInv => BothDirectionsFinish
  BY DEF IInv, CopiesEnded, BothDirectionsFinish
<1> QED
  BY <1>1, Invariance, PTL

=============================================================================
