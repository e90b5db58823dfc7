---------------------------- MODULE TunnelProofs ----------------------------
(***************************************************************************)
(* Proofs about Tunnel, for any number of frames and with or without a     *)
(* pinned server key.                                                      *)
(***************************************************************************)
EXTENDS Tunnel, TLAPS

Unconnected == {"opening", "exchange", "derive", "waitOpen"}

\* From the accept message on, what was received fits this attempt.
Shaken ==
  /\ phase \in {"derive", "waitOpen", "connected"} => accept \in Accepts
  /\ phase \in {"waitOpen", "connected"} => SessionFits(gen, accept) /\ session = ClientSession(gen, accept)

\* What the handlers got opened under the session, and lies below the last sequence number.
InOrder ==
  /\ phase \in Unconnected => handled = <<>>
  /\ phase = "connected" =>
       \A i \in 1..Len(handled) :
         /\ handled[i].key = session.receiveKey /\ handled[i].seq <= last
         /\ \A j \in 1..(i - 1) : handled[j].seq < handled[i].seq

Inv == Types /\ Shaken /\ InOrder /\ OneTunnel
-----------------------------------------------------------------------------
\* An accept whose session id fits answers this very attempt, and both ends then hold the same keys
\* (deriveClientSessionFromAccept, deriveSecureSession).
LEMMA Agree ==
  ASSUME NEW g \in Gens, NEW a \in Accepts, SessionFits(g, a)
  PROVE  /\ ClientSession(g, a).id = ServerSession(g).id
         /\ ClientSession(g, a).receiveKey = ServerSession(g).sendKey
         /\ ClientSession(g, a).sendKey = ServerSession(g).receiveKey
<1>1. PICK h \in Gens, s \in BOOLEAN : a = AcceptFor(h, s) BY DEF Accepts
<1>2. a.key = <<"server", h>> /\ a.nonce = <<"server", h>> /\ a.id = ServerSession(h).id
  BY <1>1 DEF AcceptFor
<1> DEFINE mine == <<{ClientInit(g).key, a.key}, ClientInit(g).nonce, a.nonce, ClientInit(g)>>
           theirs == <<{<<"server", h>>, ClientInit(h).key}, ClientInit(h).nonce, <<"server", h>>, ClientInit(h)>>
<1>3. /\ ClientSession(g, a).id = <<mine, "session-id">>
      /\ ClientSession(g, a).sendKey = <<mine, "client-to-server">>
      /\ ClientSession(g, a).receiveKey = <<mine, "server-to-client">>
  BY Zenon DEF ClientSession, DeriveSecureSession
<1>4. /\ ServerSession(h).id = <<theirs, "session-id">>
      /\ ServerSession(h).sendKey = <<theirs, "server-to-client">>
      /\ ServerSession(h).receiveKey = <<theirs, "client-to-server">>
  BY Zenon DEF ServerSession, DeriveSecureSession
<1>5. <<mine, "session-id">> = <<theirs, "session-id">>
  BY <1>2, <1>3, <1>4 DEF SessionFits
<1>6. mine = theirs
  <2> HIDE DEF mine, theirs
  <2> QED BY <1>5
<1>7. ClientInit(g).nonce = ClientInit(h).nonce
  <2> DEFINE A == {ClientInit(g).key, a.key}
             B == {<<"server", h>>, ClientInit(h).key}
             cg == ClientInit(g)
             ch == ClientInit(h)
             n == a.nonce
             m == <<"server", h>>
             cgn == cg.nonce
             chn == ch.nonce
  <2>1. <<A, cgn, n, cg>> = <<B, chn, m, ch>> BY <1>6
  <2> HIDE DEF A, B, cg, ch, n, m, cgn, chn
  <2>2. cgn = chn BY <2>1
  <2> QED BY <2>2 DEF cgn, chn, cg, ch
<1>8. g = h BY <1>7 DEF ClientInit
<1> QED BY <1>3, <1>4, <1>6, <1>8
-----------------------------------------------------------------------------
\* The loop's catch, and the end of a connection whose socket is closed, keep the invariant: a socket
\* left open has said no HELLO (Failed).
LEMMA FailedKeeps ==
  ASSUME Inv, NEW state \in {"open", "closing", "closed"}, phase = "connected" => state = "closed",
         Failed(state), UNCHANGED <<shake, frames>>
  PROVE  Inv'
<1>1. Types'
  BY DEF Inv, Types, Failed, Phases, AttemptCap, shake, frames
<1>2. Shaken'
  BY DEF Failed, Shaken
<1>3. InOrder'
  BY DEF Failed, InOrder, Unconnected
<1>4. OneTunnel'
  BY DEF Inv, Failed, OneTunnel
<1> QED BY <1>1, <1>2, <1>3, <1>4 DEF Inv

\* A new connection starts with nothing received (NewConnection).
LEMMA NewConnectionKeeps ==
  ASSUME Inv, NewConnection, attempt' \in 0..AttemptCap, UNCHANGED abandoned
  PROVE  Inv'
<1>1. Types'
  <2>1. (1 - gen) \in Gens BY DEF Inv, Types, Gens
  <2>2. <<>> \in Seq(Frames) OBVIOUS
  <2>3. 0 \in 0..MaxFrames /\ -1 \in -1..MaxFrames BY TunnelAssumption
  <2> QED BY <2>1, <2>2, <2>3 DEF Inv, Types, NewConnection, Phases
<1>2. Shaken'
  BY DEF NewConnection, Shaken
<1>3. InOrder'
  BY DEF NewConnection, InOrder
<1>4. OneTunnel'
  BY DEF Inv, OneTunnel
<1> QED BY <1>1, <1>2, <1>3, <1>4 DEF Inv

\* A step that leaves the handshake, the sequence number and what was handled alone, and moves the
\* phase not at all, keeps what those say.
LEMMA StandingKeeps ==
  ASSUME Inv, UNCHANGED <<phase, shake, last, handled>>
  PROVE  Shaken' /\ InOrder'
<1>1. Shaken' BY DEF Inv, Shaken, shake, SessionFits, ClientSession, ClientInit, DeriveSecureSession
<1>2. InOrder' BY DEF Inv, InOrder, shake
<1> QED BY <1>1, <1>2

\* The invariant holds of a node that opens its first socket (main).
LEMMA InitInv == Init => Inv
<1> SUFFICES ASSUME Init PROVE Inv OBVIOUS
<1>1. Types
  <2>1. <<>> \in Seq(Frames) OBVIOUS
  <2>2. 0 \in 0..MaxFrames /\ -1 \in -1..MaxFrames BY TunnelAssumption
  <2> QED BY <2>1, <2>2 DEF Init, Types, Phases, Gens, AttemptCap
<1>2. Shaken /\ InOrder /\ OneTunnel BY DEF Init, Shaken, InOrder, OneTunnel
<1> QED BY <1>1, <1>2 DEF Inv
-----------------------------------------------------------------------------
\* Each step of making a connection keeps the invariant (main, openSocket, exchangeHandshake,
\* deriveClientSessionFromAccept).
LEMMA ConnectKeeps == Inv /\ Connect => Inv'
<1> SUFFICES ASSUME Inv, Connect PROVE Inv' OBVIOUS
<1>1. CASE Reconnect
  <2>1. attempt' \in 0..AttemptCap BY <1>1 DEF Reconnect, Inv, Types
  <2> QED BY <1>1, <2>1, NewConnectionKeeps DEF Reconnect
<1>2. CASE Opened
  <2>1. Types' BY <1>2 DEF Opened, Inv, Types, Phases, shake, frames
  <2>2. Shaken' BY <1>2 DEF Opened, Shaken
  <2>3. InOrder' BY <1>2 DEF Opened, Inv, InOrder, Unconnected, frames
  <2>4. OneTunnel' BY <1>2 DEF Opened, Inv, OneTunnel
  <2> QED BY <2>1, <2>2, <2>3, <2>4 DEF Inv
<1>3. CASE OpenFailed BY <1>3, FailedKeeps DEF OpenFailed
<1>4. CASE Accepted
  <2>1. Types' BY <1>4 DEF Accepted, Inv, Types, Phases, frames
  <2>2. Shaken' BY <1>4 DEF Accepted, Shaken
  <2>3. InOrder' BY <1>4 DEF Accepted, Inv, InOrder, Unconnected, frames
  <2>4. OneTunnel' BY <1>4 DEF Accepted, Inv, OneTunnel
  <2> QED BY <2>1, <2>2, <2>3, <2>4 DEF Inv
<1>5. CASE Rejected BY <1>5, FailedKeeps DEF Rejected
<1>6. CASE Derived
  <2>1. accept \in Accepts /\ gen \in Gens BY <1>6 DEF Derived, Inv, Shaken, Types
  <2>2. Types' BY <1>6, <2>1 DEF Derived, Inv, Types, Phases, frames, AttemptCap
  <2>3. Shaken'
    <3>1. phase' \in {"waitOpen", "connected"} /\ accept' = accept /\ gen' = gen BY <1>6 DEF Derived
    <3>2. session' = ClientSession(gen, accept) /\ SessionFits(gen, accept) BY <1>6 DEF Derived
    <3>3. ClientSession(gen', accept') = ClientSession(gen, accept) BY <3>1
    <3>4. SessionFits(gen', accept') BY <3>1, <3>2
    <3> QED BY <2>1, <3>1, <3>2, <3>3, <3>4 DEF Shaken
  <2>4. InOrder'
    <3>1. handled = <<>> /\ handled' = handled BY <1>6 DEF Derived, Inv, InOrder, Unconnected, frames
    <3> QED BY <3>1 DEF InOrder
  <2>5. OneTunnel' BY <1>6 DEF Derived, Inv, OneTunnel
  <2> QED BY <2>2, <2>3, <2>4, <2>5 DEF Inv
<1>7. CASE Underived
  <2>1. CASE sock = "connecting"
    <3>1. Types' BY <1>7, <2>1 DEF Underived, Failed, Inv, Types, Phases, AttemptCap, shake, frames
    <3>2. Shaken' /\ InOrder' BY <1>7 DEF Underived, Failed, Shaken, InOrder, Unconnected
    <3>3. OneTunnel' BY <1>7 DEF Underived, Failed, Inv, OneTunnel
    <3> QED BY <3>1, <3>2, <3>3 DEF Inv
  <2>2. CASE sock \in {"open", "closing", "closed"} BY <1>7, <2>2, FailedKeeps DEF Underived
  <2> QED BY <2>1, <2>2 DEF Inv, Types
<1> QED BY <1>1, <1>2, <1>3, <1>4, <1>5, <1>6, <1>7 DEF Connect

\* Each event of a socket keeps the invariant (handleClose, waitForOpen).
LEMMA SocketKeeps == Inv /\ Socket => Inv'
<1> SUFFICES ASSUME Inv, Socket PROVE Inv' OBVIOUS
<1>1. CASE Closing
  <2>1. Types' BY <1>1 DEF Closing, Inv, Types, shake, frames
  <2>2. Shaken' /\ InOrder' BY <1>1, StandingKeeps DEF Closing, frames
  <2>3. OneTunnel' BY <1>1 DEF Closing, Inv, OneTunnel
  <2> QED BY <2>1, <2>2, <2>3 DEF Inv
<1>2. ASSUME NEW error \in BOOLEAN, Closed(error) PROVE Inv'
  <2>1. CASE Failed("closed") BY <1>2, <2>1, FailedKeeps DEF Closed
  <2>2. CASE sock' = "closed" /\ UNCHANGED <<phase, attempt, abandoned>>
    <3>1. Types' BY <1>2, <2>2 DEF Closed, Inv, Types, shake, frames
    <3>2. Shaken' /\ InOrder' BY <1>2, <2>2, StandingKeeps DEF Closed, frames
    <3>3. OneTunnel' BY <2>2 DEF Inv, OneTunnel
    <3> QED BY <3>1, <3>2, <3>3 DEF Inv
  <2> QED BY <1>2, <2>1, <2>2 DEF Closed
<1>3. CASE Restarted
  <2>1. attempt' \in 0..AttemptCap BY <1>3 DEF Restarted, AttemptCap
  <2> QED BY <1>3, <2>1, NewConnectionKeeps DEF Restarted
<1>4. CASE AbandonedCloses
  <2>1. Types' BY <1>4 DEF AbandonedCloses, Inv, Types, shake, frames
  <2>2. Shaken' /\ InOrder' BY <1>4, StandingKeeps DEF AbandonedCloses, frames
  <2>3. OneTunnel' BY <1>4 DEF AbandonedCloses, Inv, OneTunnel
  <2> QED BY <2>1, <2>2, <2>3 DEF Inv
<1> QED BY <1>1, <1>2, <1>3, <1>4 DEF Socket

\* What the gateway sends keeps the invariant.
LEMMA GatewayKeeps == Inv /\ Gateway => Inv'
<1> SUFFICES ASSUME Inv, Gateway PROVE Inv' OBVIOUS
<1>1. CASE GatewaySends
  <2>1. PICK t \in FrameTypes, g \in Gens :
          wire' = Append(wire, [seq |-> sealed, type |-> t, key |-> ServerSession(g).sendKey])
    BY <1>1 DEF GatewaySends
  <2>2. sealed \in 0..MaxFrames /\ sealed' = sealed + 1 /\ sealed < MaxFrames
    BY <1>1 DEF GatewaySends, Inv, Types
  <2> DEFINE keys == {ServerSession(h).sendKey : h \in Gens}
  <2>3. ServerSession(g).sendKey \in keys OBVIOUS
  <2>4. [seq |-> sealed, type |-> t, key |-> ServerSession(g).sendKey] \in Frames
    <3> HIDE DEF keys
    <3>1. [seq |-> sealed, type |-> t, key |-> ServerSession(g).sendKey] \in [seq : 0..MaxFrames, type : FrameTypes, key : keys]
      BY <2>2, <2>3
    <3> QED BY <3>1 DEF Frames, keys
  <2>5. wire' \in Seq(Frames)
    <3> HIDE DEF keys
    <3> DEFINE frame == [seq |-> sealed, type |-> t, key |-> ServerSession(g).sendKey]
    <3>1. frame \in Frames /\ wire' = Append(wire, frame) /\ wire \in Seq(Frames) BY <2>1, <2>4 DEF Inv, Types
    <3> HIDE DEF frame
    <3> QED BY <3>1
  <2>6. sealed' \in 0..MaxFrames BY <2>2, TunnelAssumption
  <2>7. Types' BY <1>1, <2>5, <2>6 DEF GatewaySends, Inv, Types, shake
  <2>8. Shaken' /\ InOrder' BY <1>1, StandingKeeps DEF GatewaySends
  <2>9. OneTunnel' BY <1>1 DEF GatewaySends, Inv, OneTunnel
  <2> QED BY <2>7, <2>8, <2>9 DEF Inv
<1>2. CASE GatewayRepeats
  <2>1. wire' \in Seq(Frames)
    <3>1. PICK i \in DOMAIN wire : wire' = Append(wire, wire[i]) BY <1>2 DEF GatewayRepeats
    <3>2. wire \in Seq(Frames) BY DEF Inv, Types
    <3>3. wire[i] \in Frames BY <3>1, <3>2
    <3> QED BY <3>1, <3>2, <3>3
  <2>2. Types' BY <1>2, <2>1 DEF GatewayRepeats, Inv, Types, shake
  <2>3. Shaken' /\ InOrder' BY <1>2, StandingKeeps DEF GatewayRepeats
  <2>4. OneTunnel' BY <1>2 DEF GatewayRepeats, Inv, OneTunnel
  <2> QED BY <2>2, <2>3, <2>4 DEF Inv
<1> QED BY <1>1, <1>2 DEF Gateway

\* A frame that nobody hears keeps the invariant.
LEMMA UnheardKeeps == Inv /\ Unheard => Inv'
<1> SUFFICES ASSUME Inv, Unheard PROVE Inv' OBVIOUS
<1>1. wire' \in Seq(Frames) BY DEF Unheard, Inv, Types
<1>2. Types' BY <1>1 DEF Unheard, Inv, Types, shake
<1>3. Shaken' /\ InOrder' BY StandingKeeps DEF Unheard
<1>4. OneTunnel' BY DEF Unheard, Inv, OneTunnel
<1> QED BY <1>2, <1>3, <1>4 DEF Inv

\* A frame that the client opens or refuses keeps the invariant (handleRawMessage).
LEMMA DeliverKeeps == Inv /\ Deliver => Inv'
<1> SUFFICES ASSUME Inv, Deliver PROVE Inv' OBVIOUS
<1> DEFINE frame == Head(wire)
<1>1. wire \in Seq(Frames) /\ handled \in Seq(Frames) /\ wire # <<>> /\ phase = "connected" /\ last \in -1..MaxFrames
  BY DEF Deliver, Inv, Types
<1>2. frame \in Frames /\ wire' \in Seq(Frames) BY <1>1 DEF Deliver
<1>3. frame.seq \in 0..MaxFrames BY <1>2 DEF Frames
<1>4. UNCHANGED <<phase, attempt, abandoned, shake, sealed>> /\ sock' \in {sock, "closing"}
  BY DEF Deliver, RemoteClose
<1>5. \/ UNCHANGED <<last, handled>>
      \/ Fresh(frame) /\ last' = frame.seq /\ handled' \in {handled, Append(handled, frame)}
  BY DEF Deliver
<1> HIDE DEF frame
<1>6. Types'
  <2>1. last' \in -1..MaxFrames BY <1>1, <1>3, <1>5
  <2>2. handled' \in Seq(Frames) BY <1>1, <1>2, <1>5
  <2> QED BY <1>2, <1>4, <2>1, <2>2 DEF Inv, Types, shake
<1>7. Shaken' BY <1>4 DEF Inv, Shaken, shake, SessionFits, ClientSession, ClientInit, DeriveSecureSession
<1>8. InOrder'
  <2>0. \A i \in 1..Len(handled) : handled[i].seq \in Int
    <3> SUFFICES ASSUME NEW i \in 1..Len(handled) PROVE handled[i].seq \in Int OBVIOUS
    <3>1. handled[i] \in Frames BY <1>1
    <3>2. handled[i].seq \in 0..MaxFrames BY <3>1 DEF Frames
    <3> QED BY <3>2
  <2>1. CASE UNCHANGED <<last, handled>> BY <1>4, <2>1, StandingKeeps
  <2>2. CASE Fresh(frame) /\ last' = frame.seq /\ handled' = handled
    <3>1. last < last' /\ last' \in Int BY <1>1, <1>3, <2>2 DEF Fresh
    <3> QED BY <1>1, <1>4, <2>0, <2>2, <3>1 DEF Inv, InOrder, shake, Unconnected
  <2>3. CASE Fresh(frame) /\ last' = frame.seq /\ handled' = Append(handled, frame)
    <3>1. last < frame.seq /\ frame.key = session.receiveKey /\ session' = session
      BY <1>4, <2>3 DEF Fresh, shake
    <3>2. \A i \in 1..Len(handled) : handled[i].seq \in Int /\ handled[i].key = session.receiveKey /\ handled[i].seq <= last
      BY <1>1, <2>0 DEF Inv, InOrder
    <3>3. Len(handled') = Len(handled) + 1 /\ Len(handled) \in Nat BY <1>1, <1>2, <2>3
    <3>4. handled'[Len(handled) + 1] = frame /\ \A i \in 1..Len(handled) : handled'[i] = handled[i]
      BY <1>1, <1>2, <2>3
    <3>5. ASSUME NEW i \in 1..Len(handled')
          PROVE  /\ handled'[i].key = session'.receiveKey /\ handled'[i].seq <= last'
                 /\ \A j \in 1..(i - 1) : handled'[j].seq < handled'[i].seq
      <4>1. CASE i = Len(handled) + 1
        <5>1. handled'[i] = frame BY <3>4, <4>1
        <5>2. \A j \in 1..(i - 1) : handled'[j].seq < frame.seq
          BY <1>1, <1>3, <3>1, <3>2, <3>3, <3>4, <4>1
        <5> QED BY <1>3, <2>3, <3>1, <5>1, <5>2
      <4>2. CASE i \in 1..Len(handled)
        <5>1. handled'[i] = handled[i] BY <3>4, <4>2
        <5>2. handled[i].seq <= frame.seq BY <1>1, <1>3, <3>1, <3>2, <4>2
        <5>3. \A j \in 1..(i - 1) : handled'[j] = handled[j] /\ handled[j].seq < handled[i].seq
          BY <1>1, <3>3, <3>4, <4>2 DEF Inv, InOrder
        <5> QED BY <2>3, <3>1, <3>2, <4>2, <5>1, <5>2, <5>3
      <4> QED BY <3>3, <4>1, <4>2
    <3> QED BY <1>1, <1>4, <3>5 DEF InOrder, Unconnected
  <2> QED BY <1>5, <2>1, <2>2, <2>3
<1>9. OneTunnel' BY <1>4 DEF Inv, OneTunnel
<1> QED BY <1>6, <1>7, <1>8, <1>9 DEF Inv
-----------------------------------------------------------------------------
\* The inductive invariant of the control tunnel: what was received fits the attempt it is used for,
\* and what was handled is below the last sequence number (main, TunnelClient).
THEOREM Invariant == Spec => []Inv
<1>1. Inv /\ [Next]_vars => Inv'
  <2> SUFFICES ASSUME Inv, [Next]_vars PROVE Inv' OBVIOUS
  <2>1. CASE Next
    BY <2>1, ConnectKeeps, SocketKeeps, GatewayKeeps, UnheardKeeps, DeliverKeeps DEF Next
  <2>2. CASE UNCHANGED vars
    <3>1. Types' BY <2>2 DEF vars, Inv, Types
    <3>2. Shaken' /\ InOrder' BY <2>2, StandingKeeps DEF vars, shake
    <3>3. OneTunnel' BY <2>2 DEF vars, Inv, OneTunnel
    <3> QED BY <3>1, <3>2, <3>3 DEF Inv
  <2> QED BY <2>1, <2>2
<1> QED BY InitInv, <1>1, PTL DEF Spec

\* The loop never leaves a socket open on which it has said HELLO (main, close, handleClose).
THEOREM OneTunnelAtATime == Spec => []OneTunnel
<1>1. Inv => OneTunnel BY DEF Inv
<1> QED BY <1>1, Invariant, PTL

\* A connected client's session is the gateway's, and its handlers get the frames of that session in
\* the order they were sealed, none twice (deriveClientSessionFromAccept, handleRawMessage).
THEOREM SessionsAgree == Spec => []SessionAgrees
<1>1. Inv => SessionAgrees
  <2> SUFFICES ASSUME Inv, phase = "connected" PROVE SessionAgrees BY DEF SessionAgrees
  <2>1. gen \in Gens /\ accept \in Accepts /\ SessionFits(gen, accept) /\ session = ClientSession(gen, accept)
    BY DEF Inv, Types, Shaken
  <2>2. /\ session.id = ServerSession(gen).id
        /\ session.receiveKey = ServerSession(gen).sendKey
        /\ session.sendKey = ServerSession(gen).receiveKey
    BY <2>1, Agree
  <2>3. DOMAIN handled = 1..Len(handled) BY DEF Inv, Types
  <2> QED BY <2>2, <2>3 DEF SessionAgrees, Inv, InOrder
<1> QED BY <1>1, Invariant, PTL

\* Every attempt's delay lies between one and thirty seconds (reconnectDelayMs).
LEMMA DelayBounded == ASSUME NEW n \in 1..AttemptCap PROVE reconnectDelay(n) \in 1..30
<1>1. 2^0 = 1 /\ 2^1 = 2 /\ 2^2 = 4 /\ 2^3 = 8 /\ 2^4 = 16 /\ 2^5 = 32 OBVIOUS
<1>2. CASE n = 1 BY <1>1, <1>2 DEF reconnectDelay, AttemptCap
<1>3. CASE n = 2 BY <1>1, <1>3 DEF reconnectDelay, AttemptCap
<1>4. CASE n = 3 BY <1>1, <1>4 DEF reconnectDelay, AttemptCap
<1>5. CASE n = 4 BY <1>1, <1>5 DEF reconnectDelay, AttemptCap
<1>6. CASE n = 5 BY <1>1, <1>6 DEF reconnectDelay, AttemptCap
<1>7. CASE n = 6 BY <1>1, <1>7 DEF reconnectDelay, AttemptCap
<1> QED BY <1>2, <1>3, <1>4, <1>5, <1>6, <1>7 DEF AttemptCap

\* A delay follows a failure, which was counted.
Counted == phase = "backoff" => attempt \in 1..AttemptCap

\* Nothing but a failure begins a delay, and nothing resets the count during one (main).
LEMMA CountedKeeps == Inv /\ Counted /\ [Next]_vars => Counted'
<1> SUFFICES ASSUME Inv, Counted, [Next]_vars PROVE Counted' OBVIOUS
<1>1. ASSUME NEW state, Failed(state) PROVE Counted'
  BY <1>1 DEF Failed, Counted, Inv, Types, AttemptCap
<1>2. ASSUME UNCHANGED <<phase, attempt>> PROVE Counted' BY <1>2 DEF Counted
<1>3. ASSUME phase' # "backoff" PROVE Counted' BY <1>3 DEF Counted
<1>4. CASE Connect
  BY <1>1, <1>3, <1>4
  DEF Connect, Reconnect, NewConnection, Opened, OpenFailed, Accepted, Rejected, Derived, Underived
<1>5. CASE Socket
  BY <1>1, <1>2, <1>3, <1>5 DEF Socket, Closing, Closed, Restarted, NewConnection, AbandonedCloses
<1>6. CASE Gateway \/ Unheard BY <1>2, <1>6 DEF Gateway, GatewaySends, GatewayRepeats, Unheard
<1>7. CASE Deliver BY <1>2, <1>7 DEF Deliver, RemoteClose
<1>8. CASE UNCHANGED vars BY <1>2, <1>8 DEF vars
<1> QED BY <1>4, <1>5, <1>6, <1>7, <1>8 DEF Next

\* The loop, the handshake and the client keep their types, and no delay is zero or longer than half a
\* minute, however often connections fail and succeed in turn (main, reconnectDelayMs).
THEOREM TypeCorrect == Spec => []TypeOK
<1>1. Init => Counted BY DEF Init, Counted
<1>2. Inv /\ Counted => TypeOK BY DelayBounded DEF Inv, Counted, TypeOK
<1> QED BY <1>1, <1>2, CountedKeeps, Invariant, PTL DEF Spec
=============================================================================
