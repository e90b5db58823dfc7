------------------------------- MODULE Tunnel -------------------------------
(***************************************************************************)
(* The control tunnel of a node: the loop that keeps it                    *)
(* (src/src/control.ts), the connection and its handshake                  *)
(* (src/src/tunnel/connect.ts, src/src/tunnel/handshake.ts,                *)
(* src/src/crypto/secure-channel.ts) and the client that opens the frames  *)
(* it receives (src/src/tunnel/tunnel-client.ts, src/src/tunnel/frames.ts).*)
(*                                                                         *)
(* One step is one turn of the event loop: what follows an event without   *)
(* waiting for another belongs to it.  Key derivation waits, and nothing   *)
(* listens to the socket meanwhile.  A message is delivered, and an event  *)
(* heard, only if a listener is there at that moment.                      *)
(***************************************************************************)
EXTENDS Integers, Sequences, FiniteSets

CONSTANTS
  Pinned,     \* whether a server key is configured
  MaxFrames   \* bound: frames the gateway seals in one session, and repeats at once

ASSUME TunnelAssumption == Pinned \in BOOLEAN /\ MaxFrames \in Nat

VARIABLES
  phase,      \* where the loop waits
  attempt,    \* attempts since the last success, up to the one from which the delay is constant
  sock,       \* readyState of the socket in hand
  abandoned,  \* open sockets that nothing will close: with or without a HELLO
  gen,        \* key pair and nonce of this attempt; the attempt before had the other
  accept,     \* the accept message in hand
  session,    \* the client's SecureSession
  wire,       \* frames on the way to the client
  sealed,     \* frames the gateway sealed in this session
  last,       \* lastReceiveSequence
  handled     \* History: the messages passed to the handlers of this connection

vars == <<phase, attempt, sock, abandoned, gen, accept, session, wire, sealed, last, handled>>
shake == <<gen, accept, session>>
frames == <<wire, sealed, last, handled>>

Gens == {0, 1}
AttemptCap == 6
None == <<>>

\* Mutant of reconnectDelay: the exponent is capped, the delay is not.
uncappedDelay(n) == 2^((IF n < AttemptCap THEN n ELSE AttemptCap) - 1)

\* reconnectDelayMs without its jitter, in seconds.
reconnectDelay(n) == LET base == 2^((IF n < AttemptCap THEN n ELSE AttemptCap) - 1)
                     IN  IF base < 30 THEN base ELSE 30
-----------------------------------------------------------------------------
(* The handshake.  Key pairs and nonces are named by the attempt they were *)
(* made for; hashes and key derivation are injective.                      *)

\* createClientHandshake: the signed message, which is also the transcript.
ClientInit(g) == [key |-> <<"client", g>>, nonce |-> <<"client", g>>]

\* deriveSecureSession: two keys and an id from the shared secret and the salt.
DeriveSecureSession(role, own, peer, clientNonce, serverNonce, transcript) ==
  LET root == <<{own, peer}, clientNonce, serverNonce, transcript>>
      up == <<root, "client-to-server">>
      down == <<root, "server-to-client">>
  IN  [id |-> <<root, "session-id">>,
       sendKey |-> IF role = "client" THEN up ELSE down,
       receiveKey |-> IF role = "client" THEN down ELSE up]

\* acceptClientHandshake: the gateway's session for the attempt g, and its answer.
ServerSession(g) ==
  DeriveSecureSession("server", <<"server", g>>, ClientInit(g).key, ClientInit(g).nonce, <<"server", g>>, ClientInit(g))

AcceptFor(g, signed) ==
  [key |-> <<"server", g>>, nonce |-> <<"server", g>>, id |-> ServerSession(g).id, signed |-> signed]

\* The session the client derives from an accept message.
ClientSession(g, a) ==
  DeriveSecureSession("client", ClientInit(g).key, a.key, ClientInit(g).nonce, a.nonce, ClientInit(g))

\* Mutant of SessionFits: the session id is not compared.
SignatureFits(g, a) == Pinned => a.signed

\* deriveClientSessionFromAccept: a pinned key asks for a signature, and the ids must agree.
SessionFits(g, a) ==
  /\ Pinned => a.signed
  /\ ClientSession(g, a).id = a.id

Accepts == {AcceptFor(g, s) : g \in Gens, s \in BOOLEAN}
FrameTypes == {"DATA", "PING", "PONG", "CLOSE"}
Frames == [seq : 0..MaxFrames, type : FrameTypes, key : {ServerSession(g).sendKey : g \in Gens}]

Phases == {"opening", "exchange", "derive", "waitOpen", "connected", "backoff"}

Types ==
  /\ phase \in Phases /\ attempt \in 0..AttemptCap
  /\ sock \in {"connecting", "open", "closing", "closed"}
  /\ abandoned \subseteq {"greeted", "ungreeted"}
  /\ gen \in Gens /\ accept \in Accepts \cup {None}
  /\ session \in {ClientSession(g, a) : g \in Gens, a \in Accepts} \cup {None}
  /\ wire \in Seq(Frames) /\ sealed \in 0..MaxFrames
  /\ last \in -1..MaxFrames /\ handled \in Seq(Frames)

TypeOK == Types /\ (phase = "backoff" => reconnectDelay(attempt) \in 1..30)

Init ==
  /\ phase = "opening" /\ attempt = 0 /\ sock = "connecting" /\ abandoned = {}
  /\ gen = 0 /\ accept = None /\ session = None
  /\ wire = <<>> /\ sealed = 0 /\ last = -1 /\ handled = <<>>
-----------------------------------------------------------------------------
\* The loop's catch, or the end of a connection: one attempt more, then a delay.  A socket that is
\* still open stays so; whether it has said HELLO is whether the loop was connected.
Failed(state) ==
  /\ phase' = "backoff" /\ sock' = state
  /\ attempt' = IF attempt < AttemptCap THEN attempt + 1 ELSE AttemptCap
  /\ abandoned' = IF state \in {"open", "closing"}
                     THEN abandoned \cup {IF phase = "connected" THEN "greeted" ELSE "ungreeted"}
                     ELSE abandoned

\* New keys, a new socket, a new client.
NewConnection ==
  /\ phase' = "opening" /\ sock' = "connecting"
  /\ gen' = 1 - gen /\ accept' = None /\ session' = None
  /\ wire' = <<>> /\ sealed' = 0 /\ last' = -1 /\ handled' = <<>>

\* The delay is over.
Reconnect ==
  /\ phase = "backoff" /\ NewConnection
  /\ UNCHANGED <<attempt, abandoned>>

\* openSocket.
Opened ==
  /\ phase = "opening"
  /\ phase' = "exchange" /\ sock' = "open"
  /\ UNCHANGED <<attempt, abandoned, shake, frames>>

OpenFailed ==
  /\ phase = "opening"
  /\ Failed("closed")
  /\ UNCHANGED <<shake, frames>>

\* exchangeHandshake: the first message is an accept, perhaps one that answers the attempt before.
Accepted ==
  /\ phase = "exchange" /\ sock = "open"
  /\ accept' \in Accepts
  /\ phase' = "derive"
  /\ UNCHANGED <<attempt, sock, abandoned, gen, session, frames>>

\* Or it is a reject, or no handshake message.
Rejected ==
  /\ phase = "exchange" /\ sock = "open"
  /\ Failed("open")
  /\ UNCHANGED <<shake, frames>>

\* deriveClientSessionFromAccept is done.  An open socket gets its listeners, HELLO and the first
\* heartbeat at once; any other is waited for.
Derived ==
  /\ phase = "derive" /\ SessionFits(gen, accept)
  /\ session' = ClientSession(gen, accept)
  /\ IF sock = "open" THEN phase' = "connected" /\ attempt' = 0
                      ELSE phase' = "waitOpen" /\ UNCHANGED attempt
  /\ UNCHANGED <<sock, abandoned, gen, accept, frames>>

Underived ==
  /\ phase = "derive" /\ ~SessionFits(gen, accept)
  /\ Failed(sock)
  /\ UNCHANGED <<shake, frames>>
-----------------------------------------------------------------------------
\* The gateway or the network ends the connection, or a failed heartbeat or stop() does.
Closing ==
  /\ sock = "open" /\ phase # "backoff"
  /\ sock' = "closing"
  /\ UNCHANGED <<phase, attempt, abandoned, shake, frames>>

\* Mutant of Heard: a close during the handshake has no listener.
HeardOnceConnected(error) ==
  \/ phase = "connected"
  \/ phase \in {"exchange", "waitOpen"} /\ error

\* Who listens: exchangeHandshake and the client to both events, waitForOpen to errors only, and
\* nobody while keys are derived.
Heard(error) ==
  \/ phase \in {"exchange", "connected"}
  \/ phase = "waitOpen" /\ error

\* The close event, after an error event if the connection broke.
Closed(error) ==
  /\ sock = "closing" /\ phase # "backoff"
  /\ \/ Heard(error) /\ Failed("closed")
     \/ ~Heard(error) /\ sock' = "closed" /\ UNCHANGED <<phase, attempt, abandoned>>
  /\ UNCHANGED <<shake, frames>>

\* A wait that nothing will end: with no open socket the event loop is empty and the process ends;
\* the supervisor starts it again.
Restarted ==
  /\ phase = "waitOpen" /\ sock = "closed" /\ abandoned = {}
  /\ attempt' = 0 /\ NewConnection
  /\ UNCHANGED abandoned

\* The gateway closes a socket that the node has left.
AbandonedCloses ==
  /\ abandoned # {}
  /\ \E kind \in abandoned : abandoned' = abandoned \ {kind}
  /\ UNCHANGED <<phase, attempt, sock, shake, frames>>
-----------------------------------------------------------------------------
\* The gateway seals a frame in the session of the accept it sent.
GatewaySends ==
  /\ sock = "open" /\ phase \in {"derive", "connected"} /\ sealed < MaxFrames
  /\ \E t \in FrameTypes, g \in {g \in Gens : ServerSession(g).id = accept.id} :
       wire' = Append(wire, [seq |-> sealed, type |-> t, key |-> ServerSession(g).sendKey])
  /\ sealed' = sealed + 1
  /\ UNCHANGED <<phase, attempt, sock, abandoned, shake, last, handled>>

\* A frame that is on the way arrives a second time, behind later ones too.
GatewayRepeats ==
  /\ sock = "open" /\ phase \in {"derive", "connected"} /\ Len(wire) <= MaxFrames
  /\ \E i \in DOMAIN wire : wire' = Append(wire, wire[i])
  /\ UNCHANGED <<phase, attempt, sock, abandoned, shake, sealed, last, handled>>

\* A message event while keys are derived: no listener.
Unheard ==
  /\ phase = "derive" /\ sock = "open" /\ wire # <<>>
  /\ wire' = Tail(wire)
  /\ UNCHANGED <<phase, attempt, sock, abandoned, shake, sealed, last, handled>>

\* Mutant of Fresh: only a frame with the sequence of the last one is refused.
FreshIfOther(frame) == frame.seq # last /\ frame.key = session.receiveKey

\* A frame is refused unless its sequence is above the last one's and it opens; a refusal changes
\* nothing and is answered with an error message.
Fresh(frame) == frame.seq > last /\ frame.key = session.receiveKey

\* Mutant of RemoteClose: the connection counts as over before its socket is.
RemoteCloseAtOnce == Failed("closing")

\* A CLOSE frame: close() lets the socket go, whose close event is still to come.
RemoteClose == sock' = "closing" /\ UNCHANGED <<phase, attempt, abandoned>>

\* handleRawMessage.
Deliver ==
  /\ phase = "connected" /\ sock = "open" /\ wire # <<>>
  /\ LET frame == Head(wire) IN
       \/ ~Fresh(frame) /\ UNCHANGED <<phase, attempt, sock, abandoned, last, handled>>
       \/ /\ Fresh(frame) /\ last' = frame.seq
          /\ \/ frame.type \in {"PING", "PONG"} /\ UNCHANGED <<phase, attempt, sock, abandoned, handled>>
             \/ frame.type = "CLOSE" /\ RemoteClose /\ UNCHANGED handled
             \/ /\ frame.type = "DATA" /\ handled' = Append(handled, frame)
                /\ UNCHANGED <<phase, attempt, sock, abandoned>>
  /\ wire' = Tail(wire)
  /\ UNCHANGED <<shake, sealed>>

Connect == Reconnect \/ Opened \/ OpenFailed \/ Accepted \/ Rejected \/ Derived \/ Underived
Socket == Closing \/ (\E error \in BOOLEAN : Closed(error)) \/ Restarted \/ AbandonedCloses
Gateway == GatewaySends \/ GatewayRepeats
Next == Connect \/ Socket \/ Gateway \/ Unheard \/ Deliver

\* The loop runs on, key derivation ends, and a socket that is closing closes.  That a socket opens,
\* or that the gateway answers a handshake, is not assumed: the code sets no limit to either wait.
Fairness ==
  /\ WF_vars(Reconnect) /\ WF_vars(Restarted) /\ WF_vars(Derived \/ Underived)
  /\ WF_vars(\E error \in BOOLEAN : Closed(error))

Spec == Init /\ [][Next]_vars /\ Fairness
-----------------------------------------------------------------------------
\* The loop never leaves a socket open on which it has said HELLO: when it opens the next one, the
\* gateway has no second tunnel of this node (main, close, handleClose).
OneTunnel == "greeted" \notin abandoned

\* A connected client's session is the gateway's, seen from the other end, and what its handlers get
\* are frames of that session in the order they were sealed, none twice: also if an accept answers
\* another attempt, frames are lost while keys are derived, or come again behind later ones
\* (deriveClientSessionFromAccept, handleRawMessage).
SessionAgrees ==
  phase = "connected" =>
    /\ session.id = ServerSession(gen).id
    /\ session.receiveKey = ServerSession(gen).sendKey /\ session.sendKey = ServerSession(gen).receiveKey
    /\ \A i \in DOMAIN handled :
         /\ handled[i].key = ServerSession(gen).sendKey
         /\ \A j \in 1..(i - 1) : handled[j].seq < handled[i].seq

Held == phase = "opening" \/ (phase = "connected" /\ sock = "open")

\* A gateway that took the socket and does not answer the handshake.
Silent == phase = "exchange" /\ sock = "open"

\* A socket that closed before the client listened to it, while one of a refused handshake is still
\* open and keeps the process from ending.
Stranded == phase = "waitOpen" /\ sock = "closed" /\ abandoned # {}

\* Sockets may fail, close or be refused at any point: again and again the node holds a tunnel or is
\* opening one.  It stops only in two ways, each a wait without a time limit in the code: for an answer
\* from a gateway that stays silent for ever (exchangeHandshake), or for a socket that is closed
\* already (waitForOpen) while an abandoned one is never closed by the gateway (main).
KeepsTrying == []<>Held \/ <>[]Silent \/ <>[]Stranded
=============================================================================
