----------------------------- MODULE DataPlane ------------------------------
(***************************************************************************)
(* Data-plane sessions on one control tunnel: the session and its mailbox  *)
(* (src/src/clients/data-plane-stream.ts), the protocol of one request     *)
(* (src/src/tunnel/data-plane.ts), its handshake                           *)
(* (src/src/tunnel/data-handshake.ts, src/src/tunnel/responder-auth.ts)    *)
(* and the client's side of it (runDataRequest), composed with the serving *)
(* of requests (ProxyServe): the calls of that module are the streams of   *)
(* this one.                                                               *)
(*                                                                         *)
(* Stream s carries client s.  The gateway between them may drop either    *)
(* end, and deliver what a client sends to another stream, or twice.  Keys *)
(* are named by the client and the stream whose key pairs made them.       *)
(***************************************************************************)
EXTENDS ProxyServe

CONSTANTS
  Jtis,    \* tickets
  Sub,     \* per ticket, the dedupe key it was issued for
  Wishes   \* the ways in which clients may come with a request and a ticket

Wish == [req : Requests, jti : Jtis]

ASSUME DataPlaneAssumption ==
  Wishes \subseteq [Calls -> Wish] /\ Sub \in [Jtis -> {DedupeKey(r) : r \in Requests}]

Streams == Calls

VARIABLES
  at,       \* per stream, where serveDataConnection waits
  inbox,    \* per stream, what push() delivered and recv() has not taken
  peer,     \* per stream, the client whose init was accepted
  failed,   \* per stream, failure
  closed,   \* per stream, the flag of closeOnce
  reply,    \* per stream, the response to send
  toClient, \* per stream, what was sent to its client
  up,       \* the tunnel's socket is open
  owner,    \* per ticket, the stream that spent it
  client,   \* per client, where it is
  wish,     \* per client, its request and ticket
  key,      \* per client, its session
  \* History.
  closes,   \* per stream, how often STREAM_CLOSE was sent, or tried to
  replied   \* per stream, its response was sent

nodeVars == <<at, inbox, peer, failed, closed, reply, up, owner, closes, replied>>
clientVars == <<client, wish, key>>
vars == <<serveVars, nodeVars, toClient, clientVars>>

Inits == [kind : {"init"}, from : Streams]
RequestFrames == [kind : {"request"}, under : Streams \X Streams, req : Requests, jti : Jtis]
Accepts == [kind : {"accept"}, of : Streams, by : Streams]
Replies == {[code |-> c] : c \in {"bad_request", "unauthorized"}} \cup {Error} \cup Answers

TypeOK ==
  /\ ServeTypeOK
  /\ at \in [Streams -> {"new", "deps", "init", "accept", "request", "serve", "respond", "done"}]
  /\ inbox \in [Streams -> Seq(Inits \cup RequestFrames)]
  /\ peer \in [Streams -> Streams \cup {None}]
  /\ {failed, closed, replied} \subseteq [Streams -> BOOLEAN] /\ up \in BOOLEAN
  /\ reply \in [Streams -> Replies \cup {None}]
  /\ owner \in [Jtis -> Streams \cup {None}]
  /\ client \in [Streams -> {"new", "init", "sent", "got", "gone"}]
  /\ wish \in [Streams -> Wish]
  /\ key \in [Streams -> Streams \X Streams \cup {None}]
  /\ closes \in [Streams -> 0..1]

Init ==
  /\ ServeInit
  /\ at = [s \in Streams |-> "new"] /\ inbox = [s \in Streams |-> <<>>]
  /\ peer = [s \in Streams |-> None] /\ reply = [s \in Streams |-> None]
  /\ failed = [s \in Streams |-> FALSE] /\ closed = failed /\ replied = failed
  /\ toClient = inbox /\ up = TRUE /\ owner = [j \in Jtis |-> None]
  /\ client = [c \in Streams |-> "new"] /\ key = peer
  /\ wish \in Wishes
  /\ closes = [s \in Streams |-> 0]
-----------------------------------------------------------------------------
Active(s) == at[s] \notin {"new", "done"}
Goto(s, where) == at' = [at EXCEPT ![s] = where]
Take(s) == inbox' = [inbox EXCEPT ![s] = Tail(@)]

CloseOnce(s) ==
  /\ closes' = IF closed[s] THEN closes ELSE [closes EXCEPT ![s] = @ + 1]
  /\ closed' = [closed EXCEPT ![s] = TRUE]

\* The finally of startDataPlaneStream; the mailbox goes with the session.
EndSession(s) == Goto(s, "done") /\ CloseOnce(s) /\ inbox' = [inbox EXCEPT ![s] = <<>>]

\* STREAM_OPEN with target data-plane: its client has connected.
Open(s) ==
  /\ at[s] = "new" /\ up /\ Goto(s, "deps")
  /\ UNCHANGED <<serveVars, inbox, peer, failed, closed, reply, up, owner, closes, replied, toClient, clientVars>>

\* resolveDeps: an unregistered or unpinned node cannot serve.
Deps(s) ==
  /\ at[s] = "deps"
  /\ (Goto(s, "init") /\ UNCHANGED <<inbox, closed, closes>>) \/ EndSession(s)
  /\ UNCHANGED <<serveVars, peer, failed, reply, up, owner, replied, toClient, clientVars>>

\* Mutant of RecvRejects: fail() leaves the waiter alone.
RecvHangs(s) == FALSE

\* recv: what is buffered is delivered first, then a failure.
RecvRejects(s) == inbox[s] = <<>> /\ failed[s]

RecvFailed(s) ==
  /\ at[s] \in {"init", "request"} /\ RecvRejects(s)
  /\ EndSession(s)
  /\ UNCHANGED <<serveVars, peer, failed, reply, up, owner, replied, toClient, clientVars>>

\* acceptDataInit: anything but an init for this node throws.
TakeInit(s) ==
  /\ at[s] = "init" /\ inbox[s] # <<>>
  /\ LET m == Head(inbox[s]) IN
       \/ /\ m.kind = "init" /\ Take(s) /\ Goto(s, "accept") /\ peer' = [peer EXCEPT ![s] = m.from]
          /\ UNCHANGED <<closed, closes>>
       \/ m.kind # "init" /\ EndSession(s) /\ UNCHANGED peer
  /\ UNCHANGED <<serveVars, failed, reply, up, owner, replied, toClient, clientVars>>

\* The keys are derived and the proof is signed; sending fails without a tunnel.
SendAccept(s) ==
  /\ at[s] = "accept"
  /\ \/ /\ up /\ Goto(s, "request")
        /\ toClient' = [toClient EXCEPT ![s] = Append(@, [kind |-> "accept", of |-> peer[s], by |-> s])]
        /\ UNCHANGED <<inbox, closed, closes>>
     \/ ~up /\ EndSession(s) /\ UNCHANGED toClient
  /\ UNCHANGED <<serveVars, peer, failed, reply, up, owner, replied, clientVars>>

\* The frame opens under the session and is a request.
Opened(s, m) == m.kind = "request" /\ m.under = <<peer[s], s>>

\* decodeBody and toUpperCase throw on a body or a method that is no string.
Throws(s, m) == Opened(s, m) /\ m.req.method = "malformed"

\* Its profile allows it.
Valid(s, m) == Opened(s, m) /\ ~ProfileForbids(m.req)

\* Mutant of Authorized: the ticket's id is not looked up in the cache.
AuthorizedAgain(m) == Sub[m.jti] = DedupeKey(m.req)

\* verifyRequestTicket: the ticket is for this request, and unspent.
Authorized(m) == Sub[m.jti] = DedupeKey(m.req) /\ owner[m.jti] = None

\* Nothing catches that but the end of the session: there is no response, and no ticket is spent.
RequestThrows(s) ==
  /\ at[s] = "request" /\ inbox[s] # <<>> /\ Throws(s, Head(inbox[s]))
  /\ EndSession(s)
  /\ UNCHANGED <<serveVars, peer, failed, reply, up, owner, replied, toClient, clientVars>>

\* resolveProxyResponse up to its first wait: frame, profile, ticket, and the start of the serving.
TakeRequest(s) ==
  /\ at[s] = "request" /\ inbox[s] # <<>> /\ ~Throws(s, Head(inbox[s])) /\ Take(s)
  /\ LET m == Head(inbox[s])
         refuse(code) == /\ Goto(s, "respond") /\ reply' = [reply EXCEPT ![s] = [code |-> code]]
                         /\ UNCHANGED <<serveVars, owner>>
     IN  \/ ~Valid(s, m) /\ refuse("bad_request")
         \/ Valid(s, m) /\ ~Authorized(m) /\ refuse("unauthorized")
         \/ /\ Valid(s, m) /\ Authorized(m)
            /\ owner' = [owner EXCEPT ![m.jti] = s]
            /\ Begin(s, m.req) /\ Goto(s, "serve") /\ UNCHANGED reply
  /\ UNCHANGED <<peer, failed, closed, up, closes, replied, toClient, clientVars>>

Serve(s) ==
  /\ at[s] = "serve" /\ ServeStep(s)
  /\ UNCHANGED <<nodeVars, toClient, clientVars>>

Served(s) ==
  /\ at[s] = "serve" /\ call[s].at = "done"
  /\ Goto(s, "respond") /\ reply' = [reply EXCEPT ![s] = call[s].answer]
  /\ UNCHANGED <<serveVars, inbox, peer, failed, closed, up, owner, closes, replied, toClient, clientVars>>

\* The response is sealed and sent, also on a stream that its client has left; then close().
SendResponse(s) ==
  /\ at[s] = "respond" /\ EndSession(s)
  /\ \/ /\ up /\ replied' = [replied EXCEPT ![s] = TRUE]
        /\ toClient' = [toClient EXCEPT ![s] =
                          Append(@, [kind |-> "response", under |-> <<peer[s], s>>, body |-> reply[s]])]
     \/ ~up /\ UNCHANGED <<replied, toClient>>
  /\ UNCHANGED <<serveVars, peer, failed, reply, up, owner, clientVars>>

\* fail(): the client has left, or the tunnel is gone.
Fail(gone) ==
  /\ failed' = [s \in Streams |-> failed[s] \/ (s \in gone /\ Active(s))]
  /\ closed' = [s \in Streams |-> closed[s] \/ (s \in gone /\ Active(s))]

\* The socket is lost: from here on sending fails, and no stream is opened.
TunnelDrops ==
  /\ up /\ up' = FALSE
  /\ UNCHANGED <<serveVars, at, inbox, peer, failed, closed, reply, owner, closes, replied, toClient, clientVars>>

\* onClose, later: the sessions are told.
OnClose ==
  /\ ~up /\ Fail(Streams)
  /\ UNCHANGED <<serveVars, at, inbox, peer, reply, up, owner, closes, replied, toClient, clientVars>>
-----------------------------------------------------------------------------
\* What client c sends reaches its stream once or twice, or another stream; a session that is over, not
\* yet open or told that its client has left takes nothing.
Delivered(c, m) ==
  \E s \in Streams, copies \in {<<m>>, <<m, m>>} :
    /\ s # c => copies = <<m>>
    /\ inbox' = IF Active(s) /\ ~failed[s] THEN [inbox EXCEPT ![s] = @ \o copies] ELSE inbox

ClientStep(c, where) ==
  /\ client' = [client EXCEPT ![c] = where]
  /\ UNCHANGED <<serveVars, at, peer, reply, up, owner, closes, replied, wish>>

\* createDataInit.
SendInit(c) ==
  /\ client[c] = "new" /\ at[c] # "new"
  /\ Delivered(c, [kind |-> "init", from |-> c])
  /\ ClientStep(c, "init") /\ UNCHANGED <<failed, closed, toClient, key>>

\* verifyProof: the nonce and the channel binding are those of this client's own init.
ProofFits(c, m) == m.of = c

\* deriveClientDataSession, then the request under the session.
ClientAccepts(c) ==
  /\ client[c] = "init" /\ toClient[c] # <<>> /\ Head(toClient[c]).kind = "accept"
  /\ LET m == Head(toClient[c]) IN
       /\ ProofFits(c, m)
       /\ key' = [key EXCEPT ![c] = <<c, m.by>>]
       /\ Delivered(c, [kind |-> "request", under |-> <<c, m.by>>, req |-> wish[c].req, jti |-> wish[c].jti])
  /\ toClient' = [toClient EXCEPT ![c] = Tail(@)]
  /\ ClientStep(c, "sent") /\ UNCHANGED <<failed, closed>>

\* openFrame under the client's own session.
ClientGets(c) ==
  /\ client[c] = "sent" /\ toClient[c] # <<>>
  /\ Head(toClient[c]).kind = "response" /\ Head(toClient[c]).under = key[c]
  /\ ClientStep(c, "got") /\ UNCHANGED <<inbox, failed, closed, toClient, key>>

\* The client gives up, or refuses what it got: STREAM_CLOSE reaches the node.
ClientLeaves(c) ==
  /\ client[c] \in {"new", "init", "sent"} /\ at[c] # "new" /\ Fail({c})
  /\ ClientStep(c, "gone") /\ UNCHANGED <<inbox, toClient, key>>

Aging == (AgeCache \/ AgeDns) /\ UNCHANGED <<nodeVars, toClient, clientVars>>

Session(s) ==
  \/ Deps(s) \/ RecvFailed(s) \/ TakeInit(s) \/ SendAccept(s) \/ RequestThrows(s) \/ TakeRequest(s)
  \/ Serve(s) \/ Served(s) \/ SendResponse(s)

Client(c) == SendInit(c) \/ ClientAccepts(c) \/ ClientGets(c) \/ ClientLeaves(c)

Next == (\E s \in Streams : Open(s) \/ Session(s) \/ Client(s)) \/ TunnelDrops \/ OnClose \/ Aging

\* A session runs on; DNS answers, and a fetch ends within its timeout.
Spec == Init /\ [][Next]_vars /\ \A s \in Streams : WF_vars(Session(s))
-----------------------------------------------------------------------------
\* The answer a client gets is an answer to its own request: fetched from a checked address for the
\* same target and the same forwarded headers, whoever was served before or at the same time, and
\* cached only if it was a good one (verifyProof, openFrame, profileCacheKey, resolveAndCheckTarget).
AnswersOwnRequest ==
  \A c \in Streams :
    client[c] = "got" =>
      LET answer == Head(toClient[c]).body IN
      answer \in Answers =>
        /\ DedupeKey(answer.of) = DedupeKey(wish[c].req) /\ answer.of.cred = wish[c].req.cred
        /\ answer.from = "public" /\ (answer.cached => answer.ok)

\* A session that is told its peer or the tunnel is gone ends, wherever it stands: waiting, with
\* messages buffered, or serving (fail, recv, the finally of startDataPlaneStream).
SessionsEnd == \A s \in Streams : failed[s] ~> at[s] = "done"

\* The abstract service's view of a stream: what was served, or an error of the serving, is an answer.
Answered(s) == reply[s] \in Answers \cup {Error}

Phase(s) ==
  IF at[s] = "done" THEN IF replied[s] /\ Answered(s) THEN "answered" ELSE "over"
  ELSE IF at[s] = "serve" \/ (at[s] = "respond" /\ Answered(s)) THEN "admitted"
  ELSE "waiting"

Service == INSTANCE TicketedService WITH phase <- [s \in Streams |-> Phase(s)]

\* Every stream is admitted at most once, with a ticket that admits no other, and answered only then
\* (serveDataConnection, verifyRequestTicket).
ImplementsService == Service!Spec
=============================================================================
