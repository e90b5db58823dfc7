--------------------------- MODULE ControlStreams ---------------------------
(***************************************************************************)
(* The stream multiplexer of one control connection: the state that        *)
(* startControlClient (src/src/clients/control-client.ts) keeps for one    *)
(* encrypted tunnel to the gateway, and its message, socket and close      *)
(* handlers.  The gateway opens streams, sends data on them and closes     *)
(* them; the node serves each according to the target it was opened with:  *)
(*                                                                         *)
(*   session  "proxy-session": every message is a proxied HTTP request     *)
(*   owner    "public-tunnel-owner": the far end of a public tunnel, over  *)
(*            which the public streams of that tunnel are multiplexed      *)
(*   public   "public-tunnel-stream": one visitor of a public tunnel       *)
(*   data     "data-plane": one ticketed request (see data-plane-stream.ts)*)
(*   raw      "raw-tunnel": a TCP socket to a target host                  *)
(*   other    any target the node does not support                         *)
(*                                                                         *)
(* JavaScript runs a handler without interruption up to its first real     *)
(* wait, and sealing and sending a frame never waits, so every handler     *)
(* below is one step except the ones that wait for a fetch, a benchmark or *)
(* a data-plane session.  Frames arrive in order, but the gateway may have *)
(* sent a frame before it saw what the node sent: it may use a stream the  *)
(* node has already closed.                                                *)
(***************************************************************************)
EXTENDS Naturals, FiniteSets

CONSTANTS
  Streams,   \* stream ids; the gateway opens each at most once
  Tunnels,   \* public tunnel ids
  Slots,     \* handler calls that may be waiting, or dropped in mid-count, at once (a bound)
  MaxIds,    \* owner-side stream ids per owner record (a bound; a u32 in the code)
  None       \* the absent stream or tunnel

ASSUME StreamsAssumption == None \notin Streams /\ None \notin Tunnels
ASSUME MaxIdsAssumption == MaxIds \in Nat \ {0}
ASSUME SlotsAssumption == IsFiniteSet(Slots)
\* A slot is "idle", holds a waiting call ("proxy", "eval" or the stream whose
\* message is being served), or a request that was "dropped" after it was counted.
ASSUME TagsAssumption == {"idle", "proxy", "eval", "dropped"} \cap Streams = {}

OwnerIds == 1..MaxIds
Targets == {"session", "owner", "public", "data", "raw", "other"}

VARIABLES
  conn,                 \* "open", "lost" (no longer writable) or "closed" (onClose has run)
  activeStreams,        \* Set of stream ids, reported in every heartbeat
  activeRequests,       \* counter, reported in every heartbeat
  publicTunnelOwners,   \* tunnel id -> owner record
  publicTunnelStreams,  \* public stream id -> its tunnel and owner-side id
  rawStreams,           \* stream ids with an entry in the rawStreams map
  socket,               \* state of the TCP socket of each raw stream
  dataPlaneStreams,     \* stream ids with an entry in the dataPlaneStreams map
  session,              \* state of the data-plane session of each data stream
  calls,                \* what each slot waits for
  out,                  \* the messages sent by the last step
  \* History: the gateway's side, and what the two sides have agreed on.
  opened,               \* target each stream was opened with, "unopened" before
  gwClosed,             \* streams the gateway has closed
  nodeClosed,           \* streams the node has sent a STREAM_CLOSE for
  granted,              \* <<owner stream, owner-side id, public stream>> linked by a STREAM_OPEN
  replaced              \* tunnels whose owner record was replaced while it had public streams

connVars == <<activeStreams, activeRequests, publicTunnelOwners, publicTunnelStreams,
              rawStreams, socket, dataPlaneStreams, session, calls>>
history == <<opened, gwClosed, nodeClosed, granted, replaced>>
vars == <<conn, connVars, out, history>>
-----------------------------------------------------------------------------
NoOwner == [streamId      |-> None,
            nextStreamId  |-> 1,
            ownerToServer |-> [k \in OwnerIds |-> None],
            serverToOwner |-> [s \in Streams |-> 0]]

NoLink == [tunnelId |-> None, ownerStreamId |-> 0]

IsPublic(s) == publicTunnelStreams[s].tunnelId # None

HasOwner(t) == publicTunnelOwners[t].streamId # None

IsOwner(s) == \E t \in Tunnels : publicTunnelOwners[t].streamId = s

\* Messages to the gateway.  `peer` and `id` say what a forwarded payload is: in a
\* frame to a tunnel's owner (STREAM_DATA on the owner stream, by its frame type)
\* the public stream it speaks for and the owner-side id it is labelled with; in
\* data sent on a public stream the owner stream and owner-side id it came from.
Message(type, s, k, peer) == [type |-> type, stream |-> s, id |-> k, peer |-> peer]
Data(s)  == Message("STREAM_DATA", s, 0, None)
Close(s) == Message("STREAM_CLOSE", s, 0, None)
Error    == Message("ERROR", None, 0, None)

\* client.send: a frame leaves the node only while the socket is open; otherwise
\* the call throws, which no handler lets skip a state change.
Send(msgs) ==
  /\ out' = IF conn = "open" THEN msgs ELSE {}
  /\ nodeClosed' = IF conn = "open"
                     THEN nodeClosed \cup {s \in Streams : Close(s) \in msgs}
                     ELSE nodeClosed
-----------------------------------------------------------------------------
Init ==
  /\ conn = "open"
  /\ activeStreams = {}
  /\ activeRequests = 0
  /\ publicTunnelOwners = [t \in Tunnels |-> NoOwner]
  /\ publicTunnelStreams = [s \in Streams |-> NoLink]
  /\ rawStreams = {}
  /\ socket = [s \in Streams |-> "none"]
  /\ dataPlaneStreams = {}
  /\ session = [s \in Streams |-> "none"]
  /\ calls = [i \in Slots |-> "idle"]
  /\ out = {}
  /\ opened = [s \in Streams |-> "unopened"]
  /\ gwClosed = {}
  /\ nodeClosed = {}
  /\ granted = {}
  /\ replaced = {}
-----------------------------------------------------------------------------
(***************************************************************************)
(* STREAM_OPEN, one action per target.                                     *)
(***************************************************************************)
Opening(s, target) ==
  /\ conn # "closed"
  /\ opened[s] = "unopened"
  /\ opened' = [opened EXCEPT ![s] = target]
  /\ UNCHANGED <<conn, activeRequests, calls, gwClosed>>

OpenSession(s) ==
  /\ Opening(s, "session")
  /\ activeStreams' = activeStreams \cup {s}
  /\ Send({})
  /\ UNCHANGED <<publicTunnelOwners, publicTunnelStreams, rawStreams, socket,
                 dataPlaneStreams, session, granted, replaced>>

\* publicTunnelOwners.set: a record the tunnel already had is dropped, the
\* public streams linked to it are not.
OpenOwner(s, t) ==
  /\ Opening(s, "owner")
  /\ activeStreams' = activeStreams \cup {s}
  /\ publicTunnelOwners' = [publicTunnelOwners EXCEPT ![t] = [NoOwner EXCEPT !.streamId = s]]
  /\ replaced' = IF HasOwner(t) /\ \E p \in Streams : publicTunnelStreams[p].tunnelId = t
                   THEN replaced \cup {t} ELSE replaced
  /\ Send({})
  /\ UNCHANGED <<publicTunnelStreams, rawStreams, socket, dataPlaneStreams, session, granted>>

OpenPublicRejected(s, t) ==
  /\ Opening(s, "public")
  /\ ~HasOwner(t)
  /\ Send({Close(s)})
  /\ UNCHANGED <<activeStreams, publicTunnelOwners, publicTunnelStreams, rawStreams, socket,
                 dataPlaneStreams, session, granted, replaced>>

OpenPublic(s, t) ==
  LET owner == publicTunnelOwners[t]
      k     == owner.nextStreamId IN
  /\ Opening(s, "public")
  /\ HasOwner(t)
  /\ k \in OwnerIds
  /\ publicTunnelOwners' = [publicTunnelOwners EXCEPT
       ![t] = [owner EXCEPT !.nextStreamId = k + 1,
                            !.ownerToServer = [@ EXCEPT ![k] = s],
                            !.serverToOwner = [@ EXCEPT ![s] = k]]]
  /\ publicTunnelStreams' = [publicTunnelStreams EXCEPT
       ![s] = [tunnelId |-> t, ownerStreamId |-> k]]
  /\ activeStreams' = activeStreams \cup {s}
  /\ granted' = granted \cup {<<owner.streamId, k, s>>}
  /\ Send({Message("OPEN", owner.streamId, k, s)})
  /\ UNCHANGED <<rawStreams, socket, dataPlaneStreams, session, replaced>>

OpenDataPlane(s) ==
  /\ Opening(s, "data")
  /\ activeStreams' = activeStreams \cup {s}
  /\ session' = [session EXCEPT ![s] = "running"]
  /\ dataPlaneStreams' = dataPlaneStreams \cup {s}
  /\ Send({})
  /\ UNCHANGED <<publicTunnelOwners, publicTunnelStreams, rawStreams, socket, granted, replaced>>

OpenUnsupported(s) ==
  /\ Opening(s, "other")
  /\ Send({Error})
  /\ UNCHANGED <<activeStreams, publicTunnelOwners, publicTunnelStreams, rawStreams, socket,
                 dataPlaneStreams, session, granted, replaced>>

OpenRaw(s) ==
  /\ Opening(s, "raw")
  /\ activeStreams' = activeStreams \cup {s}
  /\ socket' = [socket EXCEPT ![s] = "open"]
  /\ rawStreams' = rawStreams \cup {s}
  /\ Send({})
  /\ UNCHANGED <<publicTunnelOwners, publicTunnelStreams, dataPlaneStreams, session,
                 granted, replaced>>
-----------------------------------------------------------------------------
(***************************************************************************)
(* STREAM_DATA, in the order the handler tries the maps.  The gateway      *)
(* sends on a stream it has opened and not closed.                         *)
(***************************************************************************)
Receiving(s) ==
  /\ conn # "closed"
  /\ opened[s] # "unopened"
  /\ s \notin gwClosed
  /\ UNCHANGED <<conn, opened, granted, replaced>>

\* Mutant of OwnersWithout: owner.ownerToServer.delete is forgotten.
OwnersStillRouting(s) ==
  [t \in Tunnels |->
     IF t = publicTunnelStreams[s].tunnelId
       THEN [publicTunnelOwners[t] EXCEPT !.serverToOwner = [@ EXCEPT ![s] = 0]]
       ELSE publicTunnelOwners[t]]

\* cleanupPublicTunnelStream, as the values the three maps take: the record that
\* is now the owner of the stream's tunnel forgets the stream's owner-side id.
OwnersWithout(s) ==
  LET link == publicTunnelStreams[s] IN
  [t \in Tunnels |->
     IF t = link.tunnelId /\ HasOwner(t)
       THEN [publicTunnelOwners[t] EXCEPT
               !.ownerToServer = [@ EXCEPT ![link.ownerStreamId] = None],
               !.serverToOwner = [@ EXCEPT ![s] = 0]]
       ELSE publicTunnelOwners[t]]

CleanupPublicTunnelStream(s) ==
  /\ publicTunnelOwners' = OwnersWithout(s)
  /\ publicTunnelStreams' = [publicTunnelStreams EXCEPT ![s] = NoLink]
  /\ activeStreams' = activeStreams \ {s}

\* A frame from a tunnel's owner.  PONG, frames of an unknown type, frames that do
\* not decode and frames with an unknown owner-side id are dropped.
OwnerPing(o, t) ==
  /\ Receiving(o)
  /\ publicTunnelOwners[t].streamId = o
  /\ Send({Message("PONG", o, 0, None)})
  /\ UNCHANGED <<connVars, gwClosed>>

OwnerFrameDropped(o, t) ==
  /\ Receiving(o)
  /\ publicTunnelOwners[t].streamId = o
  /\ Send({})
  /\ UNCHANGED <<connVars, gwClosed>>

OwnerData(o, t, k) ==
  LET s == publicTunnelOwners[t].ownerToServer[k] IN
  /\ Receiving(o)
  /\ publicTunnelOwners[t].streamId = o
  /\ s # None
  /\ Send({Message("STREAM_DATA", s, k, o)})
  /\ UNCHANGED <<connVars, gwClosed>>

\* STREAM_END and STREAM_RESET.
OwnerEnd(o, t, k) ==
  LET s == publicTunnelOwners[t].ownerToServer[k] IN
  /\ Receiving(o)
  /\ publicTunnelOwners[t].streamId = o
  /\ s # None
  /\ CleanupPublicTunnelStream(s)
  /\ Send({Close(s)})
  /\ UNCHANGED <<activeRequests, rawStreams, socket, dataPlaneStreams, session, calls, gwClosed>>

PublicData(s) ==
  LET link  == publicTunnelStreams[s]
      owner == publicTunnelOwners[link.tunnelId] IN
  /\ Receiving(s)
  /\ ~IsOwner(s)
  /\ IsPublic(s)
  /\ HasOwner(link.tunnelId)
  /\ Send({Message("DATA", owner.streamId, link.ownerStreamId, s)})
  /\ UNCHANGED <<connVars, gwClosed>>

PublicDataOrphaned(s) ==
  /\ Receiving(s)
  /\ ~IsOwner(s)
  /\ IsPublic(s)
  /\ ~HasOwner(publicTunnelStreams[s].tunnelId)
  /\ CleanupPublicTunnelStream(s)
  /\ Send({Close(s)})
  /\ UNCHANGED <<activeRequests, rawStreams, socket, dataPlaneStreams, session, calls, gwClosed>>

\* Written to the target's socket, or pushed into the session's inbox.
RawOrDataPlaneData(s) ==
  /\ Receiving(s)
  /\ ~IsOwner(s) /\ ~IsPublic(s)
  /\ s \in rawStreams \/ s \in dataPlaneStreams
  /\ Send({})
  /\ UNCHANGED <<connVars, gwClosed>>

\* Data on any other stream id, known or not, is a proxied request: the handler
\* counts it and waits for the fetch.
SessionData(s, i) ==
  /\ Receiving(s)
  /\ ~IsOwner(s) /\ ~IsPublic(s) /\ s \notin rawStreams /\ s \notin dataPlaneStreams
  /\ calls[i] = "idle"
  /\ calls' = [calls EXCEPT ![i] = s]
  /\ activeRequests' = activeRequests + 1
  /\ Send({})
  /\ UNCHANGED <<activeStreams, publicTunnelOwners, publicTunnelStreams, rawStreams, socket,
                 dataPlaneStreams, session, gwClosed>>
-----------------------------------------------------------------------------
(***************************************************************************)
(* STREAM_CLOSE, in the order the handler tries the maps.                  *)
(***************************************************************************)
Closing(s) ==
  /\ Receiving(s)
  /\ gwClosed' = gwClosed \cup {s}
  /\ UNCHANGED <<activeRequests, calls>>

\* Mutant of OwnerClosed: the links of the tunnel's public streams are kept.
OwnerClosedKeepsLinks(o, t) ==
  /\ Closing(o)
  /\ publicTunnelOwners[t].streamId = o
  /\ activeStreams' = activeStreams \ {o}
  /\ publicTunnelOwners' = [publicTunnelOwners EXCEPT ![t] = NoOwner]
  /\ Send({})
  /\ UNCHANGED <<publicTunnelStreams, rawStreams, socket, dataPlaneStreams, session>>

OwnerClosed(o, t) ==
  LET linked == {s \in Streams : publicTunnelOwners[t].serverToOwner[s] # 0} IN
  /\ Closing(o)
  /\ publicTunnelOwners[t].streamId = o
  /\ publicTunnelStreams' = [s \in Streams |->
       IF s \in linked THEN NoLink ELSE publicTunnelStreams[s]]
  /\ activeStreams' = activeStreams \ (linked \cup {o})
  /\ publicTunnelOwners' = [publicTunnelOwners EXCEPT ![t] = NoOwner]
  /\ Send({Close(s) : s \in linked})
  /\ UNCHANGED <<rawStreams, socket, dataPlaneStreams, session>>

PublicClosed(s) ==
  LET link == publicTunnelStreams[s] IN
  /\ Closing(s)
  /\ ~IsOwner(s)
  /\ IsPublic(s)
  /\ Send(IF HasOwner(link.tunnelId)
            THEN {Message("RESET", publicTunnelOwners[link.tunnelId].streamId,
                          link.ownerStreamId, s)}
            ELSE {})
  /\ CleanupPublicTunnelStream(s)
  /\ UNCHANGED <<rawStreams, socket, dataPlaneStreams, session>>

\* fail(): the session's own STREAM_CLOSE is suppressed; a request it is already
\* serving runs on.
DataPlaneClosed(s) ==
  /\ Closing(s)
  /\ ~IsOwner(s) /\ ~IsPublic(s)
  /\ s \in dataPlaneStreams
  /\ dataPlaneStreams' = dataPlaneStreams \ {s}
  /\ activeStreams' = activeStreams \ {s}
  /\ session' = [session EXCEPT ![s] = "failed"]
  /\ Send({})
  /\ UNCHANGED <<publicTunnelOwners, publicTunnelStreams, rawStreams, socket>>

RawOrOtherClosed(s) ==
  /\ Closing(s)
  /\ ~IsOwner(s) /\ ~IsPublic(s) /\ s \notin dataPlaneStreams
  /\ rawStreams' = rawStreams \ {s}
  /\ socket' = [socket EXCEPT ![s] = IF s \in rawStreams THEN "destroyed" ELSE @]
  /\ activeStreams' = activeStreams \ {s}
  /\ Send({})
  /\ UNCHANGED <<publicTunnelOwners, publicTunnelStreams, dataPlaneStreams, session>>
-----------------------------------------------------------------------------
(***************************************************************************)
(* Events of a raw stream's TCP socket.                                    *)
(***************************************************************************)
SocketData(s) ==
  /\ socket[s] = "open"
  /\ Send({Data(s)})
  /\ UNCHANGED <<conn, connVars, opened, gwClosed, granted, replaced>>

\* Mutant of SocketClose: the early return for a stream that left the map is dropped.
SocketCloseAlwaysTells(s) ==
  /\ socket[s] \in {"open", "destroyed", "errored"}
  /\ socket' = [socket EXCEPT ![s] = "gone"]
  /\ rawStreams' = rawStreams \ {s}
  /\ activeStreams' = activeStreams \ {s}
  /\ Send({Close(s)})
  /\ UNCHANGED <<conn, activeRequests, publicTunnelOwners, publicTunnelStreams,
                 dataPlaneStreams, session, calls, opened, gwClosed, granted, replaced>>

\* "close" follows the target's end, an error or destroy(); it says nothing to the
\* gateway if the stream has left the map already.
SocketClose(s) ==
  /\ socket[s] \in {"open", "destroyed", "errored"}
  /\ socket' = [socket EXCEPT ![s] = "gone"]
  /\ rawStreams' = rawStreams \ {s}
  /\ activeStreams' = IF s \in rawStreams THEN activeStreams \ {s} ELSE activeStreams
  /\ Send(IF s \in rawStreams THEN {Close(s)} ELSE {})
  /\ UNCHANGED <<conn, activeRequests, publicTunnelOwners, publicTunnelStreams,
                 dataPlaneStreams, session, calls, opened, gwClosed, granted, replaced>>

\* Mutant of SocketError: activeStreams.delete is forgotten.
SocketErrorStaysActive(s) ==
  /\ socket[s] = "open"
  /\ socket' = [socket EXCEPT ![s] = "errored"]
  /\ rawStreams' = rawStreams \ {s}
  /\ Send({Error, Close(s)})
  /\ UNCHANGED <<conn, activeStreams, activeRequests, publicTunnelOwners, publicTunnelStreams,
                 dataPlaneStreams, session, calls, opened, gwClosed, granted, replaced>>

SocketError(s) ==
  /\ socket[s] = "open"
  /\ socket' = [socket EXCEPT ![s] = "errored"]
  /\ rawStreams' = rawStreams \ {s}
  /\ activeStreams' = activeStreams \ {s}
  /\ Send({Error, Close(s)})
  /\ UNCHANGED <<conn, activeRequests, publicTunnelOwners, publicTunnelStreams,
                 dataPlaneStreams, session, calls, opened, gwClosed, granted, replaced>>
-----------------------------------------------------------------------------
(***************************************************************************)
(* A data-plane session, seen from the connection: it may send, and it     *)
(* ends once, closing its stream unless it was failed.                     *)
(***************************************************************************)
DataPlaneSend(s) ==
  /\ session[s] \in {"running", "failed"}
  /\ Send({Data(s)})
  /\ UNCHANGED <<conn, connVars, opened, gwClosed, granted, replaced>>

DataPlaneDone(s) ==
  /\ session[s] \in {"running", "failed"}
  /\ session' = [session EXCEPT ![s] = "done"]
  /\ dataPlaneStreams' = dataPlaneStreams \ {s}
  /\ activeStreams' = activeStreams \ {s}
  /\ Send(IF session[s] = "running" THEN {Close(s)} ELSE {})
  /\ UNCHANGED <<conn, activeRequests, publicTunnelOwners, publicTunnelStreams, rawStreams,
                 socket, calls, opened, gwClosed, granted, replaced>>
-----------------------------------------------------------------------------
(***************************************************************************)
(* Calls that wait: PROXY_REQUEST, the trial probes of EVAL_REQUEST, and   *)
(* the proxied requests of SessionData.  Probes are not counted.  A        *)
(* PROXY_REQUEST is counted, then logged, then served within a try: one    *)
(* whose target_url is missing or null makes the log line throw, which     *)
(* skips the try and its finally.  The caller answers with an ERROR and    *)
(* nothing ever counts the request out.                                    *)
(***************************************************************************)
Calling(i, what) ==
  /\ conn # "closed"
  /\ calls[i] = "idle"
  /\ calls' = [calls EXCEPT ![i] = what]
  /\ UNCHANGED <<conn, activeStreams, publicTunnelOwners, publicTunnelStreams, rawStreams,
                 socket, dataPlaneStreams, session, opened, gwClosed, granted, replaced>>

ProxyRequest(i) ==
  /\ Calling(i, "proxy")
  /\ activeRequests' = activeRequests + 1
  /\ Send({})

ProxyRequestDropped(i) ==
  /\ Calling(i, "dropped")
  /\ activeRequests' = activeRequests + 1
  /\ Send({Error})

EvalRequest(i) ==
  /\ Calling(i, "eval")
  /\ Send({})
  /\ UNCHANGED activeRequests

EvalNotAllowed ==
  /\ conn # "closed"
  /\ Send({Error})
  /\ UNCHANGED <<conn, connVars, opened, gwClosed, granted, replaced>>

Decrement(n) == IF n = 0 THEN 0 ELSE n - 1

\* Mutant of CallDone: probes are counted out too, and without the clamp.
CallDoneCountsProbes(i) ==
  /\ calls[i] \notin {"idle", "dropped"}
  /\ calls' = [calls EXCEPT ![i] = "idle"]
  /\ activeRequests' = activeRequests - 1
  /\ Send({})
  /\ UNCHANGED <<conn, activeStreams, publicTunnelOwners, publicTunnelStreams, rawStreams,
                 socket, dataPlaneStreams, session, opened, gwClosed, granted, replaced>>

\* Mutant of CallDone: counted out after the answer is sent, not in a finally block.
CallDoneWithoutFinally(i) ==
  /\ calls[i] \notin {"idle", "dropped"}
  /\ calls' = [calls EXCEPT ![i] = "idle"]
  /\ activeRequests' = IF calls[i] = "eval" \/ conn # "open"
                         THEN activeRequests ELSE Decrement(activeRequests)
  /\ \E failed \in BOOLEAN :
       Send({IF failed THEN Error
             ELSE IF calls[i] \in Streams THEN Data(calls[i]) ELSE Message("REPLY", None, 0, None)})
  /\ UNCHANGED <<conn, activeStreams, publicTunnelOwners, publicTunnelStreams, rawStreams,
                 socket, dataPlaneStreams, session, opened, gwClosed, granted, replaced>>

\* The answer, or the error in its place; the finally block counts the call out
\* whether or not the answer could be sent.
CallDone(i) ==
  /\ calls[i] \notin {"idle", "dropped"}
  /\ calls' = [calls EXCEPT ![i] = "idle"]
  /\ activeRequests' = IF calls[i] = "eval" THEN activeRequests ELSE Decrement(activeRequests)
  /\ \E failed \in BOOLEAN :
       Send({IF failed THEN Error
             ELSE IF calls[i] \in Streams THEN Data(calls[i]) ELSE Message("REPLY", None, 0, None)})
  /\ UNCHANGED <<conn, activeStreams, publicTunnelOwners, publicTunnelStreams, rawStreams,
                 socket, dataPlaneStreams, session, opened, gwClosed, granted, replaced>>
-----------------------------------------------------------------------------
(***************************************************************************)
(* The connection.                                                         *)
(***************************************************************************)
Heartbeat ==
  /\ conn # "closed"
  /\ Send({Message("HEARTBEAT", None, 0, None)})
  /\ UNCHANGED <<conn, connVars, opened, gwClosed, granted, replaced>>

\* The gateway or the network drops the socket, or the node closes it (stop, a
\* failed heartbeat, a CLOSE frame, an applied update): sends fail from here on,
\* but events already under way are still delivered.
Lose ==
  /\ conn = "open"
  /\ conn' = "lost"
  /\ out' = {}
  /\ UNCHANGED <<connVars, history>>

\* Mutant of OnClose: the sockets are not destroyed (the leak src/src/tests/streams.test.ts
\* was written for).
OnCloseLeavesSockets ==
  /\ conn = "lost"
  /\ conn' = "closed"
  /\ session' = [s \in Streams |-> IF s \in dataPlaneStreams THEN "failed" ELSE session[s]]
  /\ rawStreams' = {}
  /\ publicTunnelOwners' = [t \in Tunnels |-> NoOwner]
  /\ publicTunnelStreams' = [s \in Streams |-> NoLink]
  /\ dataPlaneStreams' = {}
  /\ activeStreams' = {}
  /\ out' = {}
  /\ UNCHANGED <<activeRequests, socket, calls, history>>

OnClose ==
  /\ conn = "lost"
  /\ conn' = "closed"
  /\ socket' = [s \in Streams |-> IF s \in rawStreams THEN "destroyed" ELSE socket[s]]
  /\ session' = [s \in Streams |-> IF s \in dataPlaneStreams THEN "failed" ELSE session[s]]
  /\ rawStreams' = {}
  /\ publicTunnelOwners' = [t \in Tunnels |-> NoOwner]
  /\ publicTunnelStreams' = [s \in Streams |-> NoLink]
  /\ dataPlaneStreams' = {}
  /\ activeStreams' = {}
  /\ out' = {}
  /\ UNCHANGED <<activeRequests, calls, history>>
-----------------------------------------------------------------------------
StreamOpen(s) ==
  \/ OpenSession(s) \/ OpenDataPlane(s) \/ OpenUnsupported(s) \/ OpenRaw(s)
  \/ \E t \in Tunnels : OpenOwner(s, t) \/ OpenPublicRejected(s, t) \/ OpenPublic(s, t)

StreamData(s) ==
  \/ PublicData(s) \/ PublicDataOrphaned(s) \/ RawOrDataPlaneData(s)
  \/ \E i \in Slots : SessionData(s, i)
  \/ \E t \in Tunnels : OwnerPing(s, t) \/ OwnerFrameDropped(s, t)
  \/ \E t \in Tunnels, k \in OwnerIds : OwnerData(s, t, k) \/ OwnerEnd(s, t, k)

StreamClose(s) ==
  \/ PublicClosed(s) \/ DataPlaneClosed(s) \/ RawOrOtherClosed(s)
  \/ \E t \in Tunnels : OwnerClosed(s, t)

LocalEvent(s) ==
  \/ SocketData(s) \/ SocketClose(s) \/ SocketError(s)
  \/ DataPlaneSend(s) \/ DataPlaneDone(s)

Next ==
  \/ \E s \in Streams : StreamOpen(s) \/ StreamData(s) \/ StreamClose(s) \/ LocalEvent(s)
  \/ \E i \in Slots : ProxyRequest(i) \/ ProxyRequestDropped(i) \/ EvalRequest(i) \/ CallDone(i)
  \/ EvalNotAllowed \/ Heartbeat \/ Lose \/ OnClose

Spec == Init /\ [][Next]_vars
-----------------------------------------------------------------------------
(***************************************************************************)
(* Properties.                                                             *)
(***************************************************************************)
MessageTypes == {"STREAM_DATA", "STREAM_CLOSE", "ERROR", "REPLY", "HEARTBEAT",
                 "OPEN", "DATA", "RESET", "PONG"}

OwnerRecord == [streamId      : Streams \cup {None},
                nextStreamId  : 1..MaxIds + 1,
                ownerToServer : [OwnerIds -> Streams \cup {None}],
                serverToOwner : [Streams -> 0..MaxIds]]

\* Every variable has the type the code gives it.
TypeOK ==
  /\ conn \in {"open", "lost", "closed"}
  /\ activeStreams \subseteq Streams
  /\ activeRequests \in Nat
  /\ publicTunnelOwners \in [Tunnels -> OwnerRecord]
  /\ publicTunnelStreams \in [Streams -> [tunnelId : Tunnels \cup {None}, ownerStreamId : 0..MaxIds]]
  /\ rawStreams \subseteq Streams
  /\ socket \in [Streams -> {"none", "open", "destroyed", "errored", "gone"}]
  /\ dataPlaneStreams \subseteq Streams
  /\ session \in [Streams -> {"none", "running", "failed", "done"}]
  /\ calls \in [Slots -> {"idle", "proxy", "eval", "dropped"} \cup Streams]
  /\ out \subseteq [type : MessageTypes, stream : Streams \cup {None}, id : 0..MaxIds,
                    peer : Streams \cup {None}]
  /\ opened \in [Streams -> {"unopened"} \cup Targets]
  /\ gwClosed \subseteq Streams
  /\ nodeClosed \subseteq Streams
  /\ granted \subseteq Streams \X OwnerIds \X Streams
  /\ replaced \subseteq Tunnels

Linked(t) == {s \in Streams : publicTunnelStreams[s].tunnelId = t}

\* The active_streams count of a heartbeat, on which the server's "idle" and so its
\* update_apply rests: whatever order opens, closes, socket events and session ends
\* come in, activeStreams holds exactly the streams the node still serves.
ActiveStreamsExact ==
  activeStreams =
    rawStreams \cup dataPlaneStreams \cup {s \in Streams : IsPublic(s)}
      \cup (IF conn = "closed" THEN {}
            ELSE {s \in Streams \ gwClosed : opened[s] \in {"session", "owner"}})

Serving == {i \in Slots : calls[i] \notin {"idle", "eval", "dropped"}}

Dropped == {i \in Slots : calls[i] = "dropped"}

\* The active_requests count of a heartbeat: the increments before a wait and the
\* decrements of the finally blocks balance over every interleaving of requests,
\* probes, failures and a lost connection.  The count is the number of requests being
\* served plus the number dropped between the increment and the try, so it is never
\* too low (the node never looks idle while it serves) and the clamp at zero never acts.
\* It is not exact: a dropped request stays counted for the connection's life.
ActiveRequestsAccounted == activeRequests = Cardinality(Serving \cup Dropped)

\* Each map that serves a live thing knows it, and nothing outlives its map entry:
\* an open TCP socket or an unfailed session is always in its map (so onClose and
\* STREAM_CLOSE reach it), and once the connection is closed none is left.
NoLeak ==
  \A s \in Streams : /\ socket[s] = "open" <=> s \in rawStreams
                     /\ session[s] = "running" <=> s \in dataPlaneStreams

\* A public tunnel whose owner was never replaced under its streams keeps the three
\* maps of its routing in step: a linked stream has an owner, and the owner's two
\* maps name the stream and its owner-side id, and nothing else.
RoutingInStep ==
  \A t \in Tunnels \ replaced :
    LET owner == publicTunnelOwners[t] IN
    /\ \A s \in Streams :
         owner.serverToOwner[s] =
           IF s \in Linked(t) THEN publicTunnelStreams[s].ownerStreamId ELSE 0
    /\ \A s \in Linked(t) :
         /\ HasOwner(t)
         /\ owner.ownerToServer[publicTunnelStreams[s].ownerStreamId] = s
    /\ \A k \in OwnerIds : owner.ownerToServer[k] # None => owner.ownerToServer[k] \in Linked(t)

SentToRightPeer ==
  \A m \in out' :
    /\ m.type = "STREAM_DATA" /\ m.peer # None => <<m.peer, m.id, m.stream>> \in granted
    /\ m.type \in {"DATA", "RESET"} =>
         \/ <<m.stream, m.id, m.peer>> \in granted
         \/ publicTunnelStreams[m.peer].tunnelId \in replaced

\* No cross-talk: what an owner sends under an owner-side id reaches the public stream
\* that id was announced for, and what a visitor sends, or the reset when it leaves,
\* reaches the owner it was linked to under that id.  The second half has an exception
\* the code does make: a tunnel whose owner record was replaced under its streams.
RightPeer == [][SentToRightPeer]_vars

ClosesOnlyOpen == \A s \in nodeClosed \cup gwClosed : Close(s) \notin out'

\* The node sends STREAM_CLOSE for a stream at most once, and never echoes the
\* gateway's own STREAM_CLOSE: not when a target error is followed by its close
\* event, not when a session ends after it was failed, not when a tunnel's owner
\* goes after some of its streams have.
CloseOnce == [][ClosesOnlyOpen]_vars

LateDataAnswers ==
  \A m \in out' : m.type = "STREAM_DATA" /\ m.stream \in nodeClosed =>
    \E i \in Slots : calls[i] = m.stream /\ calls'[i] = "idle"

\* After it has closed a stream the node sends no data on it, from the target, the
\* session or the tunnel's owner; the one exception is the answer to gateway data
\* that crossed the close and was taken for a proxied request.
DataAfterCloseOnlyAnswers == [][LateDataAnswers]_vars
=============================================================================
