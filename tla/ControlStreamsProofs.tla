------------------------ MODULE ControlStreamsProofs ------------------------
(***************************************************************************)
(* Proofs about ControlStreams, for every set of streams and tunnels,      *)
(* every finite set of slots and every MaxIds.                             *)
(*                                                                         *)
(* The properties are not inductive by themselves.  What makes them so is  *)
(* that every map entry names a stream opened with that entry's target and *)
(* closed by neither side (Kinds), and that both maps of an owner record   *)
(* point at links that point back (RecordsBacked): a stream id then has at *)
(* most one role, and no handler can disturb the entries of another role.  *)
(***************************************************************************)
EXTENDS ControlStreams, TLAPS, FiniteSetTheorems

Closed == gwClosed \cup nodeClosed

\* Every map entry is of a stream opened for it, which neither side has closed.
Kinds ==
  /\ \A s \in Streams :
       /\ IsPublic(s) => /\ opened[s] = "public" /\ s \notin Closed /\ conn # "closed"
                         /\ publicTunnelStreams[s].ownerStreamId \in OwnerIds
       /\ s \in rawStreams => opened[s] = "raw" /\ s \notin Closed
       /\ s \in dataPlaneStreams => opened[s] = "data" /\ s \notin Closed
       /\ session[s] \in {"running", "failed"} => opened[s] = "data" /\ s \notin nodeClosed
       /\ socket[s] # "none" => opened[s] = "raw"
       /\ s \in Closed => opened[s] # "unopened"
       /\ opened[s] \in {"session", "owner"} => s \notin nodeClosed
  /\ \A t \in Tunnels : HasOwner(t) =>
       /\ opened[publicTunnelOwners[t].streamId] = "owner"
       /\ publicTunnelOwners[t].streamId \notin gwClosed
       /\ conn # "closed"
  /\ conn = "closed" => rawStreams = {} /\ dataPlaneStreams = {}

\* A stream is the owner stream of one tunnel at most.
OwnersDistinct ==
  \A t, u \in Tunnels :
    HasOwner(t) /\ publicTunnelOwners[t].streamId = publicTunnelOwners[u].streamId => t = u

\* What the maps of an owner record say, the public streams' own links say too.
RecordsBacked ==
  \A t \in Tunnels :
    LET owner == publicTunnelOwners[t] IN
    /\ ~HasOwner(t) => owner = NoOwner
    /\ \A s \in Streams : owner.serverToOwner[s] # 0 =>
         publicTunnelStreams[s] = [tunnelId |-> t, ownerStreamId |-> owner.serverToOwner[s]]
    /\ \A k \in OwnerIds : owner.ownerToServer[k] # None =>
         /\ publicTunnelStreams[owner.ownerToServer[k]] = [tunnelId |-> t, ownerStreamId |-> k]
         /\ k < owner.nextStreamId
         /\ <<owner.streamId, k, owner.ownerToServer[k]>> \in granted

\* In a tunnel whose owner was never replaced under its streams, the converse.
LinksBacked ==
  \A s \in Streams :
    LET link == publicTunnelStreams[s] IN
    IsPublic(s) /\ link.tunnelId \notin replaced =>
      /\ HasOwner(link.tunnelId)
      /\ publicTunnelOwners[link.tunnelId].serverToOwner[s] = link.ownerStreamId
      /\ publicTunnelOwners[link.tunnelId].ownerToServer[link.ownerStreamId] = s

IInv == TypeOK /\ NoLeak /\ Kinds /\ OwnersDistinct /\ RecordsBacked /\ LinksBacked
             /\ ActiveStreamsExact

-----------------------------------------------------------------------------
(***************************************************************************)
(* Types.                                                                  *)
(***************************************************************************)
\* The record of a tunnel without an owner is well typed.
LEMMA NoOwnerType == NoOwner \in OwnerRecord /\ NoOwner.streamId = None
  BY MaxIdsAssumption DEF NoOwner, OwnerRecord, OwnerIds

\* What cleanupPublicTunnelStream does to the owner records, field by field: the
\* record of the stream's tunnel drops one entry of each map.
LEMMA CleanupEffect ==
  ASSUME TypeOK, NEW s \in Streams
  PROVE  /\ OwnersWithout(s) \in [Tunnels -> OwnerRecord]
         /\ \A t \in Tunnels :
              /\ OwnersWithout(s)[t].streamId = publicTunnelOwners[t].streamId
              /\ OwnersWithout(s)[t].nextStreamId = publicTunnelOwners[t].nextStreamId
              /\ \A p \in Streams : OwnersWithout(s)[t].serverToOwner[p] =
                   IF t = publicTunnelStreams[s].tunnelId /\ HasOwner(t) /\ p = s
                     THEN 0 ELSE publicTunnelOwners[t].serverToOwner[p]
              /\ \A k \in OwnerIds : OwnersWithout(s)[t].ownerToServer[k] =
                   IF t = publicTunnelStreams[s].tunnelId /\ HasOwner(t)
                        /\ k = publicTunnelStreams[s].ownerStreamId
                     THEN None ELSE publicTunnelOwners[t].ownerToServer[k]
              /\ ~HasOwner(t) => OwnersWithout(s)[t] = publicTunnelOwners[t]
  <1> DEFINE link == publicTunnelStreams[s]
  <1>1. link.ownerStreamId \in 0..MaxIds
    BY DEF TypeOK
  <1> SUFFICES ASSUME NEW t \in Tunnels
               PROVE  /\ OwnersWithout(s)[t] \in OwnerRecord
                      /\ OwnersWithout(s)[t].streamId = publicTunnelOwners[t].streamId
                      /\ OwnersWithout(s)[t].nextStreamId = publicTunnelOwners[t].nextStreamId
                      /\ \A p \in Streams : OwnersWithout(s)[t].serverToOwner[p] =
                           IF t = link.tunnelId /\ HasOwner(t) /\ p = s
                             THEN 0 ELSE publicTunnelOwners[t].serverToOwner[p]
                      /\ \A k \in OwnerIds : OwnersWithout(s)[t].ownerToServer[k] =
                           IF t = link.tunnelId /\ HasOwner(t) /\ k = link.ownerStreamId
                             THEN None ELSE publicTunnelOwners[t].ownerToServer[k]
                      /\ ~HasOwner(t) => OwnersWithout(s)[t] = publicTunnelOwners[t]
    BY DEF OwnersWithout
  <1> DEFINE owner == publicTunnelOwners[t]
  <1>2. owner \in OwnerRecord
    BY DEF TypeOK
  <1>3. CASE t = link.tunnelId /\ HasOwner(t)
    <2> DEFINE toServer == [owner.ownerToServer EXCEPT ![link.ownerStreamId] = None]
               toOwner  == [owner.serverToOwner EXCEPT ![s] = 0]
    <2>1. OwnersWithout(s)[t] = [owner EXCEPT !.ownerToServer = toServer, !.serverToOwner = toOwner]
      BY <1>3 DEF OwnersWithout
    <2>2. /\ owner.ownerToServer \in [OwnerIds -> Streams \cup {None}]
          /\ owner.serverToOwner \in [Streams -> 0..MaxIds]
          /\ 0 \in 0..MaxIds
      BY <1>2, MaxIdsAssumption DEF OwnerRecord
    <2>3. toServer \in [OwnerIds -> Streams \cup {None}] /\ toOwner \in [Streams -> 0..MaxIds]
      BY <2>2
    <2>4. /\ \A k \in OwnerIds :
               toServer[k] = IF k = link.ownerStreamId THEN None ELSE owner.ownerToServer[k]
          /\ \A p \in Streams : toOwner[p] = IF p = s THEN 0 ELSE owner.serverToOwner[p]
      BY <2>2
    <2> HIDE DEF toServer, toOwner
    <2>5. /\ OwnersWithout(s)[t] \in OwnerRecord
          /\ OwnersWithout(s)[t].streamId = owner.streamId
          /\ OwnersWithout(s)[t].nextStreamId = owner.nextStreamId
          /\ OwnersWithout(s)[t].ownerToServer = toServer
          /\ OwnersWithout(s)[t].serverToOwner = toOwner
      BY <1>2, <2>1, <2>3 DEF OwnerRecord
    <2> QED
      BY <1>3, <2>4, <2>5
  <1>4. CASE ~(t = link.tunnelId /\ HasOwner(t))
    BY <1>2, <1>4 DEF OwnersWithout
  <1> QED
    BY <1>3, <1>4

\* Every step keeps the types.
LEMMA TypeStep == TypeOK /\ [Next]_vars => TypeOK'
  <1> USE StreamsAssumption, MaxIdsAssumption
  <1> SUFFICES ASSUME TypeOK, [Next]_vars PROVE TypeOK'
    OBVIOUS
  <1> USE DEF Send, Message, Data, Close, Error, MessageTypes
  <1>1. ASSUME NEW s \in Streams, OpenSession(s) PROVE TypeOK'
    BY <1>1 DEF OpenSession, Opening, TypeOK, OwnerRecord, Targets
  <1>2. ASSUME NEW s \in Streams, OpenDataPlane(s) PROVE TypeOK'
    BY <1>2 DEF OpenDataPlane, Opening, TypeOK, OwnerRecord, Targets
  <1>3. ASSUME NEW s \in Streams, OpenUnsupported(s) PROVE TypeOK'
    BY <1>3 DEF OpenUnsupported, Opening, TypeOK, OwnerRecord, Targets
  <1>4. ASSUME NEW s \in Streams, OpenRaw(s) PROVE TypeOK'
    BY <1>4 DEF OpenRaw, Opening, TypeOK, OwnerRecord, Targets
  <1>5. ASSUME NEW s \in Streams, NEW t \in Tunnels, OpenOwner(s, t) PROVE TypeOK'
    <2>1. publicTunnelOwners' \in [Tunnels -> OwnerRecord]
      BY <1>5, NoOwnerType DEF OpenOwner, TypeOK, OwnerRecord
    <2> QED
      BY <1>5, <2>1 DEF OpenOwner, Opening, TypeOK, NoLink, Targets
  <1>6. ASSUME NEW s \in Streams, NEW t \in Tunnels, OpenPublicRejected(s, t) PROVE TypeOK'
    BY <1>6 DEF OpenPublicRejected, Opening, TypeOK, OwnerRecord, Targets
  <1>7. ASSUME NEW s \in Streams, NEW t \in Tunnels, OpenPublic(s, t) PROVE TypeOK'
    <2> DEFINE owner == publicTunnelOwners[t]
               k     == owner.nextStreamId
               new   == [owner EXCEPT !.nextStreamId = k + 1,
                                      !.ownerToServer = [@ EXCEPT ![k] = s],
                                      !.serverToOwner = [@ EXCEPT ![s] = k]]
    <2>1. publicTunnelOwners' \in [Tunnels -> OwnerRecord]
      <3>1. publicTunnelOwners' = [publicTunnelOwners EXCEPT ![t] = new] /\ k \in 1..MaxIds
        BY <1>7 DEF OpenPublic, OwnerIds
      <3>2. owner \in OwnerRecord
        BY DEF TypeOK
      <3>3. /\ owner.ownerToServer \in [OwnerIds -> Streams \cup {None}]
            /\ owner.serverToOwner \in [Streams -> 0..MaxIds]
            /\ k \in 0..MaxIds /\ k + 1 \in 1..MaxIds + 1
        BY <3>1, <3>2 DEF OwnerRecord
      <3> HIDE DEF k, owner
      <3>4. /\ [owner.ownerToServer EXCEPT ![k] = s] \in [OwnerIds -> Streams \cup {None}]
            /\ [owner.serverToOwner EXCEPT ![s] = k] \in [Streams -> 0..MaxIds]
        BY <3>3
      <3>5. new \in OwnerRecord
        BY <3>2, <3>3, <3>4 DEF OwnerRecord
      <3> QED
        BY <3>1, <3>5 DEF TypeOK, owner
    <2>2. granted' \subseteq Streams \X OwnerIds \X Streams
      BY <1>7 DEF OpenPublic, TypeOK, OwnerRecord, HasOwner
    <2>3. out' \subseteq [type : MessageTypes, stream : Streams \cup {None}, id : 0..MaxIds,
                         peer : Streams \cup {None}]
      BY <1>7 DEF OpenPublic, TypeOK, OwnerRecord, OwnerIds
    <2> QED
      BY <1>7, <2>1, <2>2, <2>3 DEF OpenPublic, Opening, TypeOK, Targets, OwnerIds
  <1>8. ASSUME NEW s \in Streams, PublicData(s) PROVE TypeOK'
    BY <1>8 DEF PublicData, Receiving, TypeOK, OwnerRecord, connVars, HasOwner, IsPublic
  <1>9. ASSUME NEW s \in Streams, PublicDataOrphaned(s) PROVE TypeOK'
    <2>1. OwnersWithout(s) \in [Tunnels -> OwnerRecord]
      BY CleanupEffect
    <2> QED
      BY <1>9, <2>1 DEF PublicDataOrphaned, Receiving, CleanupPublicTunnelStream, TypeOK,
         NoLink
  <1>10. ASSUME NEW s \in Streams, RawOrDataPlaneData(s) PROVE TypeOK'
    BY <1>10 DEF RawOrDataPlaneData, Receiving, TypeOK, OwnerRecord, connVars
  <1>11. ASSUME NEW s \in Streams, NEW i \in Slots, SessionData(s, i) PROVE TypeOK'
    BY <1>11 DEF SessionData, Receiving, TypeOK, OwnerRecord
  <1>12. ASSUME NEW s \in Streams, NEW t \in Tunnels, OwnerPing(s, t) PROVE TypeOK'
    BY <1>12 DEF OwnerPing, Receiving, TypeOK, OwnerRecord, connVars
  <1>13. ASSUME NEW s \in Streams, NEW t \in Tunnels, OwnerFrameDropped(s, t) PROVE TypeOK'
    BY <1>13 DEF OwnerFrameDropped, Receiving, TypeOK, OwnerRecord, connVars
  <1>14. ASSUME NEW s \in Streams, NEW t \in Tunnels, NEW k \in OwnerIds, OwnerData(s, t, k)
     PROVE TypeOK'
    BY <1>14 DEF OwnerData, Receiving, TypeOK, OwnerRecord, connVars, OwnerIds
  <1>15. ASSUME NEW s \in Streams, NEW t \in Tunnels, NEW k \in OwnerIds, OwnerEnd(s, t, k)
     PROVE TypeOK'
    <2> DEFINE p == publicTunnelOwners[t].ownerToServer[k]
    <2>1. p \in Streams
      BY <1>15 DEF OwnerEnd, TypeOK, OwnerRecord
    <2>2. OwnersWithout(p) \in [Tunnels -> OwnerRecord]
      BY <2>1, CleanupEffect
    <2> QED
      BY <1>15, <2>1, <2>2 DEF OwnerEnd, Receiving, CleanupPublicTunnelStream, TypeOK,
         NoLink
  <1>16. ASSUME NEW s \in Streams, PublicClosed(s) PROVE TypeOK'
    <2>1. OwnersWithout(s) \in [Tunnels -> OwnerRecord]
      BY CleanupEffect
    <2>2. out' \subseteq [type : MessageTypes, stream : Streams \cup {None}, id : 0..MaxIds,
                         peer : Streams \cup {None}]
      BY <1>16 DEF PublicClosed, TypeOK, OwnerRecord, HasOwner, IsPublic
    <2> QED
      BY <1>16, <2>1, <2>2 DEF PublicClosed, Closing, Receiving, CleanupPublicTunnelStream,
         TypeOK, NoLink
  <1>17. ASSUME NEW s \in Streams, DataPlaneClosed(s) PROVE TypeOK'
    BY <1>17 DEF DataPlaneClosed, Closing, Receiving, TypeOK, OwnerRecord
  <1>18. ASSUME NEW s \in Streams, RawOrOtherClosed(s) PROVE TypeOK'
    BY <1>18 DEF RawOrOtherClosed, Closing, Receiving, TypeOK, OwnerRecord
  <1>19. ASSUME NEW s \in Streams, NEW t \in Tunnels, OwnerClosed(s, t) PROVE TypeOK'
    <2>1. publicTunnelOwners' \in [Tunnels -> OwnerRecord]
      BY <1>19, NoOwnerType DEF OwnerClosed, TypeOK, OwnerRecord
    <2> QED
      BY <1>19, <2>1 DEF OwnerClosed, Closing, Receiving, TypeOK, NoLink, Targets
  <1>20. ASSUME NEW s \in Streams, SocketData(s) PROVE TypeOK'
    BY <1>20 DEF SocketData, TypeOK, OwnerRecord, connVars
  <1>21. ASSUME NEW s \in Streams, SocketClose(s) PROVE TypeOK'
    BY <1>21 DEF SocketClose, TypeOK, OwnerRecord
  <1>22. ASSUME NEW s \in Streams, SocketError(s) PROVE TypeOK'
    BY <1>22 DEF SocketError, TypeOK, OwnerRecord
  <1>23. ASSUME NEW s \in Streams, DataPlaneSend(s) PROVE TypeOK'
    BY <1>23 DEF DataPlaneSend, TypeOK, OwnerRecord, connVars
  <1>24. ASSUME NEW s \in Streams, DataPlaneDone(s) PROVE TypeOK'
    BY <1>24 DEF DataPlaneDone, TypeOK, OwnerRecord
  <1>25. ASSUME NEW i \in Slots, ProxyRequest(i) PROVE TypeOK'
    BY <1>25 DEF ProxyRequest, Calling, TypeOK, OwnerRecord
  <1>25a. ASSUME NEW i \in Slots, ProxyRequestDropped(i) PROVE TypeOK'
    BY <1>25a DEF ProxyRequestDropped, Calling, TypeOK, OwnerRecord
  <1>26. ASSUME NEW i \in Slots, EvalRequest(i) PROVE TypeOK'
    BY <1>26 DEF EvalRequest, Calling, TypeOK, OwnerRecord
  <1>27. ASSUME NEW i \in Slots, CallDone(i) PROVE TypeOK'
    BY <1>27 DEF CallDone, TypeOK, OwnerRecord, Decrement
  <1>28. ASSUME EvalNotAllowed PROVE TypeOK'
    BY <1>28 DEF EvalNotAllowed, TypeOK, OwnerRecord, connVars
  <1>29. ASSUME Heartbeat PROVE TypeOK'
    BY <1>29 DEF Heartbeat, TypeOK, OwnerRecord, connVars
  <1>30. ASSUME Lose PROVE TypeOK'
    BY <1>30 DEF Lose, TypeOK, OwnerRecord, connVars, history
  <1>31. ASSUME OnClose PROVE TypeOK'
    BY <1>31, NoOwnerType DEF OnClose, TypeOK, OwnerRecord, history, NoLink
  <1>32. CASE UNCHANGED vars
    BY <1>32 DEF TypeOK, vars, connVars, history
  <1> QED
    BY <1>1, <1>2, <1>3, <1>4, <1>5, <1>6, <1>7, <1>8, <1>9, <1>10, <1>11, <1>12, <1>13,
       <1>14, <1>15, <1>16, <1>17, <1>18, <1>19, <1>20, <1>21, <1>22, <1>23, <1>24, <1>25,
       <1>25a, <1>26, <1>27, <1>28, <1>29, <1>30, <1>31, <1>32 DEF Next, StreamOpen, StreamData,
       StreamClose, LocalEvent

\* Every variable keeps its type in every reachable state.
THEOREM TypeCorrect == Spec => []TypeOK
  <1>1. Init => TypeOK
    BY StreamsAssumption, MaxIdsAssumption, NoOwnerType DEF Init, TypeOK, NoLink, Targets
  <1> QED
    BY <1>1, TypeStep, PTL DEF Spec

-----------------------------------------------------------------------------
(***************************************************************************)
(* Routing: the owner records and the links of the public streams.         *)
(***************************************************************************)
Routing == OwnersDistinct /\ RecordsBacked /\ LinksBacked

routing == <<publicTunnelOwners, publicTunnelStreams, granted, replaced>>

\* Forgetting a public stream keeps the records and the links in step.
LEMMA CleanupKeepsRouting ==
  ASSUME IInv, NEW s \in Streams, IsPublic(s), CleanupPublicTunnelStream(s),
         UNCHANGED <<granted, replaced>>
  PROVE  Routing'
  <1> DEFINE link == publicTunnelStreams[s]
  <1>1. /\ \A t \in Tunnels :
             /\ publicTunnelOwners'[t].streamId = publicTunnelOwners[t].streamId
             /\ publicTunnelOwners'[t].nextStreamId = publicTunnelOwners[t].nextStreamId
             /\ \A p \in Streams : publicTunnelOwners'[t].serverToOwner[p] =
                  IF t = link.tunnelId /\ HasOwner(t) /\ p = s
                    THEN 0 ELSE publicTunnelOwners[t].serverToOwner[p]
             /\ \A k \in OwnerIds : publicTunnelOwners'[t].ownerToServer[k] =
                  IF t = link.tunnelId /\ HasOwner(t) /\ k = link.ownerStreamId
                    THEN None ELSE publicTunnelOwners[t].ownerToServer[k]
             /\ ~HasOwner(t) => publicTunnelOwners'[t] = publicTunnelOwners[t]
    BY CleanupEffect DEF IInv, CleanupPublicTunnelStream
  <1>2. \A p \in Streams : publicTunnelStreams'[p] = IF p = s THEN NoLink ELSE publicTunnelStreams[p]
    BY DEF IInv, TypeOK, CleanupPublicTunnelStream
  <1>3. \A t \in Tunnels : HasOwner(t)' <=> HasOwner(t)
    BY <1>1 DEF HasOwner
  <1>4. /\ \A t \in Tunnels, k \in OwnerIds :
             publicTunnelOwners[t].ownerToServer[k] \in Streams \cup {None}
        /\ link.tunnelId \in Tunnels /\ link.ownerStreamId \in OwnerIds
    BY DEF IInv, TypeOK, OwnerRecord, IsPublic, Kinds
  <1>5. OwnersDistinct'
    BY <1>1, <1>3 DEF IInv, OwnersDistinct
  <1>6. RecordsBacked'
    <2> SUFFICES ASSUME NEW t \in Tunnels
                 PROVE  /\ ~HasOwner(t) => publicTunnelOwners'[t] = NoOwner
                        /\ \A p \in Streams : publicTunnelOwners'[t].serverToOwner[p] # 0 =>
                             publicTunnelStreams'[p] =
                               [tunnelId |-> t,
                                ownerStreamId |-> publicTunnelOwners'[t].serverToOwner[p]]
                        /\ \A k \in OwnerIds : publicTunnelOwners'[t].ownerToServer[k] # None =>
                             /\ publicTunnelStreams'[publicTunnelOwners'[t].ownerToServer[k]] =
                                  [tunnelId |-> t, ownerStreamId |-> k]
                             /\ k < publicTunnelOwners'[t].nextStreamId
                             /\ <<publicTunnelOwners'[t].streamId, k,
                                  publicTunnelOwners'[t].ownerToServer[k]>> \in granted'
      BY <1>3, Zenon DEF RecordsBacked
    <2>1. ~HasOwner(t) => publicTunnelOwners'[t] = NoOwner
      BY <1>1 DEF IInv, RecordsBacked
    <2>2. HasOwner(t) \/ \A p \in Streams : publicTunnelOwners[t].serverToOwner[p] = 0
      BY DEF IInv, RecordsBacked, NoOwner
    <2>3. HasOwner(t) \/ \A k \in OwnerIds : publicTunnelOwners[t].ownerToServer[k] = None
      BY DEF IInv, RecordsBacked, NoOwner
    <2>4. ASSUME NEW p \in Streams, publicTunnelOwners'[t].serverToOwner[p] # 0
          PROVE  publicTunnelStreams'[p] =
                   [tunnelId |-> t, ownerStreamId |-> publicTunnelOwners'[t].serverToOwner[p]]
      BY <1>1, <1>2, <2>2, <2>4 DEF IInv, RecordsBacked
    <2>5. ASSUME NEW k \in OwnerIds, publicTunnelOwners'[t].ownerToServer[k] # None
          PROVE  /\ publicTunnelStreams'[publicTunnelOwners'[t].ownerToServer[k]] =
                      [tunnelId |-> t, ownerStreamId |-> k]
                 /\ k < publicTunnelOwners'[t].nextStreamId
                 /\ <<publicTunnelOwners'[t].streamId, k,
                      publicTunnelOwners'[t].ownerToServer[k]>> \in granted'
      BY <1>1, <1>2, <1>4, <2>3, <2>5 DEF IInv, RecordsBacked
    <2> QED
      BY <2>1, <2>4, <2>5
  <1>7. LinksBacked'
    <2> SUFFICES ASSUME NEW p \in Streams, IsPublic(p)',
                        publicTunnelStreams'[p].tunnelId \notin replaced'
                 PROVE  LET l == publicTunnelStreams'[p] IN
                        /\ publicTunnelOwners'[l.tunnelId].streamId # None
                        /\ publicTunnelOwners'[l.tunnelId].serverToOwner[p] = l.ownerStreamId
                        /\ publicTunnelOwners'[l.tunnelId].ownerToServer[l.ownerStreamId] = p
      BY DEF LinksBacked, HasOwner
    <2> DEFINE l == publicTunnelStreams[p]
    <2>1. p # s /\ publicTunnelStreams'[p] = l
      BY <1>2 DEF IsPublic, NoLink
    <2>2. IsPublic(p) /\ l.tunnelId \in Tunnels /\ l.ownerStreamId \in OwnerIds
      BY <2>1 DEF IsPublic, IInv, TypeOK, Kinds
    <2>3. /\ HasOwner(l.tunnelId)
          /\ publicTunnelOwners[l.tunnelId].serverToOwner[p] = l.ownerStreamId
          /\ publicTunnelOwners[l.tunnelId].ownerToServer[l.ownerStreamId] = p
      BY <2>1, <2>2 DEF IInv, LinksBacked
    <2>4. ~(l.tunnelId = link.tunnelId /\ l.ownerStreamId = link.ownerStreamId)
      BY <1>4, <2>1, <2>2, <2>3 DEF IInv, LinksBacked, IsPublic
    <2> QED
      BY <1>1, <2>1, <2>2, <2>3, <2>4 DEF HasOwner
  <1> QED
    BY <1>5, <1>6, <1>7 DEF Routing

\* RecordsBacked for one entry: what it says of the stream's own link.
LEMMA RecordEntry ==
  ASSUME IInv, NEW t \in Tunnels
  PROVE  /\ \A s \in Streams : publicTunnelOwners[t].serverToOwner[s] # 0 =>
              /\ publicTunnelStreams[s].tunnelId = t
              /\ publicTunnelStreams[s].ownerStreamId = publicTunnelOwners[t].serverToOwner[s]
         /\ \A k \in OwnerIds : publicTunnelOwners[t].ownerToServer[k] # None =>
              /\ publicTunnelOwners[t].ownerToServer[k] \in Streams
              /\ publicTunnelStreams[publicTunnelOwners[t].ownerToServer[k]].tunnelId = t
              /\ publicTunnelStreams[publicTunnelOwners[t].ownerToServer[k]].ownerStreamId = k
              /\ k < publicTunnelOwners[t].nextStreamId
              /\ <<publicTunnelOwners[t].streamId, k, publicTunnelOwners[t].ownerToServer[k]>>
                   \in granted
  <1>1. ASSUME NEW s \in Streams, publicTunnelOwners[t].serverToOwner[s] # 0
        PROVE  publicTunnelStreams[s] =
                 [tunnelId |-> t, ownerStreamId |-> publicTunnelOwners[t].serverToOwner[s]]
    BY <1>1, Zenon DEF IInv, RecordsBacked
  <1>2. ASSUME NEW k \in OwnerIds, publicTunnelOwners[t].ownerToServer[k] # None
        PROVE  /\ publicTunnelStreams[publicTunnelOwners[t].ownerToServer[k]] =
                    [tunnelId |-> t, ownerStreamId |-> k]
               /\ k < publicTunnelOwners[t].nextStreamId
               /\ <<publicTunnelOwners[t].streamId, k, publicTunnelOwners[t].ownerToServer[k]>>
                    \in granted
    BY <1>2, Zenon DEF IInv, RecordsBacked
  <1>3. \A k \in OwnerIds : publicTunnelOwners[t].ownerToServer[k] \in Streams \cup {None}
    BY DEF IInv, TypeOK, OwnerRecord
  <1>4. ASSUME NEW s \in Streams, publicTunnelOwners[t].serverToOwner[s] # 0
        PROVE  /\ publicTunnelStreams[s].tunnelId = t
               /\ publicTunnelStreams[s].ownerStreamId = publicTunnelOwners[t].serverToOwner[s]
    <2> DEFINE k == publicTunnelOwners[t].serverToOwner[s]
    <2>1. publicTunnelStreams[s] = [tunnelId |-> t, ownerStreamId |-> k]
      BY <1>1, <1>4, Zenon
    <2> HIDE DEF k
    <2>2. publicTunnelStreams[s].tunnelId = t /\ publicTunnelStreams[s].ownerStreamId = k
      BY <2>1
    <2> QED
      BY <2>2 DEF k
  <1>5. ASSUME NEW k \in OwnerIds, publicTunnelOwners[t].ownerToServer[k] # None
        PROVE  /\ publicTunnelOwners[t].ownerToServer[k] \in Streams
               /\ publicTunnelStreams[publicTunnelOwners[t].ownerToServer[k]].tunnelId = t
               /\ publicTunnelStreams[publicTunnelOwners[t].ownerToServer[k]].ownerStreamId = k
    <2> DEFINE s == publicTunnelOwners[t].ownerToServer[k]
    <2>1. s \in Streams
      BY <1>3, <1>5
    <2>2. publicTunnelStreams[s] = [tunnelId |-> t, ownerStreamId |-> k]
      BY <1>2, <1>5, Zenon
    <2> QED
      BY <2>1, <2>2
  <1> QED
    BY <1>2, <1>4, <1>5, Zenon

\* A stream that is not open yet has no part in the routing.
LEMMA UnopenedUnrouted ==
  ASSUME IInv, NEW s \in Streams, opened[s] = "unopened"
  PROVE  /\ ~IsPublic(s) /\ ~IsOwner(s)
         /\ \A t \in Tunnels : /\ publicTunnelOwners[t].serverToOwner[s] = 0
                               /\ \A k \in OwnerIds : publicTunnelOwners[t].ownerToServer[k] # s
  <1>1. ~IsPublic(s)
    BY DEF IInv, Kinds
  <1>2. ~IsOwner(s)
    BY StreamsAssumption DEF IInv, Kinds, IsOwner, HasOwner
  <1>3. ASSUME NEW t \in Tunnels
        PROVE  /\ publicTunnelOwners[t].serverToOwner[s] = 0
               /\ \A k \in OwnerIds : publicTunnelOwners[t].ownerToServer[k] # s
    <2>1. publicTunnelOwners[t].serverToOwner[s] = 0
      BY <1>1, RecordEntry, StreamsAssumption DEF IsPublic
    <2>2. ASSUME NEW k \in OwnerIds, publicTunnelOwners[t].ownerToServer[k] = s PROVE FALSE
      BY <1>1, <2>2, RecordEntry, StreamsAssumption DEF IsPublic
    <2> QED
      BY <2>1, <2>2
  <1> QED
    BY <1>1, <1>2, <1>3

\* An owner that opens, a second time too, keeps the records and the links in step.
LEMMA OpenOwnerKeepsRouting ==
  ASSUME IInv, NEW s \in Streams, NEW t \in Tunnels, OpenOwner(s, t)
  PROVE  Routing'
  <1> USE StreamsAssumption
  <1>1. /\ \A u \in Tunnels \ {t} : publicTunnelOwners'[u] = publicTunnelOwners[u]
        /\ publicTunnelOwners'[t].streamId = s
        /\ \A p \in Streams : publicTunnelOwners'[t].serverToOwner[p] = 0
        /\ \A k \in OwnerIds : publicTunnelOwners'[t].ownerToServer[k] = None
    BY DEF OpenOwner, IInv, TypeOK, NoOwner
  <1>2. UNCHANGED <<publicTunnelStreams, granted>> /\ opened[s] = "unopened"
    BY DEF OpenOwner, Opening
  <1>3. ~IsOwner(s)
    BY <1>2, UnopenedUnrouted
  <1>4. \A u \in Tunnels : HasOwner(u)' <=> u = t \/ HasOwner(u)
    BY <1>1 DEF HasOwner
  <1>5. OwnersDistinct'
    BY <1>1, <1>3, <1>4 DEF IInv, OwnersDistinct, IsOwner
  <1>6. RecordsBacked'
    <2>1. ASSUME NEW u \in Tunnels, u # t
          PROVE  LET owner == publicTunnelOwners[u] IN
                 /\ ~HasOwner(u) => owner = NoOwner
                 /\ \A p \in Streams : owner.serverToOwner[p] # 0 => publicTunnelStreams[p] =
                      [tunnelId |-> u, ownerStreamId |-> owner.serverToOwner[p]]
                 /\ \A k \in OwnerIds : owner.ownerToServer[k] # None =>
                      /\ publicTunnelStreams[owner.ownerToServer[k]] =
                           [tunnelId |-> u, ownerStreamId |-> k]
                      /\ k < owner.nextStreamId
                      /\ <<owner.streamId, k, owner.ownerToServer[k]>> \in granted
      BY DEF IInv, RecordsBacked
    <2> QED
      BY <1>1, <1>2, <1>4, <2>1 DEF RecordsBacked
  <1>7. LinksBacked'
    <2> SUFFICES ASSUME NEW p \in Streams, IsPublic(p),
                        publicTunnelStreams[p].tunnelId \notin replaced'
                 PROVE  LET l == publicTunnelStreams[p] IN
                        /\ publicTunnelOwners'[l.tunnelId].streamId # None
                        /\ publicTunnelOwners'[l.tunnelId].serverToOwner[p] = l.ownerStreamId
                        /\ publicTunnelOwners'[l.tunnelId].ownerToServer[l.ownerStreamId] = p
      BY <1>2 DEF LinksBacked, IsPublic, HasOwner
    <2> DEFINE l == publicTunnelStreams[p]
    <2>1. l.tunnelId \in Tunnels
      BY DEF IInv, TypeOK, IsPublic
    <2>2. l.tunnelId \notin replaced
      BY DEF OpenOwner
    <2>3. HasOwner(l.tunnelId)
      BY <2>2 DEF IInv, LinksBacked
    <2>4. l.tunnelId # t
      BY <2>1, <2>3 DEF OpenOwner
    <2> QED
      BY <1>1, <2>1, <2>2, <2>3, <2>4 DEF IInv, LinksBacked, HasOwner
  <1> QED
    BY <1>5, <1>6, <1>7 DEF Routing

\* What opening a public stream does to the routing, field by field.
LEMMA OpenPublicEffect ==
  ASSUME TypeOK, NEW s \in Streams, NEW t \in Tunnels, OpenPublic(s, t)
  PROVE  LET owner == publicTunnelOwners[t]
             k     == owner.nextStreamId
         IN
         /\ \A u \in Tunnels \ {t} : publicTunnelOwners'[u] = publicTunnelOwners[u]
         /\ publicTunnelOwners'[t].streamId = owner.streamId
         /\ publicTunnelOwners'[t].nextStreamId = k + 1
         /\ \A p \in Streams : publicTunnelOwners'[t].serverToOwner[p] =
              IF p = s THEN k ELSE owner.serverToOwner[p]
         /\ \A j \in OwnerIds : publicTunnelOwners'[t].ownerToServer[j] =
              IF j = k THEN s ELSE owner.ownerToServer[j]
         /\ \A p \in Streams : publicTunnelStreams'[p] =
              IF p = s THEN [tunnelId |-> t, ownerStreamId |-> k] ELSE publicTunnelStreams[p]
  <1> DEFINE owner == publicTunnelOwners[t]
             k     == owner.nextStreamId
             toServer == [owner.ownerToServer EXCEPT ![k] = s]
             toOwner  == [owner.serverToOwner EXCEPT ![s] = k]
  <1>1. publicTunnelOwners' = [publicTunnelOwners EXCEPT ![t] =
          [owner EXCEPT !.nextStreamId = k + 1, !.ownerToServer = toServer, !.serverToOwner = toOwner]]
    BY DEF OpenPublic
  <1>2. /\ owner \in OwnerRecord /\ publicTunnelOwners \in [Tunnels -> OwnerRecord]
        /\ owner.ownerToServer \in [OwnerIds -> Streams \cup {None}]
        /\ owner.serverToOwner \in [Streams -> 0..MaxIds]
    BY DEF TypeOK, OwnerRecord
  <1>3. /\ \A p \in Streams : toOwner[p] = IF p = s THEN k ELSE owner.serverToOwner[p]
        /\ \A j \in OwnerIds : toServer[j] = IF j = k THEN s ELSE owner.ownerToServer[j]
    BY <1>2
  <1>4. \A p \in Streams : publicTunnelStreams'[p] =
          IF p = s THEN [tunnelId |-> t, ownerStreamId |-> k] ELSE publicTunnelStreams[p]
    BY DEF OpenPublic, TypeOK
  <1> HIDE DEF toServer, toOwner
  <1>5. /\ publicTunnelOwners'[t].streamId = owner.streamId
        /\ publicTunnelOwners'[t].nextStreamId = k + 1
        /\ publicTunnelOwners'[t].ownerToServer = toServer
        /\ publicTunnelOwners'[t].serverToOwner = toOwner
        /\ \A u \in Tunnels \ {t} : publicTunnelOwners'[u] = publicTunnelOwners[u]
    BY <1>1, <1>2 DEF OwnerRecord
  <1> QED
    BY <1>3, <1>4, <1>5

\* A public stream that opens is entered in both maps of its tunnel, under a fresh id.
LEMMA OpenPublicKeepsRouting ==
  ASSUME IInv, NEW s \in Streams, NEW t \in Tunnels, OpenPublic(s, t)
  PROVE  Routing'
  <1> USE StreamsAssumption
  <1> DEFINE k == publicTunnelOwners[t].nextStreamId
  <1>1. /\ opened[s] = "unopened" /\ HasOwner(t) /\ k \in OwnerIds /\ k \in Nat /\ k # 0
        /\ granted' = granted \cup {<<publicTunnelOwners[t].streamId, k, s>>}
        /\ UNCHANGED replaced
    BY MaxIdsAssumption DEF OpenPublic, Opening, OwnerIds
  <1>2. /\ \A u \in Tunnels \ {t} : publicTunnelOwners'[u] = publicTunnelOwners[u]
        /\ publicTunnelOwners'[t].streamId = publicTunnelOwners[t].streamId
        /\ publicTunnelOwners'[t].nextStreamId = k + 1
        /\ \A p \in Streams : publicTunnelOwners'[t].serverToOwner[p] =
             IF p = s THEN k ELSE publicTunnelOwners[t].serverToOwner[p]
        /\ \A j \in OwnerIds : publicTunnelOwners'[t].ownerToServer[j] =
             IF j = k THEN s ELSE publicTunnelOwners[t].ownerToServer[j]
        /\ \A p \in Streams : publicTunnelStreams'[p] =
             IF p = s THEN [tunnelId |-> t, ownerStreamId |-> k] ELSE publicTunnelStreams[p]
    BY OpenPublicEffect DEF IInv
  <1>3. \A u \in Tunnels : HasOwner(u)' <=> HasOwner(u)
    BY <1>2 DEF HasOwner
  <1>4. \A u \in Tunnels : /\ publicTunnelOwners[u].serverToOwner[s] = 0
                           /\ \A j \in OwnerIds : publicTunnelOwners[u].ownerToServer[j] # s
    BY <1>1, UnopenedUnrouted
  <1>5. \A u \in Tunnels, j \in OwnerIds :
          publicTunnelOwners[u].ownerToServer[j] \in Streams \cup {None} /\ j \in Nat
    BY MaxIdsAssumption DEF IInv, TypeOK, OwnerRecord, OwnerIds
  <1>6. OwnersDistinct'
    BY <1>2, <1>3 DEF IInv, OwnersDistinct
  <1> HIDE DEF k
  <1>7. RecordsBacked'
    <2>1. ASSUME NEW u \in Tunnels
          PROVE  /\ ~HasOwner(u) => publicTunnelOwners[u] = NoOwner
                 /\ \A p \in Streams : publicTunnelOwners[u].serverToOwner[p] # 0 =>
                      publicTunnelStreams[p] =
                        [tunnelId |-> u, ownerStreamId |-> publicTunnelOwners[u].serverToOwner[p]]
                 /\ \A j \in OwnerIds : publicTunnelOwners[u].ownerToServer[j] # None =>
                      /\ publicTunnelStreams[publicTunnelOwners[u].ownerToServer[j]] =
                           [tunnelId |-> u, ownerStreamId |-> j]
                      /\ j < publicTunnelOwners[u].nextStreamId
                      /\ <<publicTunnelOwners[u].streamId, j,
                           publicTunnelOwners[u].ownerToServer[j]>> \in granted
      BY DEF IInv, RecordsBacked
    <2>2. ASSUME NEW u \in Tunnels
          PROVE  ~HasOwner(u) => publicTunnelOwners'[u] = NoOwner
      BY <1>1, <1>2, <2>1
    <2>3. ASSUME NEW u \in Tunnels, NEW p \in Streams, publicTunnelOwners'[u].serverToOwner[p] # 0
          PROVE  publicTunnelStreams'[p] =
                   [tunnelId |-> u, ownerStreamId |-> publicTunnelOwners'[u].serverToOwner[p]]
      BY <1>2, <1>4, <2>1, <2>3
    <2>4. ASSUME NEW u \in Tunnels, NEW j \in OwnerIds,
                 publicTunnelOwners'[u].ownerToServer[j] # None
          PROVE  /\ publicTunnelStreams'[publicTunnelOwners'[u].ownerToServer[j]] =
                      [tunnelId |-> u, ownerStreamId |-> j]
                 /\ j < publicTunnelOwners'[u].nextStreamId
                 /\ <<publicTunnelOwners'[u].streamId, j,
                      publicTunnelOwners'[u].ownerToServer[j]>> \in granted'
      <3>1. CASE u = t /\ j = k
        BY <1>1, <1>2, <1>5, <3>1
      <3>2. CASE ~(u = t /\ j = k)
        <4>1. publicTunnelOwners'[u].ownerToServer[j] = publicTunnelOwners[u].ownerToServer[j]
          BY <1>2, <3>2
        <4>2. publicTunnelOwners'[u].streamId = publicTunnelOwners[u].streamId
          BY <1>2
        <4>3. j < publicTunnelOwners'[u].nextStreamId
          <5>1. j < publicTunnelOwners[u].nextStreamId
            BY <2>4, <4>1, RecordEntry
          <5>2. publicTunnelOwners[u].nextStreamId \in Nat
            BY MaxIdsAssumption DEF IInv, TypeOK, OwnerRecord
          <5> QED
            BY <1>2, <1>5, <5>1, <5>2 DEF k
        <4>4. publicTunnelStreams'[publicTunnelOwners'[u].ownerToServer[j]] =
                [tunnelId |-> u, ownerStreamId |-> j]
          <5>1. publicTunnelOwners[u].ownerToServer[j] \in Streams \ {s}
            BY <1>4, <1>5, <2>4, <4>1
          <5>2. publicTunnelStreams'[publicTunnelOwners[u].ownerToServer[j]] =
                  publicTunnelStreams[publicTunnelOwners[u].ownerToServer[j]]
            BY <1>2, <5>1
          <5> QED
            BY <2>1, <2>4, <4>1, <5>2, Zenon
        <4> QED
          BY <1>1, <2>1, <2>4, <4>1, <4>2, <4>3, <4>4
      <3> QED
        BY <3>1, <3>2
    <2> QED
      BY <1>3, <2>2, <2>3, <2>4, Zenon DEF RecordsBacked
  <1>8. LinksBacked'
    <2> SUFFICES ASSUME NEW p \in Streams, IsPublic(p)',
                        publicTunnelStreams'[p].tunnelId \notin replaced
                 PROVE  LET l == publicTunnelStreams'[p] IN
                        /\ publicTunnelOwners'[l.tunnelId].streamId # None
                        /\ publicTunnelOwners'[l.tunnelId].serverToOwner[p] = l.ownerStreamId
                        /\ publicTunnelOwners'[l.tunnelId].ownerToServer[l.ownerStreamId] = p
      BY <1>1 DEF LinksBacked, HasOwner
    <2>1. CASE p = s
      BY <1>1, <1>2, <2>1 DEF HasOwner
    <2>2. CASE p # s
      <3> DEFINE l == publicTunnelStreams[p]
      <3>1. publicTunnelStreams'[p] = l /\ IsPublic(p)
        BY <1>2, <2>2 DEF IsPublic
      <3>2. l.tunnelId \in Tunnels /\ l.ownerStreamId \in OwnerIds
        BY <3>1 DEF IsPublic, IInv, TypeOK, Kinds
      <3>3. /\ HasOwner(l.tunnelId)
            /\ publicTunnelOwners[l.tunnelId].serverToOwner[p] = l.ownerStreamId
            /\ publicTunnelOwners[l.tunnelId].ownerToServer[l.ownerStreamId] = p
        BY <3>1, <3>2 DEF IInv, LinksBacked
      <3>4. l.ownerStreamId < publicTunnelOwners[l.tunnelId].nextStreamId
        <4>1. publicTunnelOwners[l.tunnelId].ownerToServer[l.ownerStreamId] # None
          BY <3>3
        <4> QED
          BY <3>2, <4>1, RecordEntry, Zenon
      <3>5. ~(l.tunnelId = t /\ l.ownerStreamId = k)
        BY <1>1, <3>4 DEF k
      <3> QED
        BY <1>2, <2>2, <3>1, <3>2, <3>3, <3>5 DEF HasOwner
    <2> QED
      BY <2>1, <2>2
  <1> QED
    BY <1>6, <1>7, <1>8 DEF Routing

\* The owner closes: its record and the links of all its streams go together.
LEMMA OwnerClosedKeepsRouting ==
  ASSUME IInv, NEW o \in Streams, NEW t \in Tunnels, OwnerClosed(o, t)
  PROVE  Routing'
  <1> USE StreamsAssumption
  <1> DEFINE linked == {s \in Streams : publicTunnelOwners[t].serverToOwner[s] # 0}
  <1>1. /\ \A u \in Tunnels \ {t} : publicTunnelOwners'[u] = publicTunnelOwners[u]
        /\ publicTunnelOwners'[t] = NoOwner
        /\ \A p \in Streams : publicTunnelStreams'[p] =
             IF p \in linked THEN NoLink ELSE publicTunnelStreams[p]
        /\ UNCHANGED <<granted, replaced>>
    BY DEF OwnerClosed, Closing, Receiving, IInv, TypeOK
  <1>2. /\ NoOwner.streamId = None
        /\ \A p \in Streams : NoOwner.serverToOwner[p] = 0
        /\ \A k \in OwnerIds : NoOwner.ownerToServer[k] = None
    BY DEF NoOwner
  <1>3. \A u \in Tunnels : HasOwner(u)' <=> HasOwner(u) /\ u # t
    BY <1>1, <1>2 DEF HasOwner
  <1>4. \A p \in linked : publicTunnelStreams[p].tunnelId = t
    BY RecordEntry
  <1>5. OwnersDistinct'
    BY <1>1, <1>2, <1>3 DEF IInv, OwnersDistinct, HasOwner
  <1> HIDE DEF linked
  <1>6. RecordsBacked'
    <2>1. ASSUME NEW u \in Tunnels, u # t
          PROVE  /\ ~HasOwner(u) => publicTunnelOwners[u] = NoOwner
                 /\ \A p \in Streams : publicTunnelOwners[u].serverToOwner[p] # 0 =>
                      publicTunnelStreams'[p] =
                        [tunnelId |-> u, ownerStreamId |-> publicTunnelOwners[u].serverToOwner[p]]
                 /\ \A k \in OwnerIds : publicTunnelOwners[u].ownerToServer[k] # None =>
                      /\ publicTunnelStreams'[publicTunnelOwners[u].ownerToServer[k]] =
                           [tunnelId |-> u, ownerStreamId |-> k]
                      /\ k < publicTunnelOwners[u].nextStreamId
                      /\ <<publicTunnelOwners[u].streamId, k,
                           publicTunnelOwners[u].ownerToServer[k]>> \in granted
      <3>1. \A k \in OwnerIds : publicTunnelOwners[u].ownerToServer[k] \in Streams \cup {None}
        BY DEF IInv, TypeOK, OwnerRecord
      <3> QED
        BY <1>1, <1>4, <2>1, <3>1 DEF IInv, RecordsBacked
    <2> QED
      BY <1>1, <1>2, <1>3, <2>1 DEF RecordsBacked
  <1>7. LinksBacked'
    <2> SUFFICES ASSUME NEW p \in Streams, IsPublic(p)',
                        publicTunnelStreams'[p].tunnelId \notin replaced
                 PROVE  LET l == publicTunnelStreams'[p] IN
                        /\ publicTunnelOwners'[l.tunnelId].streamId # None
                        /\ publicTunnelOwners'[l.tunnelId].serverToOwner[p] = l.ownerStreamId
                        /\ publicTunnelOwners'[l.tunnelId].ownerToServer[l.ownerStreamId] = p
      BY <1>1 DEF LinksBacked, HasOwner
    <2> DEFINE l == publicTunnelStreams[p]
    <2>1. publicTunnelStreams'[p] = l /\ IsPublic(p) /\ p \notin linked
      BY <1>1 DEF IsPublic, NoLink
    <2>2. l.tunnelId \in Tunnels /\ l.ownerStreamId \in OwnerIds /\ l.ownerStreamId # 0
      BY <2>1, MaxIdsAssumption DEF IsPublic, IInv, TypeOK, Kinds, OwnerIds
    <2>3. /\ HasOwner(l.tunnelId)
          /\ publicTunnelOwners[l.tunnelId].serverToOwner[p] = l.ownerStreamId
          /\ publicTunnelOwners[l.tunnelId].ownerToServer[l.ownerStreamId] = p
      BY <2>1, <2>2 DEF IInv, LinksBacked
    <2>4. l.tunnelId # t
      BY <2>1, <2>2, <2>3 DEF linked
    <2> QED
      BY <1>1, <2>1, <2>2, <2>3, <2>4 DEF HasOwner
  <1> QED
    BY <1>5, <1>6, <1>7 DEF Routing

\* Only public streams are entered in a record.
LEMMA EntryIsPublic ==
  ASSUME IInv, NEW t \in Tunnels, NEW k \in OwnerIds,
         publicTunnelOwners[t].ownerToServer[k] # None
  PROVE  /\ publicTunnelOwners[t].ownerToServer[k] \in Streams
         /\ IsPublic(publicTunnelOwners[t].ownerToServer[k])
  <1> DEFINE s == publicTunnelOwners[t].ownerToServer[k]
  <1>1. s \in Streams /\ publicTunnelStreams[s].tunnelId = t
    BY RecordEntry, Zenon
  <1> QED
    BY <1>1, StreamsAssumption DEF IsPublic

\* Every step keeps records and links in step: one case per action.
LEMMA RoutingStep == IInv /\ [Next]_vars => Routing'
  <1> SUFFICES ASSUME IInv, [Next]_vars PROVE Routing'
    OBVIOUS
  <1>1. ASSUME NEW s \in Streams, OpenSession(s) PROVE UNCHANGED routing
    BY <1>1 DEF OpenSession, Opening, routing
  <1>2. ASSUME NEW s \in Streams, OpenDataPlane(s) PROVE UNCHANGED routing
    BY <1>2 DEF OpenDataPlane, Opening, routing
  <1>3. ASSUME NEW s \in Streams, OpenUnsupported(s) PROVE UNCHANGED routing
    BY <1>3 DEF OpenUnsupported, Opening, routing
  <1>4. ASSUME NEW s \in Streams, OpenRaw(s) PROVE UNCHANGED routing
    BY <1>4 DEF OpenRaw, Opening, routing
  <1>5. ASSUME NEW s \in Streams, NEW t \in Tunnels, OpenOwner(s, t) PROVE Routing'
    BY <1>5, OpenOwnerKeepsRouting
  <1>6. ASSUME NEW s \in Streams, NEW t \in Tunnels, OpenPublicRejected(s, t)
        PROVE  UNCHANGED routing
    BY <1>6 DEF OpenPublicRejected, Opening, routing
  <1>7. ASSUME NEW s \in Streams, NEW t \in Tunnels, OpenPublic(s, t) PROVE Routing'
    BY <1>7, OpenPublicKeepsRouting
  <1>8. ASSUME NEW s \in Streams, PublicData(s) PROVE UNCHANGED routing
    BY <1>8 DEF PublicData, Receiving, connVars, routing
  <1>9. ASSUME NEW s \in Streams, PublicDataOrphaned(s) PROVE Routing'
    BY <1>9, CleanupKeepsRouting DEF PublicDataOrphaned, Receiving
  <1>10. ASSUME NEW s \in Streams, RawOrDataPlaneData(s) PROVE UNCHANGED routing
    BY <1>10 DEF RawOrDataPlaneData, Receiving, connVars, routing
  <1>11. ASSUME NEW s \in Streams, NEW i \in Slots, SessionData(s, i) PROVE UNCHANGED routing
    BY <1>11 DEF SessionData, Receiving, routing
  <1>12. ASSUME NEW s \in Streams, NEW t \in Tunnels, OwnerPing(s, t) PROVE UNCHANGED routing
    BY <1>12 DEF OwnerPing, Receiving, connVars, routing
  <1>13. ASSUME NEW s \in Streams, NEW t \in Tunnels, OwnerFrameDropped(s, t)
        PROVE  UNCHANGED routing
    BY <1>13 DEF OwnerFrameDropped, Receiving, connVars, routing
  <1>14. ASSUME NEW s \in Streams, NEW t \in Tunnels, NEW k \in OwnerIds, OwnerData(s, t, k)
        PROVE  UNCHANGED routing
    BY <1>14 DEF OwnerData, Receiving, connVars, routing
  <1>15. ASSUME NEW s \in Streams, NEW t \in Tunnels, NEW k \in OwnerIds, OwnerEnd(s, t, k)
        PROVE  Routing'
    <2> DEFINE p == publicTunnelOwners[t].ownerToServer[k]
    <2>1. p \in Streams /\ IsPublic(p)
      BY <1>15, EntryIsPublic DEF OwnerEnd
    <2> QED
      BY <1>15, <2>1, CleanupKeepsRouting DEF OwnerEnd, Receiving
  <1>16. ASSUME NEW s \in Streams, PublicClosed(s) PROVE Routing'
    BY <1>16, CleanupKeepsRouting DEF PublicClosed, Closing, Receiving
  <1>17. ASSUME NEW s \in Streams, DataPlaneClosed(s) PROVE UNCHANGED routing
    BY <1>17 DEF DataPlaneClosed, Closing, Receiving, routing
  <1>18. ASSUME NEW s \in Streams, RawOrOtherClosed(s) PROVE UNCHANGED routing
    BY <1>18 DEF RawOrOtherClosed, Closing, Receiving, routing
  <1>19. ASSUME NEW s \in Streams, NEW t \in Tunnels, OwnerClosed(s, t) PROVE Routing'
    BY <1>19, OwnerClosedKeepsRouting
  <1>20. ASSUME NEW s \in Streams, SocketData(s) PROVE UNCHANGED routing
    BY <1>20 DEF SocketData, connVars, routing
  <1>21. ASSUME NEW s \in Streams, SocketClose(s) PROVE UNCHANGED routing
    BY <1>21 DEF SocketClose, routing
  <1>22. ASSUME NEW s \in Streams, SocketError(s) PROVE UNCHANGED routing
    BY <1>22 DEF SocketError, routing
  <1>23. ASSUME NEW s \in Streams, DataPlaneSend(s) PROVE UNCHANGED routing
    BY <1>23 DEF DataPlaneSend, connVars, routing
  <1>24. ASSUME NEW s \in Streams, DataPlaneDone(s) PROVE UNCHANGED routing
    BY <1>24 DEF DataPlaneDone, routing
  <1>25. ASSUME NEW i \in Slots, ProxyRequest(i) PROVE UNCHANGED routing
    BY <1>25 DEF ProxyRequest, Calling, routing
  <1>25a. ASSUME NEW i \in Slots, ProxyRequestDropped(i) PROVE UNCHANGED routing
    BY <1>25a DEF ProxyRequestDropped, Calling, routing
  <1>26. ASSUME NEW i \in Slots, EvalRequest(i) PROVE UNCHANGED routing
    BY <1>26 DEF EvalRequest, Calling, routing
  <1>27. ASSUME NEW i \in Slots, CallDone(i) PROVE UNCHANGED routing
    BY <1>27 DEF CallDone, routing
  <1>28. ASSUME EvalNotAllowed PROVE UNCHANGED routing
    BY <1>28 DEF EvalNotAllowed, connVars, routing
  <1>29. ASSUME Heartbeat PROVE UNCHANGED routing
    BY <1>29 DEF Heartbeat, connVars, routing
  <1>30. ASSUME Lose PROVE UNCHANGED routing
    BY <1>30 DEF Lose, connVars, history, routing
  <1>31. ASSUME OnClose PROVE Routing'
    BY <1>31, StreamsAssumption DEF OnClose, Routing, OwnersDistinct, RecordsBacked,
                                    LinksBacked,
       HasOwner, IsPublic, NoOwner, NoLink
  <1>32. ASSUME UNCHANGED vars PROVE UNCHANGED routing
    BY <1>32 DEF vars, connVars, history, routing
  <1>33. ASSUME UNCHANGED routing PROVE Routing'
    BY <1>33 DEF IInv, Routing, routing, OwnersDistinct, RecordsBacked, LinksBacked, HasOwner,
       IsPublic
  <1> QED
    BY <1>1, <1>2, <1>3, <1>4, <1>5, <1>6, <1>7, <1>8, <1>9, <1>10, <1>11, <1>12, <1>13, <1>14,
       <1>15, <1>16, <1>17, <1>18, <1>19, <1>20, <1>21, <1>22, <1>23, <1>24, <1>25, <1>26, <1>27,
       <1>25a, <1>28, <1>29, <1>30, <1>31, <1>32, <1>33 DEF Next, StreamOpen, StreamData, StreamClose,
       LocalEvent

-----------------------------------------------------------------------------
(***************************************************************************)
(* The maps, the sockets and sessions they stand for, and activeStreams.   *)
(***************************************************************************)
StreamsInv == NoLeak /\ Kinds /\ ActiveStreamsExact

streams == <<conn, activeStreams, publicTunnelOwners, publicTunnelStreams, rawStreams, socket,
             dataPlaneStreams, session, opened, gwClosed, nodeClosed>>

\* Forgetting a public stream, whichever side closes it.
LEMMA CleanupKeepsStreams ==
  ASSUME IInv, NEW s \in Streams, IsPublic(s), CleanupPublicTunnelStream(s),
         UNCHANGED <<conn, rawStreams, socket, dataPlaneStreams, session, opened>>,
         nodeClosed \subseteq nodeClosed' /\ nodeClosed' \subseteq nodeClosed \cup {s},
         gwClosed \subseteq gwClosed' /\ gwClosed' \subseteq gwClosed \cup {s}
  PROVE  StreamsInv'
  <1>1. \A t \in Tunnels : publicTunnelOwners'[t].streamId = publicTunnelOwners[t].streamId
    BY CleanupEffect DEF IInv, CleanupPublicTunnelStream
  <1>2. \A p \in Streams : publicTunnelStreams'[p] = IF p = s THEN NoLink ELSE publicTunnelStreams[p]
    BY DEF IInv, TypeOK, CleanupPublicTunnelStream
  <1>3. \A p \in Streams : IsPublic(p)' <=> IsPublic(p) /\ p # s
    BY <1>2 DEF IsPublic, NoLink
  <1>4. opened[s] = "public" /\ s \notin rawStreams /\ s \notin dataPlaneStreams
    BY DEF IInv, Kinds
  <1>5. NoLeak'
    BY DEF IInv, NoLeak
  <1>6. Kinds'
    <2>1. ASSUME NEW p \in Streams
          PROVE  /\ IsPublic(p)' => /\ opened[p] = "public" /\ p \notin Closed'
                                    /\ conn # "closed"
                                    /\ publicTunnelStreams'[p].ownerStreamId \in OwnerIds
                 /\ p \in rawStreams => opened[p] = "raw" /\ p \notin Closed'
                 /\ p \in dataPlaneStreams => opened[p] = "data" /\ p \notin Closed'
                 /\ session[p] \in {"running", "failed"} => opened[p] = "data" /\ p \notin nodeClosed'
                 /\ socket[p] # "none" => opened[p] = "raw"
                 /\ p \in Closed' => opened[p] # "unopened"
                 /\ opened[p] \in {"session", "owner"} => p \notin nodeClosed'
      BY <1>2, <1>3, <1>4 DEF IInv, Kinds, Closed
    <2>2. ASSUME NEW t \in Tunnels, HasOwner(t)'
          PROVE  /\ opened[publicTunnelOwners'[t].streamId] = "owner"
                 /\ publicTunnelOwners'[t].streamId \notin gwClosed'
                 /\ conn # "closed"
      BY <1>1, <1>4, <2>2 DEF IInv, Kinds, HasOwner
    <2>3. conn = "closed" => rawStreams = {} /\ dataPlaneStreams = {}
      BY DEF IInv, Kinds
    <2> QED
      BY <2>1, <2>2, <2>3 DEF Kinds
  <1>7. ActiveStreamsExact'
    BY <1>3, <1>4 DEF IInv, TypeOK, ActiveStreamsExact, CleanupPublicTunnelStream
  <1> QED
    BY <1>5, <1>6, <1>7 DEF StreamsInv

\* The owner closes: every stream that goes with it is closed for good.
LEMMA OwnerClosedKeepsStreams ==
  ASSUME IInv, NEW o \in Streams, NEW t \in Tunnels, OwnerClosed(o, t)
  PROVE  StreamsInv'
  <1> USE StreamsAssumption
  <1> DEFINE linked == {s \in Streams : publicTunnelOwners[t].serverToOwner[s] # 0}
  <1>1. /\ \A u \in Tunnels \ {t} : publicTunnelOwners'[u] = publicTunnelOwners[u]
        /\ publicTunnelOwners'[t].streamId = None
        /\ \A p \in Streams : publicTunnelStreams'[p] =
             IF p \in linked THEN NoLink ELSE publicTunnelStreams[p]
        /\ UNCHANGED <<conn, rawStreams, socket, dataPlaneStreams, session, opened>>
        /\ gwClosed' = gwClosed \cup {o}
        /\ activeStreams' = activeStreams \ (linked \cup {o})
    BY NoOwnerType DEF OwnerClosed, Closing, Receiving, IInv, TypeOK
  <1>2. nodeClosed \subseteq nodeClosed' /\ nodeClosed' \subseteq nodeClosed \cup linked
    BY DEF OwnerClosed, Send, Close, Message
  <1>3. publicTunnelOwners[t].streamId = o /\ opened[o] = "owner"
    BY DEF OwnerClosed, IInv, Kinds, HasOwner
  <1>4. \A p \in linked : p \in Streams /\ IsPublic(p) /\ opened[p] = "public"
    BY RecordEntry DEF IsPublic, IInv, Kinds
  <1> HIDE DEF linked
  <1>5. \A p \in Streams : IsPublic(p)' <=> IsPublic(p) /\ p \notin linked
    BY <1>1 DEF IsPublic, NoLink
  <1>6. \A u \in Tunnels : HasOwner(u)' <=> HasOwner(u) /\ u # t
    BY <1>1 DEF HasOwner
  <1>7. NoLeak'
    BY <1>1 DEF IInv, NoLeak
  <1>8. Kinds'
    <2>1. ASSUME NEW p \in Streams
          PROVE  /\ IsPublic(p)' => /\ opened[p] = "public" /\ p \notin Closed'
                                    /\ conn # "closed"
                                    /\ publicTunnelStreams'[p].ownerStreamId \in OwnerIds
                 /\ p \in rawStreams => opened[p] = "raw" /\ p \notin Closed'
                 /\ p \in dataPlaneStreams => opened[p] = "data" /\ p \notin Closed'
                 /\ session[p] \in {"running", "failed"} => opened[p] = "data" /\ p \notin nodeClosed'
                 /\ socket[p] # "none" => opened[p] = "raw"
                 /\ p \in Closed' => opened[p] # "unopened"
                 /\ opened[p] \in {"session", "owner"} => p \notin nodeClosed'
      BY <1>1, <1>2, <1>3, <1>4, <1>5 DEF IInv, Kinds, Closed
    <2>2. ASSUME NEW u \in Tunnels, HasOwner(u)'
          PROVE  /\ opened[publicTunnelOwners'[u].streamId] = "owner"
                 /\ publicTunnelOwners'[u].streamId \notin gwClosed'
                 /\ conn # "closed"
      BY <1>1, <1>3, <1>6, <2>2 DEF IInv, Kinds, OwnersDistinct
    <2>3. conn = "closed" => rawStreams = {} /\ dataPlaneStreams = {}
      BY DEF IInv, Kinds
    <2> QED
      BY <1>1, <2>1, <2>2, <2>3 DEF Kinds
  <1>9. ActiveStreamsExact'
    <2>1. \A p \in linked \cup {o} : p \notin rawStreams /\ p \notin dataPlaneStreams
      BY <1>3, <1>4 DEF IInv, Kinds
    <2>2. ~IsPublic(o)
      BY <1>3 DEF IInv, Kinds
    <2> QED
      BY <1>1, <1>3, <1>4, <1>5, <2>1, <2>2 DEF IInv, TypeOK, ActiveStreamsExact
  <1> QED
    BY <1>7, <1>8, <1>9 DEF StreamsInv

\* Every step keeps the streams, sockets and sessions accounted for: one case per action.
LEMMA StreamsStep == IInv /\ [Next]_vars => StreamsInv'
  <1> USE StreamsAssumption
  <1> SUFFICES ASSUME IInv, [Next]_vars PROVE StreamsInv'
    OBVIOUS
  <1>1. ASSUME NEW s \in Streams, OpenSession(s) PROVE StreamsInv'
    <2>1. NoLeak'
      BY <1>1 DEF OpenSession, Opening, NoLeak, IInv, TypeOK, OwnerRecord, Closed, IsPublic,
         HasOwner, IsOwner, NoOwner, NoLink, Send, Close, Data, Error, Message
    <2>2. Kinds'
      BY <1>1 DEF OpenSession, Opening, IInv, TypeOK, OwnerRecord, Kinds, Closed, IsPublic,
         HasOwner, IsOwner, NoOwner, NoLink, Send, Close, Data, Error, Message
    <2>3. ActiveStreamsExact'
      BY <1>1 DEF OpenSession, Opening, ActiveStreamsExact, IInv, TypeOK, OwnerRecord, Kinds,
         Closed, IsPublic, HasOwner, IsOwner, NoOwner, NoLink, Send, Close, Data, Error, Message
    <2> QED
      BY <2>1, <2>2, <2>3 DEF StreamsInv
  <1>2. ASSUME NEW s \in Streams, OpenDataPlane(s) PROVE StreamsInv'
    <2>1. NoLeak'
      BY <1>2 DEF OpenDataPlane, Opening, NoLeak, IInv, TypeOK, OwnerRecord, Closed, IsPublic,
         HasOwner, IsOwner, NoOwner, NoLink, Send, Close, Data, Error, Message
    <2>2. Kinds'
      BY <1>2 DEF OpenDataPlane, Opening, IInv, TypeOK, OwnerRecord, Kinds, Closed, IsPublic,
         HasOwner, IsOwner, NoOwner, NoLink, Send, Close, Data, Error, Message
    <2>3. ActiveStreamsExact'
      BY <1>2 DEF OpenDataPlane, Opening, ActiveStreamsExact, IInv, TypeOK, OwnerRecord, Kinds,
         Closed, IsPublic, HasOwner, IsOwner, NoOwner, NoLink, Send, Close, Data, Error, Message
    <2> QED
      BY <2>1, <2>2, <2>3 DEF StreamsInv
  <1>3. ASSUME NEW s \in Streams, OpenUnsupported(s) PROVE StreamsInv'
    <2>1. NoLeak'
      BY <1>3 DEF OpenUnsupported, Opening, NoLeak, IInv, TypeOK, OwnerRecord, Closed,
                  IsPublic,
         HasOwner, IsOwner, NoOwner, NoLink, Send, Close, Data, Error, Message
    <2>2. Kinds'
      BY <1>3 DEF OpenUnsupported, Opening, IInv, TypeOK, OwnerRecord, Kinds, Closed, IsPublic,
         HasOwner, IsOwner, NoOwner, NoLink, Send, Close, Data, Error, Message
    <2>3. ActiveStreamsExact'
      BY <1>3 DEF OpenUnsupported, Opening, ActiveStreamsExact, IInv, TypeOK, OwnerRecord,
                  Kinds,
         Closed, IsPublic, HasOwner, IsOwner, NoOwner, NoLink, Send, Close, Data, Error, Message
    <2> QED
      BY <2>1, <2>2, <2>3 DEF StreamsInv
  <1>4. ASSUME NEW s \in Streams, OpenRaw(s) PROVE StreamsInv'
    <2>1. NoLeak'
      BY <1>4 DEF OpenRaw, Opening, NoLeak, IInv, TypeOK, OwnerRecord, Closed, IsPublic,
                  HasOwner,
         IsOwner, NoOwner, NoLink, Send, Close, Data, Error, Message
    <2>2. Kinds'
      BY <1>4 DEF OpenRaw, Opening, IInv, TypeOK, OwnerRecord, Kinds, Closed, IsPublic,
                  HasOwner,
         IsOwner, NoOwner, NoLink, Send, Close, Data, Error, Message
    <2>3. ActiveStreamsExact'
      BY <1>4 DEF OpenRaw, Opening, ActiveStreamsExact, IInv, TypeOK, OwnerRecord, Kinds,
                  Closed,
         IsPublic, HasOwner, IsOwner, NoOwner, NoLink, Send, Close, Data, Error, Message
    <2> QED
      BY <2>1, <2>2, <2>3 DEF StreamsInv
  <1>5. ASSUME NEW s \in Streams, NEW t \in Tunnels, OpenOwner(s, t) PROVE StreamsInv'
    <2>1. NoLeak'
      BY <1>5 DEF OpenOwner, Opening, NoLeak, IInv, TypeOK, OwnerRecord, Closed, IsPublic,
         HasOwner, IsOwner, NoOwner, NoLink, Send, Close, Data, Error, Message
    <2>2. Kinds'
      BY <1>5 DEF OpenOwner, Opening, IInv, TypeOK, OwnerRecord, Kinds, Closed, IsPublic,
                  HasOwner,
         IsOwner, NoOwner, NoLink, Send, Close, Data, Error, Message
    <2>3. ActiveStreamsExact'
      BY <1>5 DEF OpenOwner, Opening, ActiveStreamsExact, IInv, TypeOK, OwnerRecord, Kinds,
                  Closed,
         IsPublic, HasOwner, IsOwner, NoOwner, NoLink, Send, Close, Data, Error, Message
    <2> QED
      BY <2>1, <2>2, <2>3 DEF StreamsInv
  <1>6. ASSUME NEW s \in Streams, NEW t \in Tunnels, OpenPublicRejected(s, t) PROVE StreamsInv'
    <2>1. NoLeak'
      BY <1>6 DEF OpenPublicRejected, Opening, NoLeak, IInv, TypeOK, OwnerRecord, Closed,
                  IsPublic,
         HasOwner, IsOwner, NoOwner, NoLink, Send, Close, Data, Error, Message
    <2>2. Kinds'
      BY <1>6 DEF OpenPublicRejected, Opening, IInv, TypeOK, OwnerRecord, Kinds, Closed,
                  IsPublic,
         HasOwner, IsOwner, NoOwner, NoLink, Send, Close, Data, Error, Message
    <2>3. ActiveStreamsExact'
      BY <1>6 DEF OpenPublicRejected, Opening, ActiveStreamsExact, IInv, TypeOK, OwnerRecord,
         Kinds, Closed, IsPublic, HasOwner, IsOwner, NoOwner, NoLink, Send, Close, Data, Error,
         Message
    <2> QED
      BY <2>1, <2>2, <2>3 DEF StreamsInv
  <1>7. ASSUME NEW s \in Streams, NEW t \in Tunnels, OpenPublic(s, t) PROVE StreamsInv'
    <2>1. NoLeak'
      BY <1>7 DEF OpenPublic, Opening, NoLeak, IInv, TypeOK, OwnerRecord, Closed, IsPublic,
         HasOwner, IsOwner, NoOwner, NoLink, Send, Close, Data, Error, Message
    <2>2. Kinds'
      BY <1>7 DEF OpenPublic, Opening, IInv, TypeOK, OwnerRecord, Kinds, Closed, IsPublic,
         HasOwner, IsOwner, NoOwner, NoLink, Send, Close, Data, Error, Message
    <2>3. ActiveStreamsExact'
      BY <1>7 DEF OpenPublic, Opening, ActiveStreamsExact, IInv, TypeOK, OwnerRecord, Kinds,
         Closed, IsPublic, HasOwner, IsOwner, NoOwner, NoLink, Send, Close, Data, Error, Message
    <2> QED
      BY <2>1, <2>2, <2>3 DEF StreamsInv
  <1>8. ASSUME NEW s \in Streams, PublicData(s) PROVE UNCHANGED streams
    BY <1>8 DEF PublicData, Receiving, connVars, streams, Send, Close, Data, Error, Message
  <1>9. ASSUME NEW s \in Streams, PublicDataOrphaned(s) PROVE StreamsInv'
    <2>1. nodeClosed \subseteq nodeClosed' /\ nodeClosed' \subseteq nodeClosed \cup {s}
      BY <1>9 DEF PublicDataOrphaned, Receiving, Send, Close, Message
    <2> QED
      BY <1>9, <2>1, CleanupKeepsStreams DEF PublicDataOrphaned, Receiving
  <1>10. ASSUME NEW s \in Streams, RawOrDataPlaneData(s) PROVE UNCHANGED streams
    BY <1>10 DEF RawOrDataPlaneData, Receiving, connVars, streams, Send, Close, Data, Error,
       Message
  <1>11. ASSUME NEW s \in Streams, NEW i \in Slots, SessionData(s, i) PROVE UNCHANGED streams
    BY <1>11 DEF SessionData, Receiving, streams, Send, Close, Data, Error, Message
  <1>12. ASSUME NEW s \in Streams, NEW t \in Tunnels, OwnerPing(s, t) PROVE UNCHANGED streams
    BY <1>12 DEF OwnerPing, Receiving, connVars, streams, Send, Close, Data, Error, Message
  <1>13. ASSUME NEW s \in Streams, NEW t \in Tunnels, OwnerFrameDropped(s, t)
        PROVE  UNCHANGED streams
    BY <1>13 DEF OwnerFrameDropped, Receiving, connVars, streams, Send, Close, Data, Error,
                 Message
  <1>14. ASSUME NEW s \in Streams, NEW t \in Tunnels, NEW k \in OwnerIds, OwnerData(s, t, k)
        PROVE  UNCHANGED streams
    BY <1>14 DEF OwnerData, Receiving, connVars, streams, Send, Close, Data, Error, Message
  <1>15. ASSUME NEW s \in Streams, NEW t \in Tunnels, NEW k \in OwnerIds, OwnerEnd(s, t, k)
        PROVE  StreamsInv'
    <2> DEFINE p == publicTunnelOwners[t].ownerToServer[k]
    <2>1. p \in Streams /\ IsPublic(p)
      BY <1>15, EntryIsPublic DEF OwnerEnd
    <2>2. nodeClosed \subseteq nodeClosed' /\ nodeClosed' \subseteq nodeClosed \cup {p}
      BY <1>15 DEF OwnerEnd, Send, Close, Message
    <2> QED
      BY <1>15, <2>1, <2>2, CleanupKeepsStreams DEF OwnerEnd, Receiving
  <1>16. ASSUME NEW s \in Streams, PublicClosed(s) PROVE StreamsInv'
    <2>1. nodeClosed \subseteq nodeClosed' /\ nodeClosed' \subseteq nodeClosed \cup {s}
      BY <1>16 DEF PublicClosed, Closing, Receiving, Send, Close, Message
    <2> QED
      BY <1>16, <2>1, CleanupKeepsStreams DEF PublicClosed, Closing, Receiving
  <1>17. ASSUME NEW s \in Streams, DataPlaneClosed(s) PROVE StreamsInv'
    <2>1. NoLeak'
      BY <1>17 DEF DataPlaneClosed, Closing, Receiving, NoLeak, IInv, TypeOK, OwnerRecord,
                   Closed,
         IsPublic, HasOwner, IsOwner, NoOwner, NoLink, Send, Close, Data, Error, Message
    <2>2. Kinds'
      BY <1>17 DEF DataPlaneClosed, Closing, Receiving, IInv, TypeOK, OwnerRecord, Kinds,
                   Closed,
         IsPublic, HasOwner, IsOwner, NoOwner, NoLink, Send, Close, Data, Error, Message
    <2>3. ActiveStreamsExact'
      BY <1>17 DEF DataPlaneClosed, Closing, Receiving, ActiveStreamsExact, IInv, TypeOK,
         OwnerRecord, Kinds, Closed, IsPublic, HasOwner, IsOwner, NoOwner, NoLink, Send, Close,
         Data, Error, Message
    <2> QED
      BY <2>1, <2>2, <2>3 DEF StreamsInv
  <1>18. ASSUME NEW s \in Streams, RawOrOtherClosed(s) PROVE StreamsInv'
    <2>1. NoLeak'
      BY <1>18 DEF RawOrOtherClosed, Closing, Receiving, NoLeak, IInv, TypeOK, OwnerRecord,
                   Closed,
         IsPublic, HasOwner, IsOwner, NoOwner, NoLink, Send, Close, Data, Error, Message
    <2>2. Kinds'
      BY <1>18 DEF RawOrOtherClosed, Closing, Receiving, IInv, TypeOK, OwnerRecord, Kinds,
                   Closed,
         IsPublic, HasOwner, IsOwner, NoOwner, NoLink, Send, Close, Data, Error, Message
    <2>3. ActiveStreamsExact'
      BY <1>18 DEF RawOrOtherClosed, Closing, Receiving, ActiveStreamsExact, IInv, TypeOK,
         OwnerRecord, Kinds, Closed, IsPublic, HasOwner, IsOwner, NoOwner, NoLink, Send, Close,
         Data, Error, Message
    <2> QED
      BY <2>1, <2>2, <2>3 DEF StreamsInv
  <1>19. ASSUME NEW s \in Streams, NEW t \in Tunnels, OwnerClosed(s, t) PROVE StreamsInv'
    BY <1>19, OwnerClosedKeepsStreams
  <1>20. ASSUME NEW s \in Streams, SocketData(s) PROVE UNCHANGED streams
    BY <1>20 DEF SocketData, connVars, streams, Send, Close, Data, Error, Message
  <1>21. ASSUME NEW s \in Streams, SocketClose(s) PROVE StreamsInv'
    <2>1. NoLeak'
      BY <1>21 DEF SocketClose, NoLeak, IInv, TypeOK, OwnerRecord, Closed, IsPublic, HasOwner,
         IsOwner, NoOwner, NoLink, Send, Close, Data, Error, Message
    <2>2. Kinds'
      BY <1>21 DEF SocketClose, IInv, TypeOK, OwnerRecord, Kinds, Closed, IsPublic, HasOwner,
         IsOwner, NoOwner, NoLink, Send, Close, Data, Error, Message
    <2>3. ActiveStreamsExact'
      BY <1>21 DEF SocketClose, ActiveStreamsExact, IInv, TypeOK, OwnerRecord, Kinds, Closed,
         IsPublic, HasOwner, IsOwner, NoOwner, NoLink, Send, Close, Data, Error, Message
    <2> QED
      BY <2>1, <2>2, <2>3 DEF StreamsInv
  <1>22. ASSUME NEW s \in Streams, SocketError(s) PROVE StreamsInv'
    <2>1. NoLeak'
      BY <1>22 DEF SocketError, NoLeak, IInv, TypeOK, OwnerRecord, Closed, IsPublic, HasOwner,
         IsOwner, NoOwner, NoLink, Send, Close, Data, Error, Message
    <2>2. Kinds'
      BY <1>22 DEF SocketError, IInv, TypeOK, OwnerRecord, Kinds, Closed, IsPublic, HasOwner,
         IsOwner, NoOwner, NoLink, Send, Close, Data, Error, Message
    <2>3. ActiveStreamsExact'
      BY <1>22 DEF SocketError, ActiveStreamsExact, IInv, TypeOK, OwnerRecord, Kinds, Closed,
         IsPublic, HasOwner, IsOwner, NoOwner, NoLink, Send, Close, Data, Error, Message
    <2> QED
      BY <2>1, <2>2, <2>3 DEF StreamsInv
  <1>23. ASSUME NEW s \in Streams, DataPlaneSend(s) PROVE UNCHANGED streams
    BY <1>23 DEF DataPlaneSend, connVars, streams, Send, Close, Data, Error, Message
  <1>24. ASSUME NEW s \in Streams, DataPlaneDone(s) PROVE StreamsInv'
    <2>1. NoLeak'
      BY <1>24 DEF DataPlaneDone, NoLeak, IInv, TypeOK, OwnerRecord, Closed, IsPublic,
                   HasOwner,
         IsOwner, NoOwner, NoLink, Send, Close, Data, Error, Message
    <2>2. Kinds'
      BY <1>24 DEF DataPlaneDone, IInv, TypeOK, OwnerRecord, Kinds, Closed, IsPublic, HasOwner,
         IsOwner, NoOwner, NoLink, Send, Close, Data, Error, Message
    <2>3. ActiveStreamsExact'
      BY <1>24 DEF DataPlaneDone, ActiveStreamsExact, IInv, TypeOK, OwnerRecord, Kinds, Closed,
         IsPublic, HasOwner, IsOwner, NoOwner, NoLink, Send, Close, Data, Error, Message
    <2> QED
      BY <2>1, <2>2, <2>3 DEF StreamsInv
  <1>25. ASSUME NEW i \in Slots, ProxyRequest(i) PROVE UNCHANGED streams
    BY <1>25 DEF ProxyRequest, Calling, streams, Send, Close, Data, Error, Message
  <1>25a. ASSUME NEW i \in Slots, ProxyRequestDropped(i) PROVE UNCHANGED streams
    BY <1>25a DEF ProxyRequestDropped, Calling, streams, Send, Close, Data, Error, Message
  <1>26. ASSUME NEW i \in Slots, EvalRequest(i) PROVE UNCHANGED streams
    BY <1>26 DEF EvalRequest, Calling, streams, Send, Close, Data, Error, Message
  <1>27. ASSUME NEW i \in Slots, CallDone(i) PROVE UNCHANGED streams
    BY <1>27 DEF CallDone, streams, Send, Close, Data, Error, Message
  <1>28. ASSUME EvalNotAllowed PROVE UNCHANGED streams
    BY <1>28 DEF EvalNotAllowed, connVars, streams, Send, Close, Data, Error, Message
  <1>29. ASSUME Heartbeat PROVE UNCHANGED streams
    BY <1>29 DEF Heartbeat, connVars, streams, Send, Close, Data, Error, Message
  <1>30. ASSUME Lose PROVE StreamsInv'
    <2>1. NoLeak'
      BY <1>30 DEF Lose, connVars, history, NoLeak, IInv, TypeOK, OwnerRecord, Closed,
                   IsPublic,
         HasOwner, IsOwner, NoOwner, NoLink, Send, Close, Data, Error, Message
    <2>2. Kinds'
      BY <1>30 DEF Lose, connVars, history, IInv, TypeOK, OwnerRecord, Kinds, Closed, IsPublic,
         HasOwner, IsOwner, NoOwner, NoLink, Send, Close, Data, Error, Message
    <2>3. ActiveStreamsExact'
      BY <1>30 DEF Lose, connVars, history, ActiveStreamsExact, IInv, TypeOK, OwnerRecord,
                   Kinds,
         Closed, IsPublic, HasOwner, IsOwner, NoOwner, NoLink, Send, Close, Data, Error, Message
    <2> QED
      BY <2>1, <2>2, <2>3 DEF StreamsInv
  <1>31. ASSUME OnClose PROVE StreamsInv'
    <2>1. NoLeak'
      BY <1>31 DEF OnClose, history, NoLeak, IInv, TypeOK, OwnerRecord, Closed, IsPublic,
                   HasOwner,
         IsOwner, NoOwner, NoLink, Send, Close, Data, Error, Message
    <2>2. Kinds'
      BY <1>31 DEF OnClose, history, IInv, TypeOK, OwnerRecord, Kinds, Closed, IsPublic,
                   HasOwner,
         IsOwner, NoOwner, NoLink, Send, Close, Data, Error, Message
    <2>3. ActiveStreamsExact'
      BY <1>31 DEF OnClose, history, ActiveStreamsExact, IInv, TypeOK, OwnerRecord, Kinds,
                   Closed,
         IsPublic, HasOwner, IsOwner, NoOwner, NoLink, Send, Close, Data, Error, Message
    <2> QED
      BY <2>1, <2>2, <2>3 DEF StreamsInv
  <1>32. ASSUME UNCHANGED vars PROVE UNCHANGED streams
    BY <1>32 DEF vars, connVars, history, streams
  <1>33. ASSUME UNCHANGED streams PROVE StreamsInv'
    BY <1>33 DEF IInv, StreamsInv, streams, NoLeak, Kinds, Closed, ActiveStreamsExact,
                 HasOwner,
       IsPublic
  <1> QED
    BY <1>1, <1>2, <1>3, <1>4, <1>5, <1>6, <1>7, <1>8, <1>9, <1>10, <1>11, <1>12, <1>13, <1>14,
       <1>15, <1>16, <1>17, <1>18, <1>19, <1>20, <1>21, <1>22, <1>23, <1>24, <1>25, <1>26, <1>27,
       <1>25a, <1>28, <1>29, <1>30, <1>31, <1>32, <1>33 DEF Next, StreamOpen, StreamData, StreamClose,
       LocalEvent

\* The inductive invariant, and with it the properties that follow from it.
THEOREM Invariant == Spec => []IInv
  <1>1. Init => IInv
    <2> SUFFICES ASSUME Init PROVE IInv
      OBVIOUS
    <2> USE StreamsAssumption DEF Init
    <2>1. TypeOK
      BY MaxIdsAssumption, NoOwnerType DEF TypeOK, NoLink, Targets
    <2>2. NoLeak /\ ActiveStreamsExact
      BY DEF NoLeak, ActiveStreamsExact, IsPublic, NoLink
    <2>3. Kinds
      BY DEF Kinds, Closed, IsPublic, HasOwner, NoOwner, NoLink
    <2>4. OwnersDistinct /\ RecordsBacked /\ LinksBacked
      BY DEF OwnersDistinct, RecordsBacked, LinksBacked, IsPublic, HasOwner, NoOwner, NoLink
    <2> QED
      BY <2>1, <2>2, <2>3, <2>4 DEF IInv
  <1>2. IInv /\ [Next]_vars => IInv'
    BY TypeStep, RoutingStep, StreamsStep DEF IInv, Routing, StreamsInv
  <1> QED
    BY <1>1, <1>2, PTL DEF Spec

\* In every reachable state activeStreams, which a heartbeat reports, is exactly the
\* set of streams the node serves.
THEOREM ActiveStreamsCorrect == Spec => []ActiveStreamsExact
  BY Invariant, PTL DEF IInv

\* In every reachable state the open sockets and the running sessions are exactly the
\* ones the maps name, so a close reaches each of them.
THEOREM NothingLeaks == Spec => []NoLeak
  BY Invariant, PTL DEF IInv

\* In every reachable state the three maps that route a public tunnel agree, unless
\* its owner was replaced under its streams.
THEOREM RoutingCorrect == Spec => []RoutingInStep
  <1>1. IInv => RoutingInStep
    <2> SUFFICES ASSUME IInv, NEW t \in Tunnels \ replaced
                 PROVE  /\ \A s \in Streams : publicTunnelOwners[t].serverToOwner[s] =
                             IF s \in Linked(t) THEN publicTunnelStreams[s].ownerStreamId ELSE 0
                        /\ \A s \in Linked(t) :
                             /\ HasOwner(t)
                             /\ publicTunnelOwners[t].ownerToServer[
                                  publicTunnelStreams[s].ownerStreamId] = s
                        /\ \A k \in OwnerIds : publicTunnelOwners[t].ownerToServer[k] # None =>
                             publicTunnelOwners[t].ownerToServer[k] \in Linked(t)
      BY DEF RoutingInStep
    <2>1. \A s \in Linked(t) :
            /\ s \in Streams /\ HasOwner(t)
            /\ publicTunnelOwners[t].serverToOwner[s] = publicTunnelStreams[s].ownerStreamId
            /\ publicTunnelOwners[t].ownerToServer[publicTunnelStreams[s].ownerStreamId] = s
      BY StreamsAssumption DEF Linked, IInv, LinksBacked, IsPublic
    <2>2. ASSUME NEW s \in Streams, s \notin Linked(t)
          PROVE  publicTunnelOwners[t].serverToOwner[s] = 0
      BY <2>2, RecordEntry DEF Linked
    <2>3. ASSUME NEW k \in OwnerIds, publicTunnelOwners[t].ownerToServer[k] # None
          PROVE  publicTunnelOwners[t].ownerToServer[k] \in Linked(t)
      <3> DEFINE s == publicTunnelOwners[t].ownerToServer[k]
      <3>1. s \in Streams /\ publicTunnelStreams[s].tunnelId = t
        BY <2>3, RecordEntry, Zenon
      <3> QED
        BY <3>1 DEF Linked
    <2> QED
      BY <2>1, <2>2, <2>3
  <1> QED
    BY <1>1, Invariant, PTL

-----------------------------------------------------------------------------
(***************************************************************************)
(* What a step may send.                                                   *)
(***************************************************************************)
SentWell == SentToRightPeer /\ ClosesOnlyOpen /\ LateDataAnswers

\* A message that forwards no payload, closes nothing and is no stream data.
Harmless == out' \subseteq {m \in [type : MessageTypes, stream : Streams \cup {None},
                                   id : Nat, peer : Streams \cup {None}] :
                              m.type \in {"ERROR", "REPLY", "HEARTBEAT", "OPEN", "PONG"}}

\* A step that sends nothing of concern satisfies the action properties.
LEMMA HarmlessSentWell == Harmless => SentWell
  BY DEF Harmless, SentWell, SentToRightPeer, ClosesOnlyOpen, LateDataAnswers, Close, Message

\* A link that its tunnel's record still backs was granted.
LEMMA LinkGranted ==
  ASSUME IInv, NEW s \in Streams, IsPublic(s), publicTunnelStreams[s].tunnelId \notin replaced
  PROVE  <<publicTunnelOwners[publicTunnelStreams[s].tunnelId].streamId,
           publicTunnelStreams[s].ownerStreamId, s>> \in granted
  <1> DEFINE l == publicTunnelStreams[s]
  <1>1. l.tunnelId \in Tunnels /\ l.ownerStreamId \in OwnerIds
    BY DEF IsPublic, IInv, TypeOK, Kinds
  <1>2. publicTunnelOwners[l.tunnelId].ownerToServer[l.ownerStreamId] = s /\ s # None
    BY StreamsAssumption DEF IInv, LinksBacked
  <1>3. <<publicTunnelOwners[l.tunnelId].streamId, l.ownerStreamId,
          publicTunnelOwners[l.tunnelId].ownerToServer[l.ownerStreamId]>> \in granted
    <2>1. publicTunnelOwners[l.tunnelId].ownerToServer[l.ownerStreamId] # None
      BY <1>2
    <2> QED
      BY <1>1, <2>1, RecordEntry, Zenon
  <1> QED
    BY <1>2, <1>3

\* A STREAM_CLOSE, or nothing, on a stream that neither side has closed.
LEMMA CloseSentWell ==
  ASSUME NEW S \in SUBSET Streams, out' \subseteq {Close(s) : s \in S} \cup {Error},
         S \cap Closed = {}
  PROVE  SentWell
  BY DEF SentWell, SentToRightPeer, ClosesOnlyOpen, LateDataAnswers, Close, Error, Message,
         Closed

\* Every step sends what it may: one case per action.
LEMMA StepSendsWell == IInv /\ Next => SentWell
  <1> SUFFICES ASSUME IInv, Next PROVE SentWell
    OBVIOUS
  <1>1. ASSUME NEW s \in Streams, OpenSession(s) PROVE Harmless
    BY <1>1 DEF OpenSession, Harmless, Send, Error, Message, MessageTypes
  <1>2. ASSUME NEW s \in Streams, OpenDataPlane(s) PROVE Harmless
    BY <1>2 DEF OpenDataPlane, Harmless, Send, Error, Message, MessageTypes
  <1>3. ASSUME NEW s \in Streams, OpenUnsupported(s) PROVE Harmless
    BY <1>3 DEF OpenUnsupported, Harmless, Send, Error, Message, MessageTypes
  <1>4. ASSUME NEW s \in Streams, OpenRaw(s) PROVE Harmless
    BY <1>4 DEF OpenRaw, Harmless, Send, Error, Message, MessageTypes
  <1>5. ASSUME NEW s \in Streams, NEW t \in Tunnels, OpenOwner(s, t) PROVE Harmless
    BY <1>5 DEF OpenOwner, Harmless, Send, Error, Message, MessageTypes
  <1>6. ASSUME NEW s \in Streams, NEW t \in Tunnels, OpenPublicRejected(s, t) PROVE SentWell
    <2> DEFINE S == {s}
    <2>1. S \cap Closed = {}
      BY <1>6 DEF OpenPublicRejected, Opening, IInv, Kinds
    <2>2. out' \subseteq {Close(p) : p \in S} \cup {Error}
      BY <1>6 DEF OpenPublicRejected, Send
    <2> QED
      BY <2>1, <2>2, CloseSentWell
  <1>7. ASSUME NEW s \in Streams, NEW t \in Tunnels, OpenPublic(s, t) PROVE Harmless
    BY <1>7, MaxIdsAssumption DEF OpenPublic, Harmless, Send, Error, Message, MessageTypes,
                                  IInv,
       TypeOK, OwnerRecord, OwnerIds
  <1>8. ASSUME NEW s \in Streams, PublicData(s) PROVE SentWell
    <2> DEFINE l == publicTunnelStreams[s]
    <2>1. out' \subseteq {Message("DATA", publicTunnelOwners[l.tunnelId].streamId, l.ownerStreamId, s)}
      BY <1>8 DEF PublicData, Send
    <2>2. \/ <<publicTunnelOwners[l.tunnelId].streamId, l.ownerStreamId, s>> \in granted
          \/ l.tunnelId \in replaced
      BY <1>8, LinkGranted DEF PublicData
    <2> QED
      BY <2>1, <2>2 DEF SentWell, SentToRightPeer, ClosesOnlyOpen, LateDataAnswers, Message,
                        Close
  <1>9. ASSUME NEW s \in Streams, PublicDataOrphaned(s) PROVE SentWell
    <2> DEFINE S == {s}
    <2>1. S \cap Closed = {}
      BY <1>9 DEF PublicDataOrphaned, Receiving, IInv, Kinds
    <2>2. out' \subseteq {Close(p) : p \in S} \cup {Error}
      BY <1>9 DEF PublicDataOrphaned, Send
    <2> QED
      BY <2>1, <2>2, CloseSentWell
  <1>10. ASSUME NEW s \in Streams, RawOrDataPlaneData(s) PROVE Harmless
    BY <1>10 DEF RawOrDataPlaneData, Harmless, Send, Error, Message, MessageTypes
  <1>11. ASSUME NEW s \in Streams, NEW i \in Slots, SessionData(s, i) PROVE Harmless
    BY <1>11 DEF SessionData, Harmless, Send, Error, Message, MessageTypes
  <1>12. ASSUME NEW s \in Streams, NEW t \in Tunnels, OwnerPing(s, t) PROVE Harmless
    BY <1>12 DEF OwnerPing, Harmless, Send, Error, Message, MessageTypes
  <1>13. ASSUME NEW s \in Streams, NEW t \in Tunnels, OwnerFrameDropped(s, t) PROVE Harmless
    BY <1>13 DEF OwnerFrameDropped, Harmless, Send, Error, Message, MessageTypes
  <1>14. ASSUME NEW s \in Streams, NEW t \in Tunnels, NEW k \in OwnerIds, OwnerData(s, t, k)
        PROVE  SentWell
    <2> DEFINE p == publicTunnelOwners[t].ownerToServer[k]
    <2>1. out' \subseteq {Message("STREAM_DATA", p, k, s)}
      BY <1>14 DEF OwnerData, Send
    <2>2. p \in Streams /\ p \notin Closed
      BY <1>14, EntryIsPublic DEF OwnerData, IInv, Kinds
    <2>3. <<s, k, p>> \in granted
      BY <1>14, RecordEntry, Zenon DEF OwnerData
    <2> QED
      BY <2>1, <2>2, <2>3 DEF SentWell, SentToRightPeer, ClosesOnlyOpen, LateDataAnswers,
                              Message, Close, Closed
  <1>15. ASSUME NEW s \in Streams, NEW t \in Tunnels, NEW k \in OwnerIds, OwnerEnd(s, t, k)
        PROVE  SentWell
    <2> DEFINE p == publicTunnelOwners[t].ownerToServer[k]
    <2> DEFINE S == {p}
    <2>1. p \in Streams /\ S \cap Closed = {}
      BY <1>15, EntryIsPublic DEF OwnerEnd, IInv, Kinds
    <2>2. out' \subseteq {Close(q) : q \in S} \cup {Error}
      BY <1>15 DEF OwnerEnd, Send
    <2> QED
      BY <2>1, <2>2, CloseSentWell
  <1>16. ASSUME NEW s \in Streams, PublicClosed(s) PROVE SentWell
    <2> DEFINE l == publicTunnelStreams[s]
    <2>1. out' \subseteq {Message("RESET", publicTunnelOwners[l.tunnelId].streamId, l.ownerStreamId, s)}
      BY <1>16 DEF PublicClosed, Send
    <2>2. \/ <<publicTunnelOwners[l.tunnelId].streamId, l.ownerStreamId, s>> \in granted
          \/ l.tunnelId \in replaced
      BY <1>16, LinkGranted DEF PublicClosed
    <2> QED
      BY <2>1, <2>2 DEF SentWell, SentToRightPeer, ClosesOnlyOpen, LateDataAnswers, Message,
                        Close
  <1>17. ASSUME NEW s \in Streams, DataPlaneClosed(s) PROVE Harmless
    BY <1>17 DEF DataPlaneClosed, Harmless, Send, Error, Message, MessageTypes
  <1>18. ASSUME NEW s \in Streams, RawOrOtherClosed(s) PROVE Harmless
    BY <1>18 DEF RawOrOtherClosed, Harmless, Send, Error, Message, MessageTypes
  <1>19. ASSUME NEW s \in Streams, NEW t \in Tunnels, OwnerClosed(s, t) PROVE SentWell
    <2> DEFINE linked == {p \in Streams : publicTunnelOwners[t].serverToOwner[p] # 0}
    <2>1. linked \cap Closed = {}
      BY RecordEntry, StreamsAssumption DEF IsPublic, IInv, Kinds
    <2>2. out' \subseteq {Close(p) : p \in linked} \cup {Error}
      BY <1>19 DEF OwnerClosed, Send
    <2> QED
      BY <2>1, <2>2, CloseSentWell
  <1>20. ASSUME NEW s \in Streams, SocketData(s) PROVE SentWell
    <2>1. s \notin nodeClosed
      BY <1>20 DEF SocketData, IInv, NoLeak, Kinds, Closed
    <2> QED
      BY <1>20, <2>1 DEF SocketData, Send, Data, Message, Close, SentWell, SentToRightPeer,
         ClosesOnlyOpen, LateDataAnswers
  <1>21. ASSUME NEW s \in Streams, SocketClose(s) PROVE SentWell
    <2> DEFINE S == {p \in {s} : p \in rawStreams}
    <2>1. S \cap Closed = {}
      BY DEF IInv, Kinds
    <2>2. out' \subseteq {Close(p) : p \in S} \cup {Error}
      BY <1>21 DEF SocketClose, Send, IInv, NoLeak
    <2> QED
      BY <2>1, <2>2, CloseSentWell
  <1>22. ASSUME NEW s \in Streams, SocketError(s) PROVE SentWell
    <2> DEFINE S == {p \in {s} : p \in rawStreams}
    <2>1. S \cap Closed = {}
      BY DEF IInv, Kinds
    <2>2. out' \subseteq {Close(p) : p \in S} \cup {Error}
      BY <1>22 DEF SocketError, Send, IInv, NoLeak
    <2> QED
      BY <2>1, <2>2, CloseSentWell
  <1>23. ASSUME NEW s \in Streams, DataPlaneSend(s) PROVE SentWell
    <2>1. s \notin nodeClosed
      BY <1>23 DEF DataPlaneSend, IInv, NoLeak, Kinds, Closed
    <2> QED
      BY <1>23, <2>1 DEF DataPlaneSend, Send, Data, Message, Close, SentWell, SentToRightPeer,
         ClosesOnlyOpen, LateDataAnswers
  <1>24. ASSUME NEW s \in Streams, DataPlaneDone(s) PROVE SentWell
    <2> DEFINE S == {p \in {s} : p \in dataPlaneStreams}
    <2>1. S \cap Closed = {}
      BY DEF IInv, Kinds
    <2>2. out' \subseteq {Close(p) : p \in S} \cup {Error}
      BY <1>24 DEF DataPlaneDone, Send, IInv, NoLeak
    <2> QED
      BY <2>1, <2>2, CloseSentWell
  <1>25. ASSUME NEW i \in Slots, ProxyRequest(i) PROVE Harmless
    BY <1>25 DEF ProxyRequest, Calling, Harmless, Send, Error, Message, MessageTypes
  <1>25a. ASSUME NEW i \in Slots, ProxyRequestDropped(i) PROVE Harmless
    BY <1>25a DEF ProxyRequestDropped, Calling, Harmless, Send, Error, Message, MessageTypes
  <1>26. ASSUME NEW i \in Slots, EvalRequest(i) PROVE Harmless
    BY <1>26 DEF EvalRequest, Calling, Harmless, Send, Error, Message, MessageTypes
  <1>27. ASSUME NEW i \in Slots, CallDone(i) PROVE SentWell
    <2> DEFINE reply == Message("REPLY", None, 0, None)
    <2>1. out' \subseteq {Error, reply} \/ (calls[i] \in Streams /\ out' \subseteq {Data(calls[i])})
      BY <1>27 DEF CallDone, Send
    <2>2. calls'[i] = "idle"
      BY <1>27 DEF CallDone, IInv, TypeOK
    <2>3. CASE out' \subseteq {Error, reply}
      BY <2>3 DEF Error, Message, Close, SentWell, SentToRightPeer, ClosesOnlyOpen,
                  LateDataAnswers
    <2>4. CASE calls[i] \in Streams /\ out' \subseteq {Data(calls[i])}
      BY <2>2, <2>4 DEF Data, Message, Close, SentWell, SentToRightPeer, ClosesOnlyOpen,
                        LateDataAnswers
    <2> QED  BY <2>1, <2>3, <2>4
  <1>28. ASSUME EvalNotAllowed PROVE Harmless
    BY <1>28 DEF EvalNotAllowed, Harmless, Send, Error, Message, MessageTypes
  <1>29. ASSUME Heartbeat PROVE Harmless
    BY <1>29 DEF Heartbeat, Harmless, Send, Error, Message, MessageTypes
  <1>30. ASSUME Lose PROVE Harmless
    BY <1>30 DEF Lose, Harmless
  <1>31. ASSUME OnClose PROVE Harmless
    BY <1>31 DEF OnClose, Harmless
  <1> QED
    BY <1>1, <1>2, <1>3, <1>4, <1>5, <1>6, <1>7, <1>8, <1>9, <1>10, <1>11, <1>12, <1>13, <1>14,
       <1>15, <1>16, <1>17, <1>18, <1>19, <1>20, <1>21, <1>22, <1>23, <1>24, <1>25, <1>26, <1>27,
       <1>25a, <1>28, <1>29, <1>30, <1>31, HarmlessSentWell DEF Next, StreamOpen, StreamData, StreamClose,
       LocalEvent

\* No step of a public tunnel sends a payload to the wrong owner, visitor or id.
THEOREM PayloadsReachTheirPeer == Spec => RightPeer
  <1>1. IInv /\ [Next]_vars => [SentToRightPeer]_vars
    BY StepSendsWell DEF SentWell
  <1> QED
    BY <1>1, Invariant, PTL DEF Spec, RightPeer

\* No step sends STREAM_CLOSE for a stream that either side has closed before.
THEOREM ClosesOnce == Spec => CloseOnce
  <1>1. IInv /\ [Next]_vars => [ClosesOnlyOpen]_vars
    BY StepSendsWell DEF SentWell
  <1> QED
    BY <1>1, Invariant, PTL DEF Spec, CloseOnce

\* After the node's STREAM_CLOSE only the answer to a crossing request goes out as data.
THEOREM NoStrayData == Spec => DataAfterCloseOnlyAnswers
  <1>1. IInv /\ [Next]_vars => [LateDataAnswers]_vars
    BY StepSendsWell DEF SentWell
  <1> QED
    BY <1>1, Invariant, PTL DEF Spec, DataAfterCloseOnlyAnswers

-----------------------------------------------------------------------------
(***************************************************************************)
(* The request count.                                                      *)
(***************************************************************************)
\* In every reachable state activeRequests, which a heartbeat reports, is the number of
\* proxied requests being served plus the number of requests dropped after they were
\* counted (control-client.ts:184): it is never too low, and too high only by the latter.
THEOREM ActiveRequestsCorrect == Spec => []ActiveRequestsAccounted
  <1> USE TagsAssumption
  <1> DEFINE Counted == Serving \cup Dropped
  <1>1. Init => ActiveRequestsAccounted
    <2> SUFFICES ASSUME Init PROVE Counted = {} /\ activeRequests = 0
      BY FS_EmptySet DEF ActiveRequestsAccounted
    <2> QED
      BY DEF Init, Serving, Dropped
  <1>2. TypeOK /\ ActiveRequestsAccounted /\ [Next]_vars => ActiveRequestsAccounted'
    <2> SUFFICES ASSUME TypeOK, ActiveRequestsAccounted, [Next]_vars PROVE ActiveRequestsAccounted'
      OBVIOUS
    <2>1. IsFiniteSet(Counted)
      BY SlotsAssumption, FS_Subset DEF Serving, Dropped
    <2>2. ASSUME NEW i \in Slots, calls[i] = "idle", NEW c, c \notin {"idle", "eval"},
                 calls' = [calls EXCEPT ![i] = c], activeRequests' = activeRequests + 1
          PROVE  ActiveRequestsAccounted'
      <3>1. Counted' = Counted \cup {i} /\ i \notin Counted
        BY <2>2 DEF Serving, Dropped, TypeOK
      <3> QED
        BY <2>1, <2>2, <3>1, FS_AddElement DEF ActiveRequestsAccounted
    <2>3. ASSUME NEW s \in Streams, NEW i \in Slots, SessionData(s, i)
          PROVE  ActiveRequestsAccounted'
      BY <2>2, <2>3 DEF SessionData
    <2>4. ASSUME NEW i \in Slots, ProxyRequest(i) PROVE ActiveRequestsAccounted'
      BY <2>2, <2>4 DEF ProxyRequest, Calling
    <2>4a. ASSUME NEW i \in Slots, ProxyRequestDropped(i) PROVE ActiveRequestsAccounted'
      BY <2>2, <2>4a DEF ProxyRequestDropped, Calling
    <2>5. ASSUME NEW i \in Slots, EvalRequest(i) PROVE ActiveRequestsAccounted'
      <3>1. Counted' = Counted
        BY <2>5 DEF EvalRequest, Calling, Serving, Dropped, TypeOK
      <3> QED
        BY <2>5, <3>1 DEF EvalRequest, ActiveRequestsAccounted
    <2>6. ASSUME NEW i \in Slots, CallDone(i) PROVE ActiveRequestsAccounted'
      <3>1. CASE calls[i] = "eval"
        <4>1. Counted' = Counted
          BY <2>6, <3>1 DEF CallDone, Serving, Dropped, TypeOK
        <4> QED
          BY <2>6, <3>1, <4>1 DEF CallDone, ActiveRequestsAccounted
      <3>2. CASE calls[i] # "eval"
        <4>1. Counted' = Counted \ {i} /\ i \in Counted
          BY <2>6, <3>2 DEF CallDone, Serving, Dropped, TypeOK
        <4>2. Cardinality(Counted) \in Nat /\ Cardinality(Counted') = Cardinality(Counted) - 1
          BY <2>1, <4>1, FS_RemoveElement, FS_CardinalityType
        <4>3. Cardinality(Counted) # 0
          BY <2>1, <4>1, FS_EmptySet
        <4> QED
          BY <2>6, <3>2, <4>2, <4>3 DEF CallDone, Decrement, ActiveRequestsAccounted
      <3> QED
        BY <3>1, <3>2
    <2>7. ASSUME UNCHANGED <<calls, activeRequests>> PROVE ActiveRequestsAccounted'
      BY <2>7 DEF ActiveRequestsAccounted, Serving, Dropped
    <2>8. ASSUME NEW s \in Streams, StreamOpen(s) PROVE UNCHANGED <<calls, activeRequests>>
      BY <2>8 DEF StreamOpen, Opening, OpenSession, OpenDataPlane, OpenUnsupported, OpenRaw,
         OpenOwner, OpenPublicRejected, OpenPublic
    <2>9. ASSUME NEW s \in Streams, StreamData(s), ~\E i \in Slots : SessionData(s, i)
          PROVE  UNCHANGED <<calls, activeRequests>>
      BY <2>9 DEF StreamData, PublicData, PublicDataOrphaned, RawOrDataPlaneData, OwnerPing,
         OwnerFrameDropped, OwnerData, OwnerEnd, connVars
    <2>10. ASSUME NEW s \in Streams, StreamClose(s) PROVE UNCHANGED <<calls, activeRequests>>
      BY <2>10 DEF StreamClose, Closing, PublicClosed, DataPlaneClosed, RawOrOtherClosed,
                   OwnerClosed
    <2>11. ASSUME NEW s \in Streams, LocalEvent(s) PROVE UNCHANGED <<calls, activeRequests>>
      BY <2>11 DEF LocalEvent, SocketData, SocketClose, SocketError, DataPlaneSend,
                   DataPlaneDone,
         connVars
    <2>12. ASSUME EvalNotAllowed \/ Heartbeat \/ Lose \/ OnClose \/ UNCHANGED vars
           PROVE  UNCHANGED <<calls, activeRequests>>
      BY <2>12 DEF EvalNotAllowed, Heartbeat, Lose, OnClose, vars, connVars
    <2> QED
      BY <2>3, <2>4, <2>4a, <2>5, <2>6, <2>7, <2>8, <2>9, <2>10, <2>11, <2>12 DEF Next
  <1> QED
    BY <1>1, <1>2, TypeCorrect, PTL DEF Spec
=============================================================================
