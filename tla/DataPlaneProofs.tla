-------------------------- MODULE DataPlaneProofs ---------------------------
(***************************************************************************)
(* Proofs about DataPlane and the serving of requests it is composed with, *)
(* for any number of streams, hosts, tickets and cache entries.            *)
(***************************************************************************)
EXTENDS DataPlane, SequenceTheorems, TLAPS

\* A response that may be given to r.
Fits(a, r) == ProfileCacheKey(a.of) = ProfileCacheKey(r) /\ a.from = "public" /\ (a.cached => a.ok)

\* What the profile cache may hold: a good answer under the key of the request it answers.
Storable == {a \in Answers : a.ok /\ a.from = "public" /\ ~a.cached}
CacheKeys == {ProfileCacheKey(r) : r \in Requests}
Entries == {e \in [key : CacheKeys, value : Storable, fresh : BOOLEAN] : e.key = ProfileCacheKey(e.value.of)}

Call == [at : {"idle", "lookup", "fetch", "done"}, req : Requests \cup {None},
         ip : Addresses \cup {None}, answer : Answers \cup {Error, None}]

\* What a call has is enough for where it waits.
CallFits(k) ==
  /\ k.at # "idle" => k.req \in Requests
  /\ k.at = "fetch" => k.ip = "public"
  /\ k.at = "done" => k.answer \in Answers \cup {Error} /\ (k.answer \in Answers => Fits(k.answer, k.req))

ServeInv ==
  /\ cache \in Seq(Entries) /\ Len(cache) <= MaxCache
  /\ dns \in [Hosts -> [ip : Addresses, fresh : BOOLEAN] \cup {None}]
  /\ call \in [Calls -> Call] /\ \A c \in Calls : CallFits(call[c])
-----------------------------------------------------------------------------
\* An entry holds a good answer under its key.
LEMMA EntryHolds ==
  ASSUME NEW e \in Entries
  PROVE  /\ e.value \in Storable /\ e.key = ProfileCacheKey(e.value.of) /\ e.fresh \in BOOLEAN
         /\ [e EXCEPT !.fresh = FALSE] \in Entries
<1>1. e \in [key : CacheKeys, value : Storable, fresh : BOOLEAN] /\ e.key = ProfileCacheKey(e.value.of)
  BY DEF Entries
<1>2. PICK old : old = [e EXCEPT !.fresh = FALSE] OBVIOUS
<1>3. /\ old \in [key : CacheKeys, value : Storable, fresh : BOOLEAN]
      /\ old.key = e.key /\ old.value = e.value
  BY <1>1, <1>2
<1>4. old \in Entries BY <1>1, <1>3 DEF Entries
<1> QED BY <1>1, <1>2, <1>4

\* The types of the serving follow from its invariant.
LEMMA ServeTypes == ServeInv => ServeTypeOK
<1> SUFFICES ASSUME ServeInv PROVE ServeTypeOK OBVIOUS
<1>1. \A i \in DOMAIN cache : cache[i] \in Entries BY DEF ServeInv
<1>2. \A i \in DOMAIN cache : cache[i].value \in Answers /\ cache[i].fresh \in BOOLEAN
  BY <1>1, EntryHolds DEF Storable
<1> QED BY <1>2 DEF ServeInv, ServeTypeOK, Call

\* Neither an error nor a refusal is an answer.
LEMMA ErrorIsNoAnswer == Error \notin Answers /\ \A c : [code |-> c] \notin Answers \cup {Error}
<1>1. \A a \in Answers : DOMAIN a = {"of", "from", "ok", "cached"} BY DEF Answers
<1>2. DOMAIN Error = {"error"} BY DEF Error
<1>3. \A c : DOMAIN [code |-> c] = {"code"} OBVIOUS
<1> QED BY <1>1, <1>2, <1>3

\* A call that has not begun has nothing that would have to fit.
LEMMA IdleCall == Idle \in Call /\ CallFits(Idle)
BY DEF Idle, Call, CallFits

\* Both caches are empty at the start.
LEMMA ServeInitInv == ServeInit => ServeInv
BY IdleCall, ProxyServeAssumption DEF ServeInit, ServeInv

\* What is deleted leaves the other entries as they are (cachedProfileResult).
LEMMA PurgedKeeps ==
  ASSUME ServeInv, NEW r \in Requests
  PROVE  Purged(r) \in Seq(Entries) /\ Len(Purged(r)) <= MaxCache
<1>1. CASE Cached(r) /\ ~Entry(r).fresh
  <2>1. Place(r) \in DOMAIN cache BY <1>1 DEF Cached, Place
  <2>2. PICK i \in 1..Len(cache) : i = Place(r) BY <2>1 DEF ServeInv
  <2>3. Purged(r) = SubSeq(cache, 1, i - 1) \o SubSeq(cache, i + 1, Len(cache)) BY <1>1, <2>2 DEF Purged
  <2>4. \A j \in 1..Len(cache) : cache[j] \in Entries BY DEF ServeInv
  <2>5. Len(cache) \in Nat BY DEF ServeInv
  <2>6. SubSeq(cache, 1, i - 1) \in Seq(Entries) /\ Len(SubSeq(cache, 1, i - 1)) = i - 1
    BY <2>4, <2>5, SubSeqProperties
  <2>7. SubSeq(cache, i + 1, Len(cache)) \in Seq(Entries) /\ Len(SubSeq(cache, i + 1, Len(cache))) = Len(cache) - i
    BY <2>4, <2>5, SubSeqProperties
  <2>8. PICK before \in Seq(Entries), after \in Seq(Entries) :
          Purged(r) = before \o after /\ Len(before) = i - 1 /\ Len(after) = Len(cache) - i
    BY <2>3, <2>6, <2>7, Zenon
  <2>9. before \o after \in Seq(Entries) /\ Len(before \o after) = Len(before) + Len(after)
    BY ConcatProperties
  <2> QED BY <2>5, <2>8, <2>9, ProxyServeAssumption DEF ServeInv
<1>2. CASE ~(Cached(r) /\ ~Entry(r).fresh) BY <1>2 DEF Purged, ServeInv
<1> QED BY <1>1, <1>2

\* What is stored takes the room of the oldest entry at the limit (storeProfileResult).
LEMMA StoredKeeps ==
  ASSUME ServeInv, NEW r, NEW a \in Storable, a.of = r
  PROVE  Stored(r, a) \in Seq(Entries) /\ Len(Stored(r, a)) <= MaxCache
<1> DEFINE entry == [key |-> ProfileCacheKey(r), value |-> a, fresh |-> TRUE]
           room == IF Len(cache) >= MaxCache THEN Tail(cache) ELSE cache
<1>1. entry \in Entries
  <2>1. ProfileCacheKey(r) \in CacheKeys BY DEF CacheKeys, Storable, Answers
  <2>2. PICK k : k = ProfileCacheKey(r) OBVIOUS
  <2>3. /\ entry \in [key : CacheKeys, value : Storable, fresh : BOOLEAN] /\ entry.key = k
        /\ entry.value.of = r
    BY <2>1, <2>2
  <2>4. entry.key = ProfileCacheKey(entry.value.of) BY <2>2, <2>3
  <2> HIDE DEF entry
  <2> QED BY <2>3, <2>4 DEF Entries
<1>2. room \in Seq(Entries) /\ Len(room) < MaxCache
  BY ProxyServeAssumption DEF ServeInv
<1>3. Stored(r, a) = IF \E i \in DOMAIN room : room[i].key = entry.key
                     THEN [i \in DOMAIN room |-> IF room[i].key = entry.key THEN entry ELSE room[i]]
                     ELSE Append(room, entry)
  BY Zenon DEF Stored
<1> HIDE DEF entry, room
<1>4. [i \in DOMAIN room |-> IF room[i].key = entry.key THEN entry ELSE room[i]] \in Seq(Entries)
  <2>1. DOMAIN room = 1..Len(room) /\ Len(room) \in Nat BY <1>2
  <2>2. \A i \in 1..Len(room) : (IF room[i].key = entry.key THEN entry ELSE room[i]) \in Entries BY <1>1, <1>2
  <2>3. [i \in 1..Len(room) |-> IF room[i].key = entry.key THEN entry ELSE room[i]] \in Seq(Entries)
    BY <2>1, <2>2
  <2> QED BY <2>1, <2>3
<1>5. Len([i \in DOMAIN room |-> IF room[i].key = entry.key THEN entry ELSE room[i]]) = Len(room) BY <1>2
<1>6. Append(room, entry) \in Seq(Entries) /\ Len(Append(room, entry)) <= MaxCache
  BY <1>1, <1>2, ProxyServeAssumption
<1> QED BY <1>2, <1>3, <1>4, <1>5, <1>6, ProxyServeAssumption

\* A call whose target was checked waits for the upstream at a public address, or has failed.
LEMMA CheckedFits ==
  ASSUME ServeInv, NEW c \in Calls, NEW r \in Requests, NEW ip \in Addresses, Checked(c, r, ip)
  PROVE  /\ call' \in [Calls -> Call] /\ \A d \in Calls : CallFits(call'[d])
         /\ call'[c].req = r /\ call'[c].at # "idle" /\ \A d \in Calls \ {c} : call'[d] = call[d]
<1>1. PICK k : k = IF ip = "private" THEN [Idle EXCEPT !.at = "done", !.req = r, !.answer = Error]
                                     ELSE [Idle EXCEPT !.at = "fetch", !.req = r, !.ip = ip] OBVIOUS
<1>2. call' = [call EXCEPT ![c] = k] BY <1>1 DEF Checked
<1>3. CASE ip = "private"
  <2>1. k = [at |-> "done", req |-> r, ip |-> None, answer |-> Error] BY <1>1, <1>3 DEF Idle
  <2>2. k \in Call /\ k.req = r /\ k.at = "done" /\ k.answer = Error BY <2>1 DEF Call
  <2>3. CallFits(k) BY <2>2, ErrorIsNoAnswer DEF CallFits
  <2> QED BY <1>2, <2>2, <2>3 DEF ServeInv
<1>4. CASE ip = "public"
  <2>1. k = [at |-> "fetch", req |-> r, ip |-> ip, answer |-> None] BY <1>1, <1>4 DEF Idle
  <2>2. k \in Call /\ k.req = r /\ k.at = "fetch" /\ k.ip = "public" BY <1>4, <2>1 DEF Call, Addresses
  <2>3. CallFits(k) BY <2>2 DEF CallFits
  <2> QED BY <1>2, <2>2, <2>3 DEF ServeInv
<1> QED BY <1>3, <1>4 DEF Addresses

\* A cached answer fits the request it is given to, whoever it was fetched for (profileCacheKey).
LEMMA HitFits ==
  ASSUME ServeInv, NEW r \in Requests, Hit(r)
  PROVE  LET a == [Entry(r).value EXCEPT !.cached = TRUE] IN a \in Answers /\ Fits(a, r)
<1>1. Place(r) \in DOMAIN cache /\ cache[Place(r)].key = ProfileCacheKey(r) BY DEF Hit, Cached, Place
<1>2. Entry(r) \in Entries /\ Entry(r).key = ProfileCacheKey(r) BY <1>1 DEF ServeInv, Entry
<1>3. PICK v \in Storable : v = Entry(r).value /\ ProfileCacheKey(v.of) = ProfileCacheKey(r)
  BY <1>2, EntryHolds
<1>4. PICK a : a = [v EXCEPT !.cached = TRUE] OBVIOUS
<1>5. a \in Answers /\ a.of = v.of /\ a.from = v.from /\ a.ok = v.ok /\ v.ok /\ v.from = "public"
  BY <1>3, <1>4 DEF Answers, Storable
<1>6. ProfileCacheKey(a.of) = ProfileCacheKey(v.of) BY <1>5
<1>7. Fits(a, r) BY <1>3, <1>5, <1>6 DEF Fits
<1> QED BY <1>3, <1>4, <1>5, <1>7

\* The start of a call (serveProxyRequest).
LEMMA BeginKeeps ==
  ASSUME ServeInv, NEW c \in Calls, NEW r \in Requests, Begin(c, r)
  PROVE  ServeInv' /\ call'[c].req = r /\ \A d \in Calls \ {c} : call'[d] = call[d]
<1>1. cache' \in Seq(Entries) /\ Len(cache') <= MaxCache BY PurgedKeeps DEF Begin
<1>2. dns' = dns BY DEF Begin
<1> DEFINE Good == /\ call' \in [Calls -> Call] /\ \A d \in Calls : CallFits(call'[d])
                   /\ call'[c].req = r /\ \A d \in Calls \ {c} : call'[d] = call[d]
<1>3. ASSUME Hit(r), call' = [call EXCEPT ![c] = [Idle EXCEPT !.at = "done", !.req = r,
                                                   !.answer = [Entry(r).value EXCEPT !.cached = TRUE]]]
      PROVE  Good
  <2>1. PICK a \in Answers : a = [Entry(r).value EXCEPT !.cached = TRUE] /\ Fits(a, r) BY <1>3, HitFits
  <2>2. PICK k : k = [Idle EXCEPT !.at = "done", !.req = r, !.answer = a] OBVIOUS
  <2>3. call' = [call EXCEPT ![c] = k] BY <1>3, <2>1, <2>2, Zenon
  <2>4. k \in Call /\ k.req = r /\ k.at = "done" /\ k.answer = a BY <2>1, <2>2, IdleCall DEF Call
  <2>5. CallFits(k) BY <2>1, <2>4 DEF CallFits
  <2> QED BY <2>3, <2>4, <2>5 DEF ServeInv
<1>4. ASSUME r.host \in Addresses, Checked(c, r, r.host) PROVE Good BY <1>4, CheckedFits
<1>5. ASSUME r.host \in Hosts, dns[r.host] # None, Checked(c, r, dns[r.host].ip) PROVE Good
  <2>1. dns[r.host].ip \in Addresses BY <1>5 DEF ServeInv
  <2> QED BY <1>5, <2>1, CheckedFits
<1>6. ASSUME call' = [call EXCEPT ![c] = [Idle EXCEPT !.at = "lookup", !.req = r]] PROVE Good
  <2>1. PICK k : k = [Idle EXCEPT !.at = "lookup", !.req = r] OBVIOUS
  <2>2. call' = [call EXCEPT ![c] = k] BY <1>6, <2>1, Zenon
  <2>3. k \in Call /\ k.req = r /\ k.at = "lookup" BY <2>1, IdleCall DEF Call
  <2>4. CallFits(k) BY <2>3 DEF CallFits
  <2> QED BY <2>2, <2>3, <2>4 DEF ServeInv
<1>7. Good
  <2> HIDE DEF Good
  <2> QED BY <1>3, <1>4, <1>5, <1>6 DEF Begin
<1> QED BY <1>1, <1>2, <1>7 DEF ServeInv

\* DNS answers, the upstream answers or fails (resolveAndCheckTarget, serveProxyRequest).
LEMMA ServeStepKeeps ==
  ASSUME ServeInv, NEW c \in Calls, ServeStep(c)
  PROVE  ServeInv' /\ \A d \in Calls : call'[d].req = call[d].req
<1>0. call[c] \in Call /\ CallFits(call[c]) BY DEF ServeInv
<1>1. CASE Resolved(c)
  <2>1. PICK ip \in Addresses : /\ dns' = [dns EXCEPT ![call[c].req.host] = [ip |-> ip, fresh |-> TRUE]]
                                /\ Checked(c, call[c].req, ip)
    BY <1>1 DEF Resolved, Addresses
  <2>2. call[c].req \in Requests BY <1>0, <1>1 DEF Resolved, CallFits
  <2>3. dns' \in [Hosts -> [ip : Addresses, fresh : BOOLEAN] \cup {None}] BY <2>1 DEF ServeInv
  <2>4. cache' = cache BY <1>1 DEF Resolved
  <2> QED BY <2>1, <2>2, <2>3, <2>4, CheckedFits DEF ServeInv
<1>2. CASE Fetched(c)
  <2>1. PICK ok \in BOOLEAN :
          LET r == call[c].req
              answer == [of |-> r, from |-> call[c].ip, ok |-> ok, cached |-> FALSE]
          IN  /\ Finish(c, answer)
              /\ cache' = IF Cacheable(r) /\ ok THEN Stored(r, answer) ELSE cache
    BY <1>2 DEF Fetched
  <2>2. PICK a : a = [of |-> call[c].req, from |-> call[c].ip, ok |-> ok, cached |-> FALSE] OBVIOUS
  <2>3. call[c].req \in Requests /\ call[c].ip = "public" BY <1>0, <1>2 DEF Fetched, CallFits
  <2>4. a \in Answers /\ a.of = call[c].req /\ a.from = "public" /\ ~a.cached /\ a.ok = ok
    BY <2>2, <2>3 DEF Answers, Addresses
  <2>5. PICK k : k = [call[c] EXCEPT !.at = "done", !.answer = a] OBVIOUS
  <2>6. k \in Call /\ k.req = call[c].req /\ k.at = "done" /\ k.answer = a BY <1>0, <2>4, <2>5 DEF Call
  <2>7. call' = [call EXCEPT ![c] = k] BY <2>1, <2>2, <2>5 DEF Finish
  <2>8. ProfileCacheKey(a.of) = ProfileCacheKey(k.req) BY <2>4, <2>6
  <2>9. CallFits(k) BY <2>3, <2>4, <2>6, <2>8 DEF CallFits, Fits
  <2>10. cache' \in Seq(Entries) /\ Len(cache') <= MaxCache
    <3>1. CASE Cacheable(call[c].req) /\ ok
      <4>1. a \in Storable BY <2>4, <3>1 DEF Storable
      <4>2. cache' = Stored(call[c].req, a) BY <2>1, <2>2, <3>1
      <4> QED BY <2>4, <4>1, <4>2, StoredKeeps
    <3>2. CASE ~(Cacheable(call[c].req) /\ ok) BY <2>1, <3>2 DEF ServeInv
    <3> QED BY <3>1, <3>2
  <2>11. dns' = dns BY <1>2 DEF Fetched
  <2> QED BY <2>6, <2>7, <2>9, <2>10, <2>11 DEF ServeInv
<1>3. CASE FetchFailed(c)
  <2>1. PICK k : k = [call[c] EXCEPT !.at = "done", !.answer = Error] OBVIOUS
  <2>2. k \in Call /\ k.req = call[c].req /\ k.at = "done" /\ k.answer = Error BY <1>0, <2>1 DEF Call
  <2>3. call' = [call EXCEPT ![c] = k] BY <1>3, <2>1 DEF FetchFailed, Finish
  <2>4. call[c].req \in Requests BY <1>0, <1>3 DEF FetchFailed, CallFits
  <2>5. CallFits(k) BY <2>2, <2>4, ErrorIsNoAnswer DEF CallFits
  <2>6. UNCHANGED <<cache, dns>> BY <1>3 DEF FetchFailed
  <2> QED BY <2>2, <2>3, <2>5, <2>6 DEF ServeInv
<1> QED BY <1>1, <1>2, <1>3 DEF ServeStep

\* Entries expire.
LEMMA AgingKeeps ==
  ASSUME ServeInv, AgeCache \/ AgeDns
  PROVE  ServeInv' /\ call' = call
<1>1. CASE AgeCache
  <2>1. PICK i \in DOMAIN cache : cache' = [cache EXCEPT ![i].fresh = FALSE] BY <1>1 DEF AgeCache
  <2>2. PICK e : e = [cache[i] EXCEPT !.fresh = FALSE] OBVIOUS
  <2>3. e \in Entries BY <2>2, EntryHolds DEF ServeInv
  <2>4. cache' = [cache EXCEPT ![i] = e] BY <2>1, <2>2
  <2>5. cache' \in Seq(Entries) /\ Len(cache') = Len(cache) BY <2>3, <2>4 DEF ServeInv
  <2> QED BY <1>1, <2>5 DEF AgeCache, ServeInv
<1>2. CASE AgeDns
  <2>1. PICK h \in Hosts : dns[h] # None /\ dns' = [dns EXCEPT ![h].fresh = FALSE] BY <1>2 DEF AgeDns
  <2>2. PICK d : d = [dns[h] EXCEPT !.fresh = FALSE] OBVIOUS
  <2>3. d \in [ip : Addresses, fresh : BOOLEAN] BY <2>1, <2>2 DEF ServeInv
  <2>4. dns' = [dns EXCEPT ![h] = d] BY <2>1, <2>2
  <2> QED BY <1>2, <2>3, <2>4 DEF AgeDns, ServeInv
<1> QED BY <1>1, <1>2
-----------------------------------------------------------------------------
\* Messages to the node: a request under a client's key is that client's own.
Frames == {m \in Inits \cup RequestFrames : m.kind = "request" => m.req = wish[m.under[1]].req}

\* Messages to a client: an answer under a client's key fits that client's request.
Responses == [kind : {"response"}, under : Streams \X Streams, body : Replies \cup {None}]
Messages == {m \in Accepts \cup Responses :
               m.kind = "response" => (m.body \in Answers => Fits(m.body, wish[m.under[1]].req))}

SessionTypes ==
  /\ at \in [Streams -> {"new", "deps", "init", "accept", "request", "serve", "respond", "done"}]
  /\ peer \in [Streams -> Streams \cup {None}]
  /\ failed \in [Streams -> BOOLEAN] /\ closed \in [Streams -> BOOLEAN] /\ replied \in [Streams -> BOOLEAN]
  /\ up \in BOOLEAN
  /\ reply \in [Streams -> Replies \cup {None}]
  /\ owner \in [Jtis -> Streams \cup {None}]
  /\ closes \in [Streams -> 0..1]

ClientTypes ==
  /\ client \in [Streams -> {"new", "init", "sent", "got", "gone"}]
  /\ wish \in [Streams -> Wish]
  /\ key \in [Streams -> Streams \X Streams \cup {None}]

\* What a session serves, and answers, is the request of the client whose init it accepted.
SessionFits(s) ==
  /\ at[s] \in {"accept", "request", "serve", "respond"} => peer[s] \in Streams
  /\ at[s] = "serve" => call[s].req = wish[peer[s]].req
  /\ at[s] = "respond" => (reply[s] \in Answers => Fits(reply[s], wish[peer[s]].req))
  /\ replied[s] => at[s] = "done"
  /\ ~closed[s] => closes[s] = 0

\* A client opens what it receives under its own key.
ClientFits(c) ==
  /\ client[c] \in {"sent", "got"} => key[c] \in Streams \X Streams /\ key[c][1] = c
  /\ client[c] = "got" =>
       toClient[c] # <<>> /\ Head(toClient[c]).kind = "response" /\ Head(toClient[c]).under = key[c]

Inv ==
  /\ ServeInv /\ SessionTypes /\ ClientTypes
  /\ inbox \in [Streams -> Seq(Frames)] /\ toClient \in [Streams -> Seq(Messages)]
  /\ \A s \in Streams : SessionFits(s) /\ ClientFits(s)
-----------------------------------------------------------------------------
\* What clients wish for does not change, so neither do the messages that fit it.
LEMMA MessagesKept == ASSUME wish' = wish PROVE Frames' = Frames /\ Messages' = Messages
BY DEF Frames, Messages

\* The type invariant says less of messages than Frames and Messages do.
LEMMA TypesFollow == Inv => TypeOK
<1> SUFFICES ASSUME Inv PROVE TypeOK OBVIOUS
<1>1. inbox \in [Streams -> Seq(Inits \cup RequestFrames)]
  <2>1. Frames \subseteq Inits \cup RequestFrames BY DEF Frames
  <2>2. ASSUME NEW s \in Streams PROVE inbox[s] \in Seq(Inits \cup RequestFrames)
    <3>1. inbox[s] \in Seq(Frames) BY DEF Inv
    <3> QED BY <2>1, <3>1
  <2> QED BY <2>2 DEF Inv
<1>2. {failed, closed, replied} \subseteq [Streams -> BOOLEAN] BY DEF Inv, SessionTypes
<1> QED BY <1>1, <1>2, ServeTypes DEF Inv, SessionTypes, ClientTypes, TypeOK

\* Nothing is sent and nobody is admitted at the start.
LEMMA InitInv == Init => Inv
<1> SUFFICES ASSUME Init PROVE Inv OBVIOUS
<1>1. ServeInv BY ServeInitInv DEF Init
<1>2. SessionTypes BY DEF Init, SessionTypes
<1>3. ClientTypes BY DataPlaneAssumption DEF Init, ClientTypes, Streams
<1>4. inbox \in [Streams -> Seq(Frames)] /\ toClient \in [Streams -> Seq(Messages)] BY DEF Init
<1>5. \A s \in Streams : SessionFits(s) /\ ClientFits(s) BY DEF Init, SessionFits, ClientFits
<1> QED BY <1>1, <1>2, <1>3, <1>4, <1>5 DEF Inv

\* A step of the session s leaves the others as they are, and only adds to what clients receive.
LEMMA SessionStep ==
  ASSUME Inv, NEW s \in Streams, ServeInv', SessionTypes', UNCHANGED clientVars,
         inbox' \in [Streams -> Seq(Frames)], toClient' \in [Streams -> Seq(Messages)],
         \A c \in Streams : toClient[c] # <<>> => toClient'[c] # <<>> /\ Head(toClient'[c]) = Head(toClient[c]),
         \A t \in Streams \ {s} : /\ at'[t] = at[t] /\ peer'[t] = peer[t] /\ reply'[t] = reply[t]
                                  /\ replied'[t] = replied[t] /\ closed'[t] = closed[t]
                                  /\ closes'[t] = closes[t] /\ call'[t].req = call[t].req,
         SessionFits(s)'
  PROVE  Inv'
<1>1. wish' = wish /\ client' = client /\ key' = key BY DEF clientVars
<1>2. inbox' \in [Streams -> Seq(Frames')] /\ toClient' \in [Streams -> Seq(Messages')] BY <1>1, MessagesKept
<1>3. ClientTypes' BY <1>1 DEF Inv, ClientTypes
<1>4. ASSUME NEW t \in Streams PROVE SessionFits(t)'
  <2>1. CASE t = s BY <2>1
  <2>2. CASE t # s
    <3>1. /\ at'[t] = at[t] /\ peer'[t] = peer[t] /\ reply'[t] = reply[t] /\ replied'[t] = replied[t]
          /\ closed'[t] = closed[t] /\ closes'[t] = closes[t] /\ call'[t].req = call[t].req
      BY <2>2
    <3>2. SessionFits(t) BY DEF Inv
    <3> QED BY <1>1, <3>1, <3>2 DEF SessionFits
  <2> QED BY <2>1, <2>2
<1>5. ASSUME NEW c \in Streams PROVE ClientFits(c)'
  <2>1. ClientFits(c) BY DEF Inv
  <2>2. toClient[c] # <<>> => toClient'[c] # <<>> /\ Head(toClient'[c]) = Head(toClient[c]) OBVIOUS
  <2> QED BY <1>1, <2>1, <2>2 DEF ClientFits
<1> QED BY <1>2, <1>3, <1>4, <1>5 DEF Inv

\* The end of a session (the finally of startDataPlaneStream, closeOnce).
LEMMA EndKeeps ==
  ASSUME Inv, NEW s \in Streams, EndSession(s)
  PROVE  /\ at' \in [Streams -> {"new", "deps", "init", "accept", "request", "serve", "respond", "done"}]
         /\ at'[s] = "done" /\ closed'[s] = TRUE /\ closed' \in [Streams -> BOOLEAN] /\ closes' \in [Streams -> 0..1]
         /\ inbox' \in [Streams -> Seq(Frames)]
         /\ \A t \in Streams \ {s} : at'[t] = at[t] /\ closed'[t] = closed[t] /\ closes'[t] = closes[t]
<1>1. at' = [at EXCEPT ![s] = "done"] /\ closed' = [closed EXCEPT ![s] = TRUE] /\ inbox' = [inbox EXCEPT ![s] = <<>>]
  BY DEF EndSession, Goto, CloseOnce
<1>2. closes' \in [Streams -> 0..1] /\ \A t \in Streams \ {s} : closes'[t] = closes[t]
  <2>1. CASE closed[s] BY <2>1 DEF EndSession, CloseOnce, Inv, SessionTypes
  <2>2. CASE ~closed[s]
    <3>1. closes[s] = 0 BY <2>2 DEF Inv, SessionFits
    <3>2. closes' = [closes EXCEPT ![s] = 1] BY <2>2, <3>1 DEF EndSession, CloseOnce, Inv, SessionTypes
    <3> QED BY <3>2 DEF Inv, SessionTypes
  <2> QED BY <2>1, <2>2
<1>3. inbox' \in [Streams -> Seq(Frames)] BY <1>1 DEF Inv
<1> QED BY <1>1, <1>2, <1>3 DEF Inv, SessionTypes

\* ServeInv depends on the variables of the serving only.
LEMMA ServeKept == ASSUME ServeInv, UNCHANGED serveVars PROVE ServeInv'
BY DEF ServeInv, serveVars, CallFits

\* A message sent to the client of s leaves what it already has in front.
LEMMA Sending ==
  ASSUME Inv, NEW s \in Streams, NEW m \in Messages, toClient' = [toClient EXCEPT ![s] = Append(@, m)]
  PROVE  /\ toClient' \in [Streams -> Seq(Messages)]
         /\ \A c \in Streams : toClient[c] # <<>> => toClient'[c] # <<>> /\ Head(toClient'[c]) = Head(toClient[c])
<1>1. \A c \in Streams : toClient[c] \in Seq(Messages) BY DEF Inv
<1>2. toClient' \in [Streams -> Seq(Messages)] BY <1>1 DEF Inv
<1>3. ASSUME NEW c \in Streams, toClient[c] # <<>> PROVE toClient'[c] # <<>> /\ Head(toClient'[c]) = Head(toClient[c])
  <2>1. CASE c = s
    <3>1. toClient'[c] = Append(toClient[c], m) BY <2>1 DEF Inv
    <3>2. Append(toClient[c], m) # <<>> /\ Head(Append(toClient[c], m)) = Head(toClient[c]) BY <1>1, <1>3
    <3> QED BY <3>1, <3>2
  <2>2. CASE c # s BY <1>3, <2>2 DEF Inv
  <2> QED BY <2>1, <2>2
<1> QED BY <1>2, <1>3

\* A session that ends without an answer (Deps, RecvFailed, TakeInit, SendAccept).
LEMMA EndsUnanswered ==
  ASSUME Inv, NEW s \in Streams, EndSession(s), at[s] # "done",
         UNCHANGED <<serveVars, peer, failed, reply, up, owner, replied, toClient, clientVars>>
  PROVE  Inv'
<1>1. ServeInv' BY ServeKept DEF Inv
<1>2. SessionTypes' BY EndKeeps DEF Inv, SessionTypes
<1>3. SessionFits(s)' BY EndKeeps DEF SessionFits
<1>4. \A t \in Streams \ {s} : /\ at'[t] = at[t] /\ peer'[t] = peer[t] /\ reply'[t] = reply[t]
                               /\ replied'[t] = replied[t] /\ closed'[t] = closed[t]
                               /\ closes'[t] = closes[t] /\ call'[t].req = call[t].req
  BY EndKeeps DEF serveVars
<1>5. inbox' \in [Streams -> Seq(Frames)] BY EndKeeps
<1>6. toClient' \in [Streams -> Seq(Messages)] /\ toClient' = toClient BY DEF Inv
<1> QED BY <1>1, <1>2, <1>3, <1>4, <1>5, <1>6, SessionStep

\* A session opens, or finds out whether it can serve (startDataPlaneStream, resolveDeps).
LEMMA OpenDepsKeep ==
  ASSUME Inv, NEW s \in Streams, Open(s) \/ Deps(s)
  PROVE  Inv'
<1>1. CASE Deps(s) /\ EndSession(s) BY <1>1, EndsUnanswered DEF Deps
<1>2. ASSUME NEW where \in {"deps", "init"}, at[s] \in {"new", "deps"}, Goto(s, where),
             UNCHANGED <<serveVars, inbox, peer, failed, closed, reply, up, owner, closes, replied, toClient, clientVars>>
      PROVE  Inv'
  <2>1. at' = [at EXCEPT ![s] = where] /\ at'[s] = where BY <1>2 DEF Goto, Inv, SessionTypes
  <2>2. ServeInv' BY <1>2, ServeKept DEF Inv
  <2>3. SessionTypes' BY <1>2, <2>1 DEF Inv, SessionTypes
  <2>4. SessionFits(s)' BY <1>2, <2>1 DEF Inv, SessionFits
  <2>5. \A t \in Streams \ {s} : at'[t] = at[t] BY <2>1 DEF Inv, SessionTypes
  <2> QED BY <1>2, <2>2, <2>3, <2>4, <2>5, SessionStep DEF Inv, serveVars
<1> QED BY <1>1, <1>2 DEF Open, Deps

\* Only an init is accepted, and its sender is the peer from then on (acceptDataInit).
LEMMA TakeInitKeeps ==
  ASSUME Inv, NEW s \in Streams, TakeInit(s)
  PROVE  Inv'
<1> DEFINE m == Head(inbox[s])
<1>1. inbox[s] \in Seq(Frames) /\ inbox[s] # <<>> BY DEF TakeInit, Inv
<1>2. m \in Frames BY <1>1
<1>3. CASE m.kind # "init" /\ EndSession(s) /\ UNCHANGED peer BY <1>3, EndsUnanswered DEF TakeInit
<1>4. CASE /\ m.kind = "init" /\ Take(s) /\ Goto(s, "accept") /\ peer' = [peer EXCEPT ![s] = m.from]
           /\ UNCHANGED <<closed, closes>>
  <2>1. m.from \in Streams BY <1>2, <1>4 DEF Frames, Inits, RequestFrames
  <2> HIDE DEF m
  <2>2. at' = [at EXCEPT ![s] = "accept"] /\ inbox' = [inbox EXCEPT ![s] = Tail(@)] BY <1>4 DEF Goto, Take
  <2>3. at'[s] = "accept" /\ peer'[s] = m.from /\ at[s] = "init" BY <1>4, <2>2 DEF TakeInit, Inv, SessionTypes
  <2>4. UNCHANGED <<serveVars, failed, reply, up, owner, replied, toClient, clientVars, closed, closes>>
    BY <1>4 DEF TakeInit
  <2>5. ServeInv' BY <2>4, ServeKept DEF Inv
  <2>6. SessionTypes' BY <1>4, <2>1, <2>2, <2>4 DEF Inv, SessionTypes
  <2>7. SessionFits(s)' BY <2>1, <2>3, <2>4 DEF Inv, SessionFits
  <2>8. Tail(inbox[s]) \in Seq(Frames) BY <1>1
  <2>9. inbox' \in [Streams -> Seq(Frames)] BY <2>2, <2>8 DEF Inv
  <2>10. \A t \in Streams \ {s} : at'[t] = at[t] /\ peer'[t] = peer[t] BY <1>4, <2>2 DEF Inv, SessionTypes
  <2> QED BY <2>4, <2>5, <2>6, <2>7, <2>9, <2>10, SessionStep DEF Inv, serveVars
<1> QED BY <1>3, <1>4 DEF TakeInit

\* The accept names the peer and this stream (serveDataConnection).
LEMMA SendAcceptKeeps ==
  ASSUME Inv, NEW s \in Streams, SendAccept(s)
  PROVE  Inv'
<1>1. CASE ~up /\ EndSession(s) /\ UNCHANGED toClient BY <1>1, EndsUnanswered DEF SendAccept
<1>2. CASE /\ Goto(s, "request") /\ UNCHANGED <<inbox, closed, closes>>
           /\ toClient' = [toClient EXCEPT ![s] = Append(@, [kind |-> "accept", of |-> peer[s], by |-> s])]
  <2>1. peer[s] \in Streams /\ at[s] = "accept" BY DEF SendAccept, Inv, SessionFits
  <2>2. PICK m : m = [kind |-> "accept", of |-> peer[s], by |-> s] OBVIOUS
  <2>3. m \in Accepts /\ m.kind = "accept" BY <2>1, <2>2 DEF Accepts
  <2>4. m \in Messages BY <2>3 DEF Messages
  <2>5. toClient' = [toClient EXCEPT ![s] = Append(@, m)] BY <1>2, <2>2
  <2>6. at' = [at EXCEPT ![s] = "request"] /\ at'[s] = "request" BY <1>2 DEF Goto, Inv, SessionTypes
  <2>7. UNCHANGED <<serveVars, peer, failed, reply, up, owner, replied, clientVars, inbox, closed, closes>>
    BY <1>2 DEF SendAccept
  <2>8. ServeInv' BY <2>7, ServeKept DEF Inv
  <2>9. SessionTypes' BY <2>6, <2>7 DEF Inv, SessionTypes
  <2>10. SessionFits(s)' BY <2>1, <2>6, <2>7 DEF Inv, SessionFits
  <2>11. \A t \in Streams \ {s} : at'[t] = at[t] BY <2>6 DEF Inv, SessionTypes
  <2>12. /\ toClient' \in [Streams -> Seq(Messages)]
         /\ \A c \in Streams : toClient[c] # <<>> => toClient'[c] # <<>> /\ Head(toClient'[c]) = Head(toClient[c])
    BY <2>4, <2>5, Sending
  <2> QED BY <2>7, <2>8, <2>9, <2>10, <2>11, <2>12, SessionStep DEF Inv, serveVars
<1> QED BY <1>1, <1>2 DEF SendAccept

\* The session takes the next message; a refusal is no answer (resolveProxyResponse).
LEMMA TakeRequestKeeps ==
  ASSUME Inv, NEW s \in Streams, TakeRequest(s)
  PROVE  Inv'
<1> DEFINE m == Head(inbox[s])
<1>1. inbox[s] \in Seq(Frames) /\ inbox[s] # <<>> /\ at[s] = "request" BY DEF TakeRequest, Inv
<1>2. m \in Frames BY <1>1
<1>3. peer[s] \in Streams /\ ~replied[s] /\ (~closed[s] => closes[s] = 0) BY <1>1 DEF Inv, SessionFits
<1>4. inbox' \in [Streams -> Seq(Frames)]
  <2>1. Tail(inbox[s]) \in Seq(Frames) BY <1>1
  <2> QED BY <2>1 DEF TakeRequest, Take, Inv
<1>5. UNCHANGED <<peer, failed, closed, up, closes, replied, toClient, clientVars>> BY DEF TakeRequest
<1> HIDE DEF m
<1>6. ASSUME NEW code \in {"bad_request", "unauthorized"}, Goto(s, "respond"),
             reply' = [reply EXCEPT ![s] = [code |-> code]], UNCHANGED <<serveVars, owner>>
      PROVE  Inv'
  <2>1. PICK e : e = [code |-> code] OBVIOUS
  <2>2. e \in Replies /\ e \notin Answers BY <1>6, <2>1, ErrorIsNoAnswer DEF Replies
  <2>3. at' = [at EXCEPT ![s] = "respond"] /\ reply' = [reply EXCEPT ![s] = e] BY <1>6, <2>1 DEF Goto
  <2>4. at'[s] = "respond" /\ reply'[s] = e BY <2>3 DEF Inv, SessionTypes
  <2>5. ServeInv' BY <1>6, ServeKept DEF Inv
  <2>6. SessionTypes' BY <1>5, <1>6, <2>2, <2>3 DEF Inv, SessionTypes
  <2>7. SessionFits(s)' BY <1>3, <1>5, <2>2, <2>4 DEF SessionFits
  <2>8. \A t \in Streams \ {s} : at'[t] = at[t] /\ reply'[t] = reply[t] BY <2>3 DEF Inv, SessionTypes
  <2> QED BY <1>4, <1>5, <1>6, <2>5, <2>6, <2>7, <2>8, SessionStep DEF Inv, serveVars
<1>7. CASE /\ Valid(s, m) /\ owner' = [owner EXCEPT ![m.jti] = s]
           /\ Begin(s, m.req) /\ Goto(s, "serve") /\ UNCHANGED reply
  <2>1. m \in RequestFrames /\ m.under = <<peer[s], s>> /\ m.kind = "request" BY <1>2, <1>7 DEF Valid, Opened, Frames, Inits
  <2>2. m.req \in Requests /\ m.jti \in Jtis BY <2>1 DEF RequestFrames
  <2>3. m.req = wish[peer[s]].req BY <1>2, <2>1 DEF Frames
  <2>4. ServeInv' /\ call'[s].req = m.req /\ \A d \in Streams \ {s} : call'[d] = call[d]
    BY <1>7, <2>2, BeginKeeps DEF Inv, Streams
  <2>5. at' = [at EXCEPT ![s] = "serve"] BY <1>7 DEF Goto
  <2>6. at'[s] = "serve" BY <2>5 DEF Inv, SessionTypes
  <2>7. SessionTypes' BY <1>5, <1>7, <2>2, <2>5 DEF Inv, SessionTypes
  <2>8. wish' = wish BY <1>5 DEF clientVars
  <2>9. SessionFits(s)' BY <1>3, <1>5, <2>3, <2>4, <2>6, <2>8 DEF SessionFits
  <2>10. \A t \in Streams \ {s} : at'[t] = at[t] BY <2>5 DEF Inv, SessionTypes
  <2> QED BY <1>4, <1>5, <1>7, <2>4, <2>7, <2>9, <2>10, SessionStep DEF Inv
<1>8. \/ /\ Goto(s, "respond") /\ reply' = [reply EXCEPT ![s] = [code |-> "bad_request"]]
         /\ UNCHANGED <<serveVars, owner>>
      \/ /\ Goto(s, "respond") /\ reply' = [reply EXCEPT ![s] = [code |-> "unauthorized"]]
         /\ UNCHANGED <<serveVars, owner>>
      \/ /\ Valid(s, m) /\ owner' = [owner EXCEPT ![m.jti] = s]
         /\ Begin(s, m.req) /\ Goto(s, "serve") /\ UNCHANGED reply
  BY DEF TakeRequest, m
<1> QED BY <1>6, <1>7, <1>8

\* The serving goes on; its result is the reply (serveProxyRequest).
LEMMA ServingKeeps ==
  ASSUME Inv, NEW s \in Streams, Serve(s) \/ Served(s)
  PROVE  Inv'
<1>1. CASE Serve(s)
  <2>1. UNCHANGED <<nodeVars, toClient, clientVars>> /\ ServeStep(s) BY <1>1 DEF Serve
  <2>2. ServeInv' /\ \A d \in Streams : call'[d].req = call[d].req BY <2>1, ServeStepKeeps DEF Inv, Streams
  <2>3. UNCHANGED <<at, inbox, peer, failed, closed, reply, up, owner, closes, replied, wish>>
    BY <2>1 DEF nodeVars, clientVars
  <2>4. SessionTypes' BY <2>3 DEF Inv, SessionTypes
  <2>5. SessionFits(s) /\ call'[s].req = call[s].req BY <2>2 DEF Inv
  <2>6. SessionFits(s)' BY <2>3, <2>5 DEF SessionFits
  <2> QED BY <2>1, <2>2, <2>3, <2>4, <2>6, SessionStep DEF Inv
<1>2. CASE Served(s)
  <2>1. PICK a : a = call[s].answer OBVIOUS
  <2>2. /\ at' = [at EXCEPT ![s] = "respond"] /\ reply' = [reply EXCEPT ![s] = a] /\ at[s] = "serve"
        /\ UNCHANGED <<serveVars, inbox, peer, failed, closed, up, owner, closes, replied, toClient, clientVars>>
    BY <1>2, <2>1 DEF Served, Goto
  <2>3. SessionFits(s) /\ CallFits(call[s]) BY DEF Inv, ServeInv, Streams
  <2>4. a \in Answers \cup {Error} /\ (a \in Answers => Fits(a, call[s].req)) BY <1>2, <2>1, <2>3 DEF Served, CallFits
  <2>5. call[s].req = wish[peer[s]].req /\ wish' = wish /\ peer' = peer BY <2>2, <2>3 DEF SessionFits, clientVars
  <2>6. a \in Answers => Fits(a, wish'[peer'[s]].req)  BY <2>4, <2>5
  <2>7. at'[s] = "respond" /\ reply'[s] = a BY <2>2 DEF Inv, SessionTypes
  <2>8. SessionFits(s)' BY <2>2, <2>3, <2>6, <2>7 DEF SessionFits
  <2>9. SessionTypes' BY <2>2, <2>4 DEF Inv, SessionTypes, Replies
  <2>10. ServeInv' BY <2>2, ServeKept DEF Inv
  <2>11. \A t \in Streams \ {s} : at'[t] = at[t] /\ reply'[t] = reply[t] BY <2>2 DEF Inv, SessionTypes
  <2> QED BY <2>2, <2>8, <2>9, <2>10, <2>11, SessionStep DEF Inv, serveVars
<1> QED BY <1>1, <1>2

\* The response goes out under the keys of the accepted client, and the session ends (serveDataConnection).
LEMMA SendResponseKeeps ==
  ASSUME Inv, NEW s \in Streams, SendResponse(s)
  PROVE  Inv'
<1>1. CASE ~up /\ UNCHANGED <<replied, toClient>> BY <1>1, EndsUnanswered DEF SendResponse
<1>2. CASE /\ replied' = [replied EXCEPT ![s] = TRUE]
           /\ toClient' = [toClient EXCEPT ![s] =
                             Append(@, [kind |-> "response", under |-> <<peer[s], s>>, body |-> reply[s]])]
  <2>1. EndSession(s) /\ at[s] = "respond" /\ UNCHANGED <<serveVars, peer, failed, reply, up, owner, clientVars>>
    BY DEF SendResponse
  <2>2. peer[s] \in Streams /\ (reply[s] \in Answers => Fits(reply[s], wish[peer[s]].req))
    BY <2>1 DEF Inv, SessionFits
  <2>3. PICK m : m = [kind |-> "response", under |-> <<peer[s], s>>, body |-> reply[s]] OBVIOUS
  <2>4. m \in Responses /\ m.under[1] = peer[s] /\ m.body = reply[s] BY <2>2, <2>3 DEF Responses, Inv, SessionTypes
  <2>5. m \in Messages BY <2>2, <2>4 DEF Messages
  <2>6. /\ toClient' \in [Streams -> Seq(Messages)]
        /\ \A c \in Streams : toClient[c] # <<>> => toClient'[c] # <<>> /\ Head(toClient'[c]) = Head(toClient[c])
    BY <1>2, <2>3, <2>5, Sending
  <2>7. ServeInv' BY <2>1, ServeKept DEF Inv
  <2>8. SessionTypes' BY <1>2, <2>1, EndKeeps DEF Inv, SessionTypes
  <2>9. at'[s] = "done" /\ closed'[s] BY <2>1, EndKeeps
  <2>10. SessionFits(s)' BY <2>9 DEF SessionFits
  <2>11. \A t \in Streams \ {s} : /\ at'[t] = at[t] /\ closed'[t] = closed[t] /\ closes'[t] = closes[t]
                                  /\ replied'[t] = replied[t]
    BY <1>2, <2>1, EndKeeps DEF Inv, SessionTypes
  <2>12. inbox' \in [Streams -> Seq(Frames)] BY <2>1, EndKeeps
  <2> QED BY <2>1, <2>6, <2>7, <2>8, <2>10, <2>11, <2>12, SessionStep DEF Inv, serveVars
<1> QED BY <1>1, <1>2 DEF SendResponse

\* A step that changes no session but for its failure and what its mailbox holds.
LEMMA OutsideStep ==
  ASSUME Inv, wish' = wish, ClientTypes', \A c \in Streams : ClientFits(c)',
         UNCHANGED <<serveVars, at, peer, reply, owner, closes, replied>>, up' \in BOOLEAN,
         failed' \in [Streams -> BOOLEAN], closed' \in [Streams -> BOOLEAN],
         \A s \in Streams : closed[s] => closed'[s],
         inbox' \in [Streams -> Seq(Frames)], toClient' \in [Streams -> Seq(Messages)]
  PROVE  Inv'
<1>1. ServeInv' BY ServeKept DEF Inv
<1>2. SessionTypes' BY DEF Inv, SessionTypes
<1>3. inbox' \in [Streams -> Seq(Frames')] /\ toClient' \in [Streams -> Seq(Messages')] BY MessagesKept
<1>4. ASSUME NEW s \in Streams PROVE SessionFits(s)'
  <2>1. SessionFits(s) BY DEF Inv
  <2>2. call' = call BY DEF serveVars
  <2>3. closed[s] => closed'[s] OBVIOUS
  <2> QED BY <2>1, <2>2, <2>3 DEF SessionFits
<1> QED BY <1>1, <1>2, <1>3, <1>4 DEF Inv

\* A session that fails is closed without a STREAM_CLOSE (fail).
LEMMA FailKeeps ==
  ASSUME Inv, NEW gone, Fail(gone)
  PROVE  /\ failed' \in [Streams -> BOOLEAN] /\ closed' \in [Streams -> BOOLEAN]
         /\ \A s \in Streams : closed[s] => closed'[s]
<1>1. \A s \in Streams : failed[s] \in BOOLEAN /\ closed[s] \in BOOLEAN BY DEF Inv, SessionTypes
<1> QED BY <1>1 DEF Fail

\* What a client sends reaches some mailbox, once or twice, or none.
LEMMA DeliveredKeeps ==
  ASSUME Inv, NEW c \in Streams, NEW m \in Frames, Delivered(c, m)
  PROVE  inbox' \in [Streams -> Seq(Frames)]
<1>1. PICK s \in Streams, copies \in {<<m>>, <<m, m>>} :
        inbox' = IF Active(s) /\ ~failed[s] THEN [inbox EXCEPT ![s] = @ \o copies] ELSE inbox
  BY DEF Delivered
<1>2. copies \in Seq(Frames)
  <2>1. <<m>> \in Seq(Frames) /\ <<m, m>> \in Seq(Frames) OBVIOUS
  <2> QED BY <1>1, <2>1
<1>3. inbox[s] \in Seq(Frames) BY DEF Inv
<1>4. inbox[s] \o copies \in Seq(Frames) BY <1>2, <1>3, ConcatProperties
<1>5. [inbox EXCEPT ![s] = @ \o copies] \in [Streams -> Seq(Frames)] BY <1>4 DEF Inv
<1> QED BY <1>1, <1>5 DEF Inv

\* The tunnel drops, and later its sessions are told; the clients notice nothing.
LEMMA TunnelDropsKeeps ==
  ASSUME Inv, TunnelDrops \/ OnClose
  PROVE  Inv'
<1>1. wish' = wish /\ client' = client /\ key' = key /\ toClient' = toClient
  BY DEF TunnelDrops, OnClose, clientVars
<1>2. ClientTypes' BY <1>1 DEF Inv, ClientTypes
<1>3. \A c \in Streams : ClientFits(c)' BY <1>1 DEF Inv, ClientFits
<1>4. /\ failed' \in [Streams -> BOOLEAN] /\ closed' \in [Streams -> BOOLEAN]
      /\ \A s \in Streams : closed[s] => closed'[s]
  <2>1. CASE TunnelDrops BY <2>1 DEF TunnelDrops, Inv, SessionTypes
  <2>2. CASE OnClose BY <2>2, FailKeeps DEF OnClose
  <2> QED BY <2>1, <2>2
<1>5. UNCHANGED <<serveVars, at, peer, reply, owner, closes, replied, inbox>> /\ up' \in BOOLEAN
  BY DEF TunnelDrops, OnClose, Inv, SessionTypes
<1> QED BY <1>1, <1>2, <1>3, <1>4, <1>5, OutsideStep DEF Inv

\* A client's own step leaves the other clients as they are.
LEMMA ClientStepKeeps ==
  ASSUME Inv, NEW c \in Streams, NEW where \in {"init", "sent", "got", "gone"}, ClientStep(c, where)
  PROVE  /\ wish' = wish /\ client' = [client EXCEPT ![c] = where] /\ client'[c] = where
         /\ UNCHANGED <<serveVars, at, peer, reply, owner, closes, replied>> /\ up' \in BOOLEAN
         /\ (key' \in [Streams -> Streams \X Streams \cup {None}] => ClientTypes')
         /\ \A d \in Streams \ {c} : key'[d] = key[d] /\ toClient'[d] = toClient[d] => ClientFits(d)'
<1>1. /\ wish' = wish /\ client' = [client EXCEPT ![c] = where] /\ up' = up
      /\ UNCHANGED <<serveVars, at, peer, reply, owner, closes, replied>>
  BY DEF ClientStep
<1>2. client' \in [Streams -> {"new", "init", "sent", "got", "gone"}] /\ client'[c] = where
  BY <1>1 DEF Inv, ClientTypes
<1>3. up' \in BOOLEAN BY <1>1 DEF Inv, SessionTypes
<1>4. key' \in [Streams -> Streams \X Streams \cup {None}] => ClientTypes' BY <1>1, <1>2 DEF Inv, ClientTypes
<1>5. ASSUME NEW d \in Streams \ {c}, key'[d] = key[d], toClient'[d] = toClient[d]
      PROVE  ClientFits(d)'
  <2>1. client'[d] = client[d] BY <1>1 DEF Inv, ClientTypes
  <2>2. ClientFits(d) BY DEF Inv
  <2> QED BY <1>5, <2>1, <2>2 DEF ClientFits
<1> QED BY <1>1, <1>2, <1>3, <1>4, <1>5

\* The client's request goes out under the key of its own init (createDataInit, deriveClientDataSession).
LEMMA ClientKeeps ==
  ASSUME Inv, NEW c \in Streams, Client(c)
  PROVE  Inv'
<1> USE DEF ClientTypes
<1>1. CASE SendInit(c)
  <2>1. PICK m : m = [kind |-> "init", from |-> c] OBVIOUS
  <2>2. m \in Inits /\ m.kind = "init" BY <2>1 DEF Inits
  <2>3. m \in Frames BY <2>2 DEF Frames
  <2>4. Delivered(c, m) /\ ClientStep(c, "init") /\ UNCHANGED <<failed, closed, toClient, key>>
    BY <1>1, <2>1 DEF SendInit
  <2>5. inbox' \in [Streams -> Seq(Frames)] BY <2>3, <2>4, DeliveredKeeps
  <2>6. ClientFits(c)' BY <2>4, ClientStepKeeps DEF ClientFits
  <2>7. \A d \in Streams : ClientFits(d)' BY <2>4, <2>6, ClientStepKeeps
  <2>8. failed' \in [Streams -> BOOLEAN] /\ closed' \in [Streams -> BOOLEAN] /\ closed' = closed
    BY <2>4 DEF Inv, SessionTypes
  <2>9. ClientTypes' BY <2>4, ClientStepKeeps DEF Inv
  <2> QED BY <2>4, <2>5, <2>7, <2>8, <2>9, ClientStepKeeps, OutsideStep DEF Inv
<1>2. CASE ClientAccepts(c)
  <2>1. toClient[c] \in Seq(Messages) /\ toClient[c] # <<>> BY <1>2 DEF ClientAccepts, Inv
  <2>2. PICK a \in Messages : a = Head(toClient[c]) BY <2>1
  <2>3. a \in Accepts BY <1>2, <2>2 DEF ClientAccepts, Messages, Responses
  <2>4. a.by \in Streams BY <2>3 DEF Accepts
  <2>5. PICK k : k = <<c, a.by>> OBVIOUS
  <2>6. k \in Streams \X Streams /\ k[1] = c BY <2>4, <2>5
  <2>7. PICK m : m = [kind |-> "request", under |-> k, req |-> wish[c].req, jti |-> wish[c].jti] OBVIOUS
  <2>8. wish[c].req \in Requests /\ wish[c].jti \in Jtis BY DEF Inv, Wish
  <2>9. m \in RequestFrames /\ m.under[1] = c /\ m.req = wish[c].req BY <2>6, <2>7, <2>8 DEF RequestFrames
  <2>10. m \in Frames BY <2>9 DEF Frames
  <2>11. /\ key' = [key EXCEPT ![c] = k] /\ Delivered(c, m) /\ toClient' = [toClient EXCEPT ![c] = Tail(@)]
         /\ ClientStep(c, "sent") /\ UNCHANGED <<failed, closed>>
    BY <1>2, <2>2, <2>5, <2>7 DEF ClientAccepts
  <2>12. inbox' \in [Streams -> Seq(Frames)] BY <2>10, <2>11, DeliveredKeeps
  <2>13. Tail(toClient[c]) \in Seq(Messages) BY <2>1
  <2>14. toClient' \in [Streams -> Seq(Messages)] BY <2>11, <2>13 DEF Inv
  <2>15. key'[c] = k /\ key' \in [Streams -> Streams \X Streams \cup {None}] BY <2>6, <2>11 DEF Inv
  <2>16. \A d \in Streams \ {c} : key'[d] = key[d] /\ toClient'[d] = toClient[d] BY <2>11 DEF Inv
  <2>17. ClientFits(c)' BY <2>6, <2>11, <2>15, ClientStepKeeps DEF ClientFits
  <2>18. \A d \in Streams : ClientFits(d)' BY <2>11, <2>16, <2>17, ClientStepKeeps
  <2>19. failed' \in [Streams -> BOOLEAN] /\ closed' \in [Streams -> BOOLEAN] /\ closed' = closed
    BY <2>11 DEF Inv, SessionTypes
  <2>20. ClientTypes' BY <2>11, <2>15, ClientStepKeeps
  <2> QED BY <2>11, <2>12, <2>14, <2>18, <2>19, <2>20, ClientStepKeeps, OutsideStep
<1>3. CASE ClientGets(c)
  <2>1. /\ client[c] = "sent" /\ toClient[c] # <<>> /\ Head(toClient[c]).kind = "response"
        /\ Head(toClient[c]).under = key[c] /\ ClientStep(c, "got")
        /\ UNCHANGED <<inbox, failed, closed, toClient, key>>
    BY <1>3 DEF ClientGets
  <2>2. ClientFits(c) BY DEF Inv
  <2>3. ClientFits(c)' BY <2>1, <2>2, ClientStepKeeps DEF ClientFits
  <2>4. \A d \in Streams : ClientFits(d)' BY <2>1, <2>3, ClientStepKeeps
  <2>5. failed' \in [Streams -> BOOLEAN] /\ closed' \in [Streams -> BOOLEAN] /\ closed' = closed
    BY <2>1 DEF Inv, SessionTypes
  <2>6. ClientTypes' BY <2>1, ClientStepKeeps DEF Inv
  <2> QED BY <2>1, <2>4, <2>5, <2>6, ClientStepKeeps, OutsideStep DEF Inv
<1>4. CASE ClientLeaves(c)
  <2>1. Fail({c}) /\ ClientStep(c, "gone") /\ UNCHANGED <<inbox, toClient, key>> BY <1>4 DEF ClientLeaves
  <2>2. ClientFits(c)' BY <2>1, ClientStepKeeps DEF ClientFits
  <2>3. \A d \in Streams : ClientFits(d)' BY <2>1, <2>2, ClientStepKeeps
  <2>4. /\ failed' \in [Streams -> BOOLEAN] /\ closed' \in [Streams -> BOOLEAN]
        /\ \A s \in Streams : closed[s] => closed'[s]
    BY <2>1, FailKeeps
  <2>5. ClientTypes' BY <2>1, ClientStepKeeps DEF Inv
  <2> QED BY <2>1, <2>3, <2>4, <2>5, ClientStepKeeps, OutsideStep DEF Inv
<1> QED BY <1>1, <1>2, <1>3, <1>4 DEF Client

\* Time passes in the caches only.
LEMMA AgingSteps ==
  ASSUME Inv, Aging
  PROVE  Inv'
<1>1. UNCHANGED <<nodeVars, toClient, clientVars>> /\ ServeInv' /\ call' = call BY AgingKeeps DEF Aging, Inv
<1>2. /\ UNCHANGED <<at, inbox, peer, failed, closed, reply, up, owner, closes, replied>>
      /\ wish' = wish /\ client' = client /\ key' = key /\ toClient' = toClient
  BY <1>1 DEF nodeVars, clientVars
<1>3. SessionTypes' /\ ClientTypes' BY <1>2 DEF Inv, SessionTypes, ClientTypes
<1>4. inbox' \in [Streams -> Seq(Frames')] /\ toClient' \in [Streams -> Seq(Messages')] BY <1>2, MessagesKept DEF Inv
<1>5. ASSUME NEW s \in Streams PROVE SessionFits(s)' /\ ClientFits(s)'
  <2>1. SessionFits(s) /\ ClientFits(s) BY DEF Inv
  <2> QED BY <1>1, <1>2, <2>1 DEF SessionFits, ClientFits
<1> QED BY <1>1, <1>3, <1>4, <1>5 DEF Inv

\* Every step of the system keeps the invariant.
LEMMA NextKeeps == Inv /\ [Next]_vars => Inv'
<1> SUFFICES ASSUME Inv, [Next]_vars PROVE Inv' OBVIOUS
<1>1. ASSUME NEW s \in Streams, Session(s) PROVE Inv'
  <2>1. CASE Deps(s) BY <2>1, OpenDepsKeep
  <2>2. CASE RecvFailed(s) BY <2>2, EndsUnanswered DEF RecvFailed
  <2>3. CASE TakeInit(s) BY <2>3, TakeInitKeeps
  <2>4. CASE SendAccept(s) BY <2>4, SendAcceptKeeps
  <2>5. CASE TakeRequest(s) BY <2>5, TakeRequestKeeps
  <2>6. CASE Serve(s) \/ Served(s) BY <2>6, ServingKeeps
  <2>7. CASE SendResponse(s) BY <2>7, SendResponseKeeps
  <2>8. CASE RequestThrows(s) BY <2>8, EndsUnanswered DEF RequestThrows
  <2> QED BY <1>1, <2>1, <2>2, <2>3, <2>4, <2>5, <2>6, <2>7, <2>8 DEF Session
<1>2. CASE UNCHANGED vars
  <2>1. /\ UNCHANGED <<at, inbox, peer, failed, closed, reply, up, owner, closes, replied, serveVars>>
        /\ wish' = wish /\ client' = client /\ key' = key /\ toClient' = toClient
    BY <1>2 DEF vars, nodeVars, clientVars
  <2>2. ServeInv' BY <2>1, ServeKept DEF Inv
  <2>3. SessionTypes' /\ ClientTypes' BY <2>1 DEF Inv, SessionTypes, ClientTypes
  <2>4. inbox' \in [Streams -> Seq(Frames')] /\ toClient' \in [Streams -> Seq(Messages')] BY <2>1, MessagesKept DEF Inv
  <2>5. ASSUME NEW s \in Streams PROVE SessionFits(s)' /\ ClientFits(s)'
    <3>1. SessionFits(s) /\ ClientFits(s) /\ call' = call BY <2>1 DEF Inv, serveVars
    <3> QED BY <2>1, <3>1 DEF SessionFits, ClientFits
  <2> QED BY <2>2, <2>3, <2>4, <2>5 DEF Inv
<1>3. CASE Next BY <1>1, <1>3, OpenDepsKeep, ClientKeeps, TunnelDropsKeeps, AgingSteps DEF Next
<1> QED BY <1>2, <1>3

\* What is cached, served, sent and opened fits the request it is for, through every interleaving of
\* sessions, clients and gateway (serveDataConnection, serveProxyRequest).
THEOREM Invariant == Spec => []Inv
BY InitInv, NextKeeps, PTL DEF Spec

\* Sessions, caches and clients keep their types, the profile cache stays within its limit and a stream
\* is closed at most once (storeProfileResult, closeOnce).
THEOREM TypeCorrect == Spec => []TypeOK
BY Invariant, TypesFollow, PTL

\* No client is given an answer to another's request: not by the profile cache, not by a gateway that
\* delivers to the wrong stream or twice, and not from a private address (profileCacheKey, verifyProof,
\* openFrame, resolveAndCheckTarget).
THEOREM AnswersFit == Spec => []AnswersOwnRequest
<1>1. Inv => AnswersOwnRequest
  <2> SUFFICES ASSUME Inv, NEW c \in Streams, client[c] = "got", Head(toClient[c]).body \in Answers
               PROVE  LET answer == Head(toClient[c]).body IN
                      /\ DedupeKey(answer.of) = DedupeKey(wish[c].req) /\ answer.of.cred = wish[c].req.cred
                      /\ answer.from = "public" /\ (answer.cached => answer.ok)
    BY DEF AnswersOwnRequest
  <2>1. toClient[c] \in Seq(Messages) /\ ClientFits(c) BY DEF Inv
  <2>2. toClient[c] # <<>> /\ Head(toClient[c]).kind = "response" /\ Head(toClient[c]).under[1] = c
    BY <2>1 DEF ClientFits
  <2>3. PICK m \in Messages : m = Head(toClient[c]) BY <2>1, <2>2
  <2>4. Fits(m.body, wish[c].req) BY <2>2, <2>3 DEF Messages
  <2> QED BY <2>3, <2>4 DEF Fits, ProfileCacheKey
<1> QED BY <1>1, Invariant, PTL
-----------------------------------------------------------------------------
\* The refinement of TicketedService.

\* A session whose place, response and its sending stay has the same phase.
LEMMA PhaseKept ==
  ASSUME NEW s \in Streams, at'[s] = at[s], reply'[s] = reply[s], replied'[s] = replied[s]
  PROVE  Phase(s)' = Phase(s)
BY DEF Phase, Answered

\* A step that changes the phase of no stream, and no ticket, is no step of the service.
LEMMA NoServiceStep ==
  ASSUME owner' = owner, \A s \in Streams : Phase(s)' = Phase(s)
  PROVE  UNCHANGED Service!vars
BY DEF Service!vars

\* A step of one session changes the phase of its own stream only.
LEMMA OnePhase ==
  ASSUME NEW s \in Streams, NEW p, Phase(s)' = p,
         \A t \in Streams \ {s} : at'[t] = at[t] /\ reply'[t] = reply[t] /\ replied'[t] = replied[t]
  PROVE  [t \in Streams |-> Phase(t)]' = [[t \in Streams |-> Phase(t)] EXCEPT ![s] = p]
<1>1. \A t \in Streams \ {s} : Phase(t)' = Phase(t) BY PhaseKept
<1> QED BY <1>1

\* A session that ends without an answer is refused, failed or closed.
LEMMA EndsService ==
  ASSUME Inv, NEW s \in Streams, EndSession(s), at[s] \in {"deps", "init", "accept", "request"},
         UNCHANGED <<reply, replied, owner>>
  PROVE  Service!End(s)
<1>1. ~replied[s] BY DEF Inv, SessionFits
<1>2. Phase(s) = "waiting" BY DEF Phase
<1>3. at'[s] = "done" /\ \A t \in Streams \ {s} : at'[t] = at[t] BY EndKeeps
<1>4. Phase(s)' = "over" BY <1>1, <1>3 DEF Phase
<1>5. [t \in Streams |-> Phase(t)]' = [[t \in Streams |-> Phase(t)] EXCEPT ![s] = "over"] BY <1>3, <1>4, OnePhase
<1> QED BY <1>2, <1>5 DEF Service!End

\* A request is admitted with its ticket, or refused and still waiting for the end (verifyRequestTicket).
LEMMA TakeRequestAdmits ==
  ASSUME Inv, NEW s \in Streams, TakeRequest(s)
  PROVE  (\E j \in Jtis : Service!Admit(s, j)) \/ UNCHANGED Service!vars
<1> DEFINE m == Head(inbox[s])
<1>1. inbox[s] \in Seq(Frames) /\ inbox[s] # <<>> /\ at[s] = "request" /\ replied' = replied BY DEF TakeRequest, Inv
<1>2. m \in Frames BY <1>1
<1>3. Phase(s) = "waiting" BY <1>1 DEF Phase
<1> HIDE DEF m
<1>4. ASSUME NEW code, Goto(s, "respond"), reply' = [reply EXCEPT ![s] = [code |-> code]], owner' = owner
      PROVE  UNCHANGED Service!vars
  <2>1. PICK e : e = [code |-> code] OBVIOUS
  <2>2. at' = [at EXCEPT ![s] = "respond"] /\ reply' = [reply EXCEPT ![s] = e] BY <1>4, <2>1 DEF Goto
  <2>3. at'[s] = "respond" /\ reply'[s] = e BY <2>2 DEF Inv, SessionTypes
  <2>4. e \notin Answers \cup {Error} BY <2>1, ErrorIsNoAnswer
  <2>5. Phase(s)' = "waiting" BY <2>3, <2>4 DEF Phase, Answered
  <2>6. \A t \in Streams \ {s} : at'[t] = at[t] /\ reply'[t] = reply[t] BY <2>2 DEF Inv, SessionTypes
  <2>7. \A t \in Streams \ {s} : Phase(t)' = Phase(t) BY <1>1, <2>6, PhaseKept
  <2> QED BY <1>3, <1>4, <2>5, <2>7, NoServiceStep
<1>5. CASE /\ Valid(s, m) /\ Authorized(m) /\ owner' = [owner EXCEPT ![m.jti] = s]
           /\ Goto(s, "serve") /\ UNCHANGED reply
  <2>1. m \in RequestFrames BY <1>2, <1>5 DEF Valid, Opened, Frames, Inits
  <2>2. m.jti \in Jtis BY <2>1 DEF RequestFrames
  <2>3. at' = [at EXCEPT ![s] = "serve"] BY <1>5 DEF Goto
  <2>4. at'[s] = "serve" /\ \A t \in Streams \ {s} : at'[t] = at[t] BY <2>3 DEF Inv, SessionTypes
  <2>5. Phase(s)' = "admitted" BY <2>4 DEF Phase
  <2>6. [t \in Streams |-> Phase(t)]' = [[t \in Streams |-> Phase(t)] EXCEPT ![s] = "admitted"]
    BY <1>1, <1>5, <2>4, <2>5, OnePhase
  <2>7. Service!Admit(s, m.jti) BY <1>3, <1>5, <2>6 DEF Service!Admit, Authorized
  <2> QED BY <2>2, <2>7
<1>6. \/ /\ Goto(s, "respond") /\ reply' = [reply EXCEPT ![s] = [code |-> "bad_request"]]
         /\ owner' = owner
      \/ /\ Goto(s, "respond") /\ reply' = [reply EXCEPT ![s] = [code |-> "unauthorized"]]
         /\ owner' = owner
      \/ /\ Valid(s, m) /\ Authorized(m) /\ owner' = [owner EXCEPT ![m.jti] = s]
         /\ Goto(s, "serve") /\ UNCHANGED reply
  BY DEF TakeRequest, m
<1> QED BY <1>4, <1>5, <1>6

\* The result of the serving is the answer to come (serveProxyRequest).
LEMMA ServedStutters ==
  ASSUME Inv, NEW s \in Streams, Served(s)
  PROVE  UNCHANGED Service!vars
<1>1. PICK a : a = call[s].answer OBVIOUS
<1>2. /\ at' = [at EXCEPT ![s] = "respond"] /\ reply' = [reply EXCEPT ![s] = a] /\ at[s] = "serve"
      /\ owner' = owner /\ replied' = replied
  BY <1>1 DEF Served, Goto
<1>3. CallFits(call[s]) BY DEF Inv, ServeInv, Streams
<1>4. a \in Answers \cup {Error} BY <1>1, <1>3 DEF Served, CallFits
<1>5. at'[s] = "respond" /\ reply'[s] = a BY <1>2 DEF Inv, SessionTypes
<1>6. Phase(s) = "admitted" /\ Phase(s)' = "admitted" BY <1>2, <1>4, <1>5 DEF Phase, Answered
<1>7. \A t \in Streams \ {s} : at'[t] = at[t] /\ reply'[t] = reply[t] BY <1>2 DEF Inv, SessionTypes
<1>8. \A t \in Streams \ {s} : Phase(t)' = Phase(t) BY <1>2, <1>7, PhaseKept
<1> QED BY <1>2, <1>6, <1>8, NoServiceStep

\* Only an admitted stream is answered; one that is refused, or cannot be told, is over (serveDataConnection).
LEMMA SendResponseAnswers ==
  ASSUME Inv, NEW s \in Streams, SendResponse(s)
  PROVE  Service!Answer(s) \/ Service!End(s)
<1>1. /\ EndSession(s) /\ at[s] = "respond" /\ owner' = owner /\ reply' = reply
      /\ replied' = [replied EXCEPT ![s] = TRUE] \/ replied' = replied
  BY DEF SendResponse
<1>2. ~replied[s] BY <1>1 DEF Inv, SessionFits
<1>3. at'[s] = "done" /\ \A t \in Streams \ {s} : at'[t] = at[t] BY <1>1, EndKeeps
<1>4. \A t \in Streams \ {s} : replied'[t] = replied[t] BY <1>1 DEF Inv, SessionTypes
<1>5. Phase(s) \in {"waiting", "admitted"} /\ (Answered(s) => Phase(s) = "admitted") BY <1>1 DEF Phase
<1>6. Phase(s)' = IF replied'[s] /\ Answered(s) THEN "answered" ELSE "over" BY <1>1, <1>3 DEF Phase, Answered
<1>7. CASE replied'[s] /\ Answered(s)
  <2>1. Phase(s)' = "answered" BY <1>6, <1>7
  <2>2. [t \in Streams |-> Phase(t)]' = [[t \in Streams |-> Phase(t)] EXCEPT ![s] = "answered"]
    BY <1>1, <1>3, <1>4, <2>1, OnePhase
  <2> QED BY <1>1, <1>5, <1>7, <2>2 DEF Service!Answer
<1>8. CASE ~(replied'[s] /\ Answered(s))
  <2>1. Phase(s)' = "over" BY <1>6, <1>8
  <2>2. [t \in Streams |-> Phase(t)]' = [[t \in Streams |-> Phase(t)] EXCEPT ![s] = "over"]
    BY <1>1, <1>3, <1>4, <2>1, OnePhase
  <2> QED BY <1>1, <1>5, <2>2 DEF Service!End
<1> QED BY <1>7, <1>8

\* A session that moves on before its request is taken is still waiting.
LEMMA WaitsOn ==
  ASSUME Inv, NEW s \in Streams, NEW where \in {"deps", "init", "accept", "request"}, Goto(s, where),
         at[s] \in {"new", "deps", "init", "accept"}, UNCHANGED <<reply, replied, owner>>
  PROVE  UNCHANGED Service!vars
<1>1. at'[s] = where /\ \A t \in Streams \ {s} : at'[t] = at[t] BY DEF Goto, Inv, SessionTypes
<1>2. Phase(s) = "waiting" /\ Phase(s)' = "waiting" BY <1>1 DEF Phase
<1>3. \A t \in Streams \ {s} : Phase(t)' = Phase(t) BY <1>1, PhaseKept
<1> QED BY <1>2, <1>3, NoServiceStep

\* Every step of the data plane is a step of the service or none.
LEMMA NextImplements == Inv /\ [Next]_vars => [Service!Next]_Service!vars
<1> SUFFICES ASSUME Inv, [Next]_vars PROVE Service!Next \/ UNCHANGED Service!vars OBVIOUS
<1>1. ASSUME NEW s \in Streams, Service!End(s) \/ Service!Answer(s) \/ \E j \in Jtis : Service!Admit(s, j)
      PROVE  Service!Next
  BY <1>1 DEF Service!Next
<1>2. ASSUME UNCHANGED <<at, reply, replied, owner>> PROVE UNCHANGED Service!vars
  BY <1>2, PhaseKept, NoServiceStep
<1>3. ASSUME NEW s \in Streams, Open(s) \/ Session(s) PROVE Service!Next \/ UNCHANGED Service!vars
  <2>1. CASE Open(s) BY <2>1, WaitsOn DEF Open
  <2>2. CASE Deps(s)
    <3>1. CASE EndSession(s) BY <1>1, <2>2, <3>1, EndsService DEF Deps
    <3>2. CASE Goto(s, "init") BY <2>2, <3>2, WaitsOn DEF Deps
    <3> QED BY <2>2, <3>1, <3>2 DEF Deps
  <2>3. CASE RecvFailed(s) BY <1>1, <2>3, EndsService DEF RecvFailed
  <2>4. CASE TakeInit(s)
    <3>1. at[s] = "init" /\ UNCHANGED <<reply, replied, owner>> /\ (EndSession(s) \/ Goto(s, "accept"))
      BY <2>4 DEF TakeInit
    <3> QED BY <1>1, <3>1, EndsService, WaitsOn
  <2>5. CASE SendAccept(s)
    <3>1. at[s] = "accept" /\ UNCHANGED <<reply, replied, owner>> /\ (EndSession(s) \/ Goto(s, "request"))
      BY <2>5 DEF SendAccept
    <3> QED BY <1>1, <3>1, EndsService, WaitsOn
  <2>6. CASE TakeRequest(s) BY <1>1, <2>6, TakeRequestAdmits
  <2>7. CASE Serve(s) BY <1>2, <2>7 DEF Serve, nodeVars
  <2>8. CASE Served(s) BY <2>8, ServedStutters
  <2>9. CASE SendResponse(s) BY <1>1, <2>9, SendResponseAnswers
  <2>10. CASE RequestThrows(s) BY <1>1, <2>10, EndsService DEF RequestThrows
  <2> QED BY <1>3, <2>1, <2>2, <2>3, <2>4, <2>5, <2>6, <2>7, <2>8, <2>9, <2>10 DEF Session
<1>4. ASSUME NEW c \in Streams, Client(c) PROVE UNCHANGED <<at, reply, replied, owner>>
  BY <1>4 DEF Client, SendInit, ClientAccepts, ClientGets, ClientLeaves, ClientStep
<1>5. TunnelDrops \/ OnClose \/ Aging \/ UNCHANGED vars => UNCHANGED <<at, reply, replied, owner>>
  BY DEF TunnelDrops, OnClose, Aging, vars, nodeVars
<1> QED BY <1>2, <1>3, <1>4, <1>5 DEF Next

\* The data plane keeps the promise of TicketedService: a stream is admitted at most once, with a ticket
\* that admits no other, and answered only then (serveDataConnection, verifyRequestTicket).
THEOREM Implements == Spec => ImplementsService
<1>1. Init => Service!Init
  <2> SUFFICES ASSUME Init PROVE Service!Init OBVIOUS
  <2>1. \A s \in Streams : Phase(s) = "waiting" BY DEF Init, Phase
  <2> QED BY <2>1 DEF Init, Service!Init
<1> QED BY <1>1, Invariant, NextImplements, PTL DEF Spec, ImplementsService, Service!Spec
=============================================================================
