----------------------------- MODULE ProxyServe -----------------------------
(***************************************************************************)
(* Serving one proxied request (serveProxyRequest,                         *)
(* src/src/runtime/proxy-serve.ts): the profile cache, the check of the    *)
(* target with its DNS cache (src/src/runtime/ssrf.ts), the fetch from the *)
(* checked address, and the store of a good answer.  Calls wait for DNS    *)
(* and for the upstream, and share both caches.                            *)
(*                                                                         *)
(* Time passes as the aging of cache entries.  Addresses are public or     *)
(* private.  A header that is forwarded but is no part of the dedupe key   *)
(* (src/src/runtime/dedupe.ts) is the request's "cred".                    *)
(***************************************************************************)
EXTENDS Naturals, Sequences, FiniteSets

CONSTANTS
  Calls,      \* requests in flight
  Hosts,      \* names that need DNS
  Creds,      \* values of the forwarded headers
  MaxCache,   \* MAX_PROFILE_CACHE_ENTRIES
  None

ASSUME ProxyServeAssumption == MaxCache \in Nat \ {0}

Addresses == {"public", "private"}
Profiles == {"none", "cache", "forbids"}   \* no profile, one that allows the request, one that does not
Requests == [host : Hosts \cup Addresses, method : {"GET", "POST", "malformed"}, cred : Creds, profile : Profiles]

VARIABLES
  cache,   \* profileCache, in the order of insertion
  dns,     \* DNS_CACHE: per host, an address ("private" for a refusal) and whether it has expired
  call     \* per call, where it waits and what it has

serveVars == <<cache, dns, call>>

Answers == [of : Requests, from : Addresses, ok : BOOLEAN, cached : BOOLEAN]
Error == [error |-> "upstream_error"]
Idle == [at |-> "idle", req |-> None, ip |-> None, answer |-> None]

ServeTypeOK ==
  /\ \A i \in DOMAIN cache : cache[i].value \in Answers /\ cache[i].fresh \in BOOLEAN
  /\ Len(cache) <= MaxCache
  /\ dns \in [Hosts -> [ip : Addresses, fresh : BOOLEAN] \cup {None}]
  /\ call \in [Calls -> [at : {"idle", "lookup", "fetch", "done"}, req : Requests \cup {None},
                         ip : Addresses \cup {None}, answer : Answers \cup {Error, None}]]

ServeInit ==
  /\ cache = <<>> /\ dns = [h \in Hosts |-> None] /\ call = [c \in Calls |-> Idle]
-----------------------------------------------------------------------------
\* generateDedupeKey: method, URL, semantic headers, body and profile hash.
DedupeKey(r) == <<r.host, r.method, r.profile>>

\* Mutant of ProfileCacheKey: the forwarded headers are not part of the key.
DedupeKeyOnly(r) == <<DedupeKey(r), CHOOSE c \in Creds : TRUE>>

\* profileCacheKey: every forwarded header counts.
ProfileCacheKey(r) == <<DedupeKey(r), r.cred>>

\* A profile always has a cache_ttl; only safe methods are cached.
Cacheable(r) == r.profile = "cache" /\ r.method = "GET"

\* prepareProxyProfileRequestV1 throws.
ProfileForbids(r) == r.profile = "forbids"

\* profileCache.get: the map has one entry for a key.
Cached(r) == Cacheable(r) /\ \E i \in DOMAIN cache : cache[i].key = ProfileCacheKey(r)
Place(r) == CHOOSE i \in DOMAIN cache : cache[i].key = ProfileCacheKey(r)
Entry(r) == cache[Place(r)]
Hit(r) == Cached(r) /\ Entry(r).fresh

\* cachedProfileResult deletes an expired entry that it meets.
Purged(r) == IF Cached(r) /\ ~Entry(r).fresh
             THEN SubSeq(cache, 1, Place(r) - 1) \o SubSeq(cache, Place(r) + 1, Len(cache))
             ELSE cache

\* Mutant of Stored: no entry goes at the limit.
StoredUnbounded(r, answer) == Append(cache, [key |-> ProfileCacheKey(r), value |-> answer, fresh |-> TRUE])

\* storeProfileResult: at the limit the oldest entry goes, whatever is stored; a key that is still
\* there keeps its place.
Stored(r, answer) ==
  LET entry == [key |-> ProfileCacheKey(r), value |-> answer, fresh |-> TRUE]
      room == IF Len(cache) >= MaxCache THEN Tail(cache) ELSE cache
  IN  IF \E i \in DOMAIN room : room[i].key = entry.key
      THEN [i \in DOMAIN room |-> IF room[i].key = entry.key THEN entry ELSE room[i]]
      ELSE Append(room, entry)

Finish(c, answer) == call' = [call EXCEPT ![c].at = "done", ![c].answer = answer]

\* The target has been checked: forbidden, or fetched from that address.
Checked(c, r, ip) ==
  call' = [call EXCEPT ![c] =
             IF ip = "private" THEN [Idle EXCEPT !.at = "done", !.req = r, !.answer = Error]
                               ELSE [Idle EXCEPT !.at = "fetch", !.req = r, !.ip = ip]]

\* serveProxyRequest up to its first wait: the profile cache, then a literal address or the DNS cache.
Begin(c, r) ==
  /\ call[c].at = "idle"
  /\ cache' = Purged(r)
  /\ UNCHANGED dns
  /\ \/ Hit(r) /\ call' = [call EXCEPT ![c] = [Idle EXCEPT !.at = "done", !.req = r,
                                                 !.answer = [Entry(r).value EXCEPT !.cached = TRUE]]]
     \/ ~Hit(r) /\ r.host \in Addresses /\ Checked(c, r, r.host)
     \/ /\ ~Hit(r) /\ r.host \in Hosts
        /\ IF dns[r.host] # None /\ dns[r.host].fresh
           THEN Checked(c, r, dns[r.host].ip)
           ELSE call' = [call EXCEPT ![c] = [Idle EXCEPT !.at = "lookup", !.req = r]]

\* DNS answers with some addresses, or fails: one private address forbids the host.
Resolved(c) ==
  /\ call[c].at = "lookup"
  /\ \E records \in SUBSET Addresses :
       LET ip == IF records = {"public"} THEN "public" ELSE "private" IN
       /\ dns' = [dns EXCEPT ![call[c].req.host] = [ip |-> ip, fresh |-> TRUE]]
       /\ Checked(c, call[c].req, ip)
  /\ UNCHANGED cache

\* The upstream answers; a redirect is an answer like any other.
Fetched(c) ==
  /\ call[c].at = "fetch"
  /\ \E ok \in BOOLEAN :
       LET r == call[c].req
           answer == [of |-> r, from |-> call[c].ip, ok |-> ok, cached |-> FALSE]
       IN  /\ Finish(c, answer)
           /\ cache' = IF Cacheable(r) /\ ok THEN Stored(r, answer) ELSE cache
  /\ UNCHANGED dns

\* The connection, the certificate or the timeout of the fetch.
FetchFailed(c) ==
  /\ call[c].at = "fetch"
  /\ Finish(c, Error)
  /\ UNCHANGED <<cache, dns>>

AgeCache ==
  /\ \E i \in DOMAIN cache : cache[i].fresh /\ cache' = [cache EXCEPT ![i].fresh = FALSE]
  /\ UNCHANGED <<dns, call>>

AgeDns ==
  /\ \E h \in Hosts : dns[h] # None /\ dns[h].fresh /\ dns' = [dns EXCEPT ![h].fresh = FALSE]
  /\ UNCHANGED <<cache, call>>

ServeStep(c) == Resolved(c) \/ Fetched(c) \/ FetchFailed(c)
=============================================================================
