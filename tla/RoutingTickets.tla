--------------------------- MODULE RoutingTickets ---------------------------
(***************************************************************************)
(* Routing tickets and their single use.  The orchestrator signs a ticket  *)
(* for one request and one node; the node checks the ticket's claims       *)
(* (verifyTicket, src/src/tickets/ticket.ts), recomputes the request's     *)
(* dedupe key and compares it with the ticket's subject, and last of all   *)
(* spends the ticket's jti (verifyRequestTicket, request-ticket.ts) in a   *)
(* bounded in-memory cache (JtiReplayCache, replay.ts).                    *)
(*                                                                         *)
(* The module is about one process and its cache: the control client has   *)
(* one (control-client.ts:54), shared by its connections, and the runtime  *)
(* server another (data-route.ts:42).  A restart empties the cache.        *)
(*                                                                         *)
(* Verification runs without interruption, but it reads the clock twice,   *)
(* once for the claims and once for the cache, and a second may pass in    *)
(* between.  Signatures, issuer, audience and scope are left out: a token  *)
(* that fails them changes nothing.  The code reads the wall clock; the    *)
(* model assumes that it is never set back while the process runs.         *)
(***************************************************************************)
EXTENDS Integers, FiniteSets

CONSTANTS
  Jtis,           \* ticket ids; the orchestrator issues each at most once
  Requests,       \* dedupe keys
  TTL,            \* DEFAULT_TTL_SEC
  Tolerance,      \* DEFAULT_CLOCK_TOLERANCE_SEC
  SweepInterval,  \* SWEEP_INTERVAL_SEC
  MaxEntries,     \* maxEntries of the cache
  Drift,          \* how far the orchestrator's clock may be off (a bound)
  Horizon,        \* last second (a bound)
  None            \* no ticket, no outcome

Claims == [iat : Int, exp : Int, sub : Requests]
Verdicts == {"expired", "mismatch", "replayed", "accepted"}

ASSUME JtisAssumption == IsFiniteSet(Jtis)
ASSUME ClockAssumption ==
  /\ {TTL, Tolerance, Drift, Horizon} \subseteq Nat
  /\ SweepInterval \in Nat \ {0}
ASSUME MaxEntriesAssumption == MaxEntries \in Nat \ {0}
ASSUME NoneAssumption == None \notin Claims \cup [verdict : Verdicts, jti : Jtis]

VARIABLES
  now,        \* the node's clock, in seconds
  ticket,     \* the claims signed for each jti
  seen,       \* the jtis in the cache
  older,      \* insertion order: <<a, b>> if a was inserted before b
  lastSweep,  \* when the cache was last swept
  outcome,    \* what the last step answered
  \* History.
  spent,      \* the jtis accepted since the process started
  evicted     \* the jtis whose last record was shed at capacity

caches == <<seen, older, lastSweep, spent, evicted>>
vars == <<now, ticket, caches, outcome>>

Issued(j) == ticket[j] # None

Answer(verdict, j) == [verdict |-> verdict, jti |-> j]
-----------------------------------------------------------------------------
\* lastSweep starts at 0, long before any real time: the first call sweeps.
Init ==
  /\ now = SweepInterval
  /\ ticket = [j \in Jtis |-> None]
  /\ seen = {}
  /\ older = {}
  /\ lastSweep = 0
  /\ outcome = None
  /\ spent = {}
  /\ evicted = {}

\* The orchestrator (issueTicket), by its own clock.
Issue(j, r, iat) ==
  /\ ~Issued(j)
  /\ ticket' = [ticket EXCEPT ![j] = [iat |-> iat, exp |-> iat + TTL, sub |-> r]]
  /\ outcome' = None
  /\ UNCHANGED <<now, caches>>

Tick ==
  /\ now < Horizon
  /\ now' = now + 1
  /\ outcome' = None
  /\ UNCHANGED <<ticket, caches>>

\* The process stops and is started again.
Restart ==
  /\ seen' = {}
  /\ older' = {}
  /\ lastSweep' = 0
  /\ spent' = {}
  /\ evicted' = {}
  /\ outcome' = None
  /\ UNCHANGED <<now, ticket>>
-----------------------------------------------------------------------------
\* verifyTicket returns the claims, at the clock's first reading.
InTime(j) ==
  /\ Issued(j)
  /\ now <= ticket[j].exp + Tolerance
  /\ ticket[j].iat <= now + Tolerance

\* The second reading of the clock: not before the first.
Readings == now..now + 1

SweepDue(t) == t >= lastSweep + SweepInterval

\* Mutant of Swept: drops what is about to expire as well.
SweptEarly(t) == IF SweepDue(t) THEN {j \in seen : ticket[j].exp <= t + 1} ELSE {}

Swept(t) == IF SweepDue(t) THEN {j \in seen : ticket[j].exp <= t} ELSE {}

\* Mutant of SweepClock: notes when the next sweep is due instead of this one's time.
SweepClockNext(t) ==
  lastSweep' = IF SweepDue(t) THEN t + SweepInterval ELSE lastSweep

\* The janitor part of consume, done on every call.
SweepClock(t) ==
  lastSweep' = IF SweepDue(t) THEN t ELSE lastSweep

\* Mutant of Shed: sheds only once the cache is past its bound.
ShedLate(held, gone) ==
  /\ gone \subseteq held
  /\ \A j \in gone, k \in held : <<k, j>> \in older => k \in gone
  /\ IF Cardinality(held) <= MaxEntries THEN gone = {}
                                        ELSE Cardinality(held \ gone) = MaxEntries

\* The eviction loop: entries are deleted oldest first until there is room for one.
Shed(held, gone) ==
  /\ gone \subseteq held
  /\ \A j \in gone, k \in held : <<k, j>> \in older => k \in gone
  /\ IF Cardinality(held) < MaxEntries THEN gone = {}
                                       ELSE Cardinality(held \ gone) = MaxEntries - 1

\* The entries a call of consume leaves, and their order.
Keep(held, j) ==
  /\ seen' = held \cup {j}
  /\ older' = {p \in older : p[1] \in held /\ p[2] \in held} \cup {<<k, j>> : k \in held \ {j}}

\* verifyTicket throws.
RefuseClaims(j) ==
  /\ Issued(j)
  /\ ~InTime(j)
  /\ outcome' = Answer("expired", j)
  /\ UNCHANGED <<now, ticket, caches>>

\* Mutant of RefuseBinding: the jti is spent before the request is compared.
RefuseBindingBurns(j, r) ==
  /\ InTime(j)
  /\ r # ticket[j].sub
  /\ outcome' = Answer("mismatch", j)
  /\ Keep(seen, j)
  /\ UNCHANGED <<now, ticket, lastSweep, spent, evicted>>

\* The request is not the one the ticket was issued for.
RefuseBinding(j, r) ==
  /\ InTime(j)
  /\ r # ticket[j].sub
  /\ outcome' = Answer("mismatch", j)
  /\ UNCHANGED <<now, ticket, caches>>

\* The request is the ticket's own, but consume returns false: the call still sweeps.
RefuseReplay(j, t) ==
  LET held == seen \ Swept(t) IN
  /\ InTime(j)
  /\ j \in held
  /\ now' = t
  /\ seen' = held
  /\ older' = {p \in older : p[1] \in held /\ p[2] \in held}
  /\ SweepClock(t)
  /\ outcome' = Answer("replayed", j)
  /\ UNCHANGED <<ticket, spent, evicted>>

\* The request is the ticket's own, consume returns true, and the request is served.
Accept(j, t, gone) ==
  LET held == seen \ Swept(t) IN
  /\ InTime(j)
  /\ j \notin held
  /\ Shed(held, gone)
  /\ now' = t
  /\ Keep(held \ gone, j)
  /\ SweepClock(t)
  /\ spent' = spent \cup {j}
  /\ evicted' = (evicted \cup gone) \ {j}
  /\ outcome' = Answer("accepted", j)
  /\ UNCHANGED ticket
-----------------------------------------------------------------------------
Present(j) ==
  \/ RefuseClaims(j)
  \/ \E r \in Requests : RefuseBinding(j, r)
  \/ \E t \in Readings : t <= Horizon /\ RefuseReplay(j, t)
  \/ \E t \in Readings, gone \in SUBSET Jtis : t <= Horizon /\ Accept(j, t, gone)

Next ==
  \/ \E j \in Jtis, r \in Requests, iat \in (now - Drift)..(now + Drift) : Issue(j, r, iat)
  \/ Tick
  \/ Restart
  \/ \E j \in Jtis : Present(j)

Spec == Init /\ [][Next]_vars
-----------------------------------------------------------------------------
Types ==
  /\ now \in Nat
  /\ ticket \in [Jtis -> Claims \cup {None}]
  /\ seen \subseteq {j \in Jtis : Issued(j)}
  /\ older \subseteq seen \X seen
  /\ lastSweep \in 0..now
  /\ spent \subseteq Jtis
  /\ evicted \subseteq Jtis
  /\ outcome = None \/ outcome \in [verdict : Verdicts, jti : Jtis]

Bounded == Cardinality(seen) <= MaxEntries

\* Every variable has its type: only issued tickets are held, only held ones have a
\* place in the order of eviction, and the last sweep does not lie in the future.  And
\* the cache never outgrows maxEntries, whether or not a sweep has run: what the
\* comment of replay.ts claims of the eviction loop.
TypeOK == Types /\ Bounded

\* A rejected request burns no ticket: whatever expired, mismatched or early requests
\* were presented, the cache holds only tickets that were accepted, and all of those
\* that have not expired or been shed.
OnlySpentAreHeld ==
  /\ seen \subseteq spent
  /\ \A j \in spent \ seen : j \in evicted \/ ticket[j].exp <= now

AcceptsOnce ==
  \A j \in Jtis :
    outcome' = Answer("accepted", j) /\ j \in spent =>
      j \in evicted \/ ticket[j].exp <= now'

\* How far single use goes: as long as a process runs, and its clock is not set back,
\* it accepts a ticket a second time only if the ticket's record was shed at capacity,
\* or from the ticket's expiry on (the few seconds of tolerance in which an expired
\* ticket still passes).
SingleUse == [][AcceptsOnce]_vars
=============================================================================
