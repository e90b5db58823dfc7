------------------------ MODULE RoutingTicketsProofs ------------------------
(***************************************************************************)
(* Proofs about RoutingTickets, for every finite set of tickets and every  *)
(* choice of the time to live, the tolerance, the sweep interval and the   *)
(* capacity.                                                               *)
(*                                                                         *)
(* SingleUse follows from OnlySpentAreHeld, which is inductive once it is  *)
(* known that only issued tickets are spent: a sweep drops a record only   *)
(* from its expiry on, and the clock is assumed not to go back.            *)
(***************************************************************************)
EXTENDS RoutingTickets, TLAPS, FiniteSetTheorems

\* Every step keeps the types.
LEMMA TypeStep == Types /\ [Next]_vars => Types'
  <1> SUFFICES ASSUME Types, [Next]_vars PROVE Types'
    OBVIOUS
  <1> USE ClockAssumption, NoneAssumption DEF Types, Verdicts, Answer, Claims
  <1>1. ASSUME NEW j \in Jtis, NEW r \in Requests, NEW iat \in (now - Drift)..(now + Drift),
               Issue(j, r, iat)
        PROVE  Types'
    <2>1. iat \in Int /\ iat + TTL \in Int
      OBVIOUS
    <2>2. ticket' = [ticket EXCEPT ![j] = [iat |-> iat, exp |-> iat + TTL, sub |-> r]]
      BY <1>1 DEF Issue
    <2>3. [iat |-> iat, exp |-> iat + TTL, sub |-> r] \in Claims
      BY <2>1 DEF Claims
    <2>4. ticket' \in [Jtis -> Claims \cup {None}] /\ ticket'[j] # None
      BY <2>2, <2>3 DEF Claims
    <2>5. seen \subseteq {k \in Jtis : ticket'[k] # None}
      BY <2>2, <2>4 DEF Issued
    <2> QED
      BY <1>1, <2>4, <2>5 DEF Issue, caches, Issued
  <1>2. CASE Tick
    BY <1>2 DEF Tick, caches, Issued
  <1>3. CASE Restart
    BY <1>3 DEF Restart
  <1>4. ASSUME NEW j \in Jtis, RefuseClaims(j) PROVE Types'
    BY <1>4 DEF RefuseClaims, caches, Issued
  <1>5. ASSUME NEW j \in Jtis, NEW r \in Requests, RefuseBinding(j, r) PROVE Types'
    BY <1>5 DEF RefuseBinding, caches, Issued
  <1>6. ASSUME NEW j \in Jtis, NEW t \in Readings, RefuseReplay(j, t) PROVE Types'
    <2>1. t \in Nat /\ t >= now
      BY DEF Readings
    <2> QED
      BY <1>6, <2>1 DEF RefuseReplay, SweepClock, Issued
  <1>7. ASSUME NEW j \in Jtis, NEW t \in Readings, NEW gone \in SUBSET Jtis, Accept(j, t, gone)
        PROVE  Types'
    <2>1. t \in Nat /\ t >= now
      BY DEF Readings
    <2> QED
      BY <1>7, <2>1 DEF Accept, SweepClock, Keep, InTime, Issued
  <1>8. CASE UNCHANGED vars
    BY <1>8 DEF vars, caches, Issued
  <1> QED
    BY <1>1, <1>2, <1>3, <1>4, <1>5, <1>6, <1>7, <1>8 DEF Next, Present

\* In every reachable state the cache holds issued tickets only, the order of eviction
\* ranks held tickets only, and the last sweep does not lie in the future.
LEMMA TypesCorrect == Spec => []Types
  <1>1. Init => Types
    BY ClockAssumption DEF Init, Types, Issued
  <1> QED
    BY <1>1, TypeStep, PTL DEF Spec

\* In every reachable state the cache is within its bound: the eviction loop alone
\* enforces it, no sweep is needed.
LEMMA CacheBounded == Spec => []Bounded
  <1>1. Init => Bounded
    BY FS_EmptySet, MaxEntriesAssumption DEF Init, Bounded
  <1>2. Types /\ Bounded /\ [Next]_vars => Bounded'
    <2> SUFFICES ASSUME Types, Bounded, [Next]_vars PROVE Bounded'
      OBVIOUS
    <2> USE MaxEntriesAssumption
    <2>1. IsFiniteSet(seen) /\ Cardinality(seen) \in Nat
      BY JtisAssumption, FS_Subset, FS_CardinalityType DEF Types
    <2>2. CASE Restart
      BY <2>2, FS_EmptySet DEF Restart, Bounded
    <2>3. ASSUME NEW j \in Jtis, NEW t \in Readings, RefuseReplay(j, t) PROVE Bounded'
      <3>1. seen' \in SUBSET seen
        BY <2>3 DEF RefuseReplay
      <3>2. Cardinality(seen') <= Cardinality(seen) /\ Cardinality(seen') \in Nat
        BY <2>1, <3>1, FS_Subset, FS_CardinalityType
      <3> QED
        BY <2>1, <3>2 DEF Bounded
    <2>4. ASSUME NEW j \in Jtis, NEW t \in Readings, NEW gone \in SUBSET Jtis, Accept(j, t, gone)
          PROVE  Bounded'
      <3> DEFINE held == seen \ Swept(t)
                 kept == held \ gone
      <3>1. IsFiniteSet(held) /\ Cardinality(held) \in Nat
        BY <2>1, FS_Subset, FS_CardinalityType
      <3>2. IsFiniteSet(kept) /\ Cardinality(kept) \in Nat
        BY <3>1, FS_Subset, FS_CardinalityType
      <3>3. Shed(held, gone) /\ seen' = kept \cup {j}
        BY <2>4 DEF Accept, Keep
      <3> HIDE DEF held
      <3>4. Cardinality(kept) < MaxEntries
        <4>1. CASE Cardinality(held) < MaxEntries
          <5>1. kept = held
            BY <3>3, <4>1 DEF Shed
          <5> QED
            BY <4>1, <5>1
        <4>2. CASE ~(Cardinality(held) < MaxEntries)
          <5>1. Cardinality(kept) = MaxEntries - 1
            BY <3>3, <4>2 DEF Shed
          <5> QED
            BY <5>1
        <4> QED
          BY <4>1, <4>2
      <3> HIDE DEF kept
      <3>5. Cardinality(kept \cup {j}) <= Cardinality(kept) + 1
        <4>1. Cardinality(kept \cup {j}) =
                IF j \in kept THEN Cardinality(kept) ELSE Cardinality(kept) + 1
          BY <3>2, FS_AddElement
        <4> QED
          BY <3>2, <4>1
      <3>6. Cardinality(kept \cup {j}) \in Nat
        BY <3>2, FS_AddElement, FS_CardinalityType
      <3> QED
        BY <3>2, <3>3, <3>4, <3>5, <3>6 DEF Bounded
    <2>5. ASSUME UNCHANGED seen PROVE Bounded'
      BY <2>5 DEF Bounded
    <2> QED
      BY <2>2, <2>3, <2>4, <2>5 DEF Next, Present, Issue, Tick, RefuseClaims, RefuseBinding,
         vars, caches
  <1> QED
    BY <1>1, <1>2, TypesCorrect, PTL DEF Spec

\* In every reachable state the cache holds issued tickets only and no more than
\* maxEntries of them, for any bound and sweep interval, and its bookkeeping of order
\* and sweeps is of held tickets and past seconds (JtiReplayCache).
THEOREM TypeCorrect == Spec => []TypeOK
  BY TypesCorrect, CacheBounded, PTL DEF TypeOK

-----------------------------------------------------------------------------
IInv == Types /\ OnlySpentAreHeld /\ \A j \in spent : Issued(j)

\* Every step keeps IInv: one case per action.
LEMMA SpentStep == IInv /\ [Next]_vars => IInv'
  <1> SUFFICES ASSUME IInv, [Next]_vars
               PROVE  OnlySpentAreHeld' /\ \A j \in spent' : ticket'[j] # None
    BY TypeStep DEF IInv, Issued
  <1> USE ClockAssumption DEF IInv, OnlySpentAreHeld, Issued
  <1>1. now \in Nat /\ spent \subseteq Jtis /\ \A j \in spent : ticket[j].exp \in Int
    BY DEF Types, Claims
  <1>2. ASSUME NEW j \in Jtis, NEW r \in Requests, NEW iat \in (now - Drift)..(now + Drift),
               Issue(j, r, iat)
        PROVE  OnlySpentAreHeld' /\ \A k \in spent' : ticket'[k] # None
    <2>1. j \notin spent /\ UNCHANGED <<now, seen, spent, evicted>>
      BY <1>2 DEF Issue, caches
    <2>2. \A k \in Jtis \ {j} : ticket'[k] = ticket[k]
      BY <1>2 DEF Issue, Types
    <2> QED
      BY <1>1, <2>1, <2>2
  <1>3. CASE Tick
    BY <1>1, <1>3 DEF Tick, caches
  <1>4. CASE Restart
    BY <1>4 DEF Restart
  <1>5. ASSUME NEW j \in Jtis, NEW t \in Readings, RefuseReplay(j, t)
        PROVE  OnlySpentAreHeld' /\ \A k \in spent' : ticket'[k] # None
    BY <1>1, <1>5 DEF RefuseReplay, Readings, Swept
  <1>6. ASSUME NEW j \in Jtis, NEW t \in Readings, NEW gone \in SUBSET Jtis, Accept(j, t, gone)
        PROVE  OnlySpentAreHeld' /\ \A k \in spent' : ticket'[k] # None
    <2>1. /\ t \in Nat /\ now <= t /\ now' = t
          /\ ticket' = ticket /\ ticket[j] # None
          /\ seen' = ((seen \ Swept(t)) \ gone) \cup {j}
          /\ spent' = spent \cup {j}
          /\ evicted' = (evicted \cup gone) \ {j}
      BY <1>1, <1>6 DEF Accept, Keep, InTime, Readings
    <2>2. \A k \in Swept(t) : k \in seen /\ ticket[k].exp <= t
      BY DEF Swept
    <2> QED
      BY <1>1, <2>1, <2>2
  <1>7. ASSUME UNCHANGED <<now, ticket, seen, spent, evicted>>
        PROVE  OnlySpentAreHeld' /\ \A k \in spent' : ticket'[k] # None
    BY <1>7
  <1> QED
    BY <1>2, <1>3, <1>4, <1>5, <1>6, <1>7 DEF Next, Present, RefuseClaims, RefuseBinding,
       vars, caches

\* In every reachable state the cache holds only tickets that were accepted, and every
\* accepted one that has neither expired nor been shed.
THEOREM NothingBurnt == Spec => []IInv
  <1>1. Init => IInv
    BY ClockAssumption DEF Init, IInv, Types, OnlySpentAreHeld, Issued
  <1> QED
    BY <1>1, SpentStep, PTL DEF Spec

\* The invariant of the run: OnlySpentAreHeld in every reachable state.
THEOREM HeldExactly == Spec => []OnlySpentAreHeld
  BY NothingBurnt, PTL DEF IInv

\* A running process whose clock is not set back accepts a ticket again only after
\* shedding its record at capacity or from the ticket's expiry on.
THEOREM SingleUseCorrect == Spec => SingleUse
  <1>1. IInv /\ [Next]_vars => [AcceptsOnce]_vars
    <2> SUFFICES ASSUME IInv, Next, NEW j \in Jtis, outcome' = Answer("accepted", j), j \in spent
                 PROVE  j \in evicted \/ ticket[j].exp <= now'
      BY DEF AcceptsOnce
    <2> USE NoneAssumption DEF Answer, Verdicts
    <2>1. PICK t \in Readings, gone \in SUBSET Jtis : Accept(j, t, gone)
      <3>1. outcome' # None
        OBVIOUS
      <3>2. \E k \in Jtis : Present(k)
        BY <3>1 DEF Next, Issue, Tick, Restart
      <3>3. PICK k \in Jtis : Present(k)
        BY <3>2
      <3>4. ~RefuseClaims(k) /\ \A r \in Requests : ~RefuseBinding(k, r)
        BY DEF RefuseClaims, RefuseBinding
      <3>5. \A t \in Readings : ~RefuseReplay(k, t)
        BY DEF RefuseReplay
      <3>6. PICK t \in Readings, gone \in SUBSET Jtis : Accept(k, t, gone)
        BY <3>3, <3>4, <3>5 DEF Present
      <3>7. k = j
        BY <3>6 DEF Accept
      <3> QED
        BY <3>6, <3>7
    <2>2. now \in Nat /\ t \in Nat /\ now <= t /\ now' = t /\ ticket[j].exp \in Int
      BY <2>1 DEF Accept, Readings, IInv, Types, Claims, Issued
    <2>3. CASE j \in seen
      BY <2>1, <2>2, <2>3 DEF Accept, Swept
    <2>4. CASE j \notin seen
      BY <2>2, <2>4 DEF IInv, OnlySpentAreHeld
    <2> QED
      BY <2>3, <2>4
  <1> QED
    BY <1>1, NothingBurnt, PTL DEF Spec, SingleUse
=============================================================================
