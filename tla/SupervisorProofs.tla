-------------------------- MODULE SupervisorProofs --------------------------
(***************************************************************************)
(* Proofs about Supervisor, for any number of children, any signals and    *)
(* any grace period.                                                       *)
(*                                                                         *)
(* That nothing is left behind needs only that each call of shutdown waits *)
(* for every child whose end is not known.  That the unit ends in time     *)
(* needs to say why there is always a timer that is old enough, or nothing *)
(* left but deaths already decided (OnTime).                               *)
(***************************************************************************)
EXTENDS Supervisor, TLAPS

Waiting(w) == shutdowns[w].phase = "waiting"

\* The parts of the inductive invariant.

\* Nothing has begun before main listens; main's shutdown goes with the first end that was
\* seen, onSignal's with the signal.
Stages ==
  /\ unit = "boot" => \A c \in Children : tree[c] = "absent"
  /\ unit = "started" => \A c \in Children : tree[c] # "absent"
  /\ unit \in {"boot", "started"} => first = None /\ signalled = None
  /\ first = None <=> shutdowns["main"].phase = "idle"
  /\ signalled = None <=> shutdowns["onSignal"].phase = "idle"
  /\ unit = "up" => shutdowns["main"].phase # "done"
  /\ \A c \in Children : exitKnown[c] => first # None

\* A known end is an end, and no child was signalled other than by its group.
Endings ==
  \A c \in Children : /\ ~killed[c] /\ tree[c] # "orphaned"
                      /\ exitKnown[c] => tree[c] \in {"dead", "absent"}

\* A waiting shutdown waits for exactly the ends that are not known, and for children
\* that were never spawned.
Waits ==
  \A w \in Callers : Waiting(w) =>
    /\ shutdowns[w].waits # {}
    /\ \A c \in Children : ~exitKnown[c] => c \in shutdowns[w].waits
    /\ \A c \in shutdowns[w].waits : ~exitKnown[c] \/ tree[c] = "absent"

\* Until a signal is taken, only main sends SIGTERM, and not to the child that ended first.
Unsignalled ==
  signalled = None => (first = None => termed = {}) /\ first \notin termed

\* A child still running during a shutdown has had SIGTERM for as long as the timer runs.
Aged ==
  \A w \in Callers : Waiting(w) =>
    \A c \in Children : tree[c] = "running" => c \in termed /\ age[c] + shutdowns[w].left >= Grace

\* A timer is at most as old as the teardown, and spawn errors come before any tick.
Timers ==
  /\ ~Began => elapsed = 0
  /\ \A w \in Callers : Waiting(w) => shutdowns[w].left + elapsed >= Grace
  /\ unit = "up" => \A c \in Children :
       /\ tree[c] = "failed" => elapsed = 0
       /\ tree[c] = "absent" => Waiting("main") /\ elapsed + shutdowns["main"].left = Grace

\* All that is left is the news of deaths already decided.
Drained ==
  /\ elapsed <= Grace
  /\ \A c \in Children : tree[c] \in {"dying", "dead"}
  /\ \E c \in Children : ~exitKnown[c]

OnTime ==
  unit = "up" /\ Began =>
    \/ \E w \in Callers : Waiting(w) /\ elapsed + shutdowns[w].left <= Grace
    \/ Drained

Inv == Stages /\ Endings /\ Waits /\ Aged /\ Timers /\ OnTime
-----------------------------------------------------------------------------
Shutdown == [phase : {"idle", "waiting", "done"}, waits : SUBSET Children, left : 0..Grace]

\* What beginning a shutdown and resolving one of its waits yields.
LEMMA ShutdownTypes ==
  /\ Idle \in Shutdown /\ Finished \in Shutdown
  /\ \A S \in SUBSET Children : Begin(S) \in Shutdown
  /\ \A c \in Children, s \in Shutdown : Resolve(c, s) \in Shutdown
  <1> USE GraceAssumption DEF Shutdown
  <1>1. Idle \in Shutdown /\ Finished \in Shutdown
    BY DEF Idle, Finished
  <1>2. \A S \in SUBSET Children : Begin(S) \in Shutdown
    BY <1>1 DEF Begin
  <1>3. \A c \in Children, s \in Shutdown : Resolve(c, s) \in Shutdown
    BY <1>1 DEF Resolve
  <1> QED
    BY <1>1, <1>2, <1>3

\* The first end, and those after it, keep types and codes in order.
LEMMA EndsStep ==
  ASSUME TypeOK, Unsignalled, OwnCode, NEW c \in Children, unit = "up",
         NEW known \in [Children -> BOOLEAN], NEW resolved \in [Callers -> Shutdown],
         Ends(c, known, resolved), known[c] \/ tree[c] = "failed",
         signalled' = signalled
  PROVE  /\ exitKnown' \in [Children -> BOOLEAN] /\ killed' \in [Children -> BOOLEAN]
         /\ first' \in Children /\ termed' \subseteq Children
         /\ unit' \in {"up", "exited"} /\ code' \in Children \cup Signals \cup {None, "noRelease"}
         /\ shutdowns' \in [Callers -> Shutdown]
         /\ Unsignalled' /\ OwnCode'
  <1> USE ChildrenAssumption, NoneAssumption DEF TypeOK
  <1> DEFINE main == IF first = None THEN Begin(StillRunning(known)) ELSE resolved["main"]
  <1>1. StillRunning(known) \subseteq Children
    BY DEF StillRunning
  <1>2. main \in Shutdown
    BY <1>1, ShutdownTypes DEF Callers
  <1>3. shutdowns' = [resolved EXCEPT !["main"] = main]
    BY DEF Ends
  <1>4. shutdowns' \in [Callers -> Shutdown]
    BY <1>2, <1>3
  <1>5. first' \in Children /\ exitKnown' = known
    BY DEF Ends
  <1>6. /\ killed' \in [Children -> BOOLEAN] /\ termed' \subseteq Children
        /\ first # None => termed' = termed
        /\ first = None => c \notin termed' \/ c \in termed
    BY <1>1 DEF Ends, Terminate, StillRunning
  <1>7. \/ UNCHANGED <<unit, code>>
        \/ unit' = "exited" /\ code' = IF signalled # None THEN signalled ELSE first'
    BY DEF Ends, Conclude
  <1>8. Unsignalled'
    BY <1>5, <1>6 DEF Unsignalled, Ends
  <1>9. OwnCode'
    BY <1>5, <1>6, <1>7, <1>8 DEF Unsignalled, OwnCode
  <1> QED
    BY <1>4, <1>5, <1>6, <1>7, <1>8, <1>9

\* Types, and the exit code, on every platform.
LEMMA BaseStep ==
  TypeOK /\ Unsignalled /\ OwnCode /\ [Next]_vars => TypeOK' /\ Unsignalled' /\ OwnCode'
  <1> SUFFICES ASSUME TypeOK, Unsignalled, OwnCode, [Next]_vars
               PROVE  TypeOK' /\ Unsignalled' /\ OwnCode'
    OBVIOUS
  <1> USE GraceAssumption, NoneAssumption, ChildrenAssumption
  <1>0. shutdowns \in [Callers -> Shutdown]
    BY DEF TypeOK, Shutdown
  <1>1. CASE NoRelease
    BY <1>1 DEF NoRelease, TypeOK, Unsignalled, OwnCode
  <1>2. CASE Start
    BY <1>2 DEF Start, TypeOK, Unsignalled, OwnCode
  <1>3. CASE Listen
    BY <1>3 DEF Listen, TypeOK, Unsignalled, OwnCode
  <1>4. CASE Elapse
    <2>1. \A w \in Callers : shutdowns[w].phase = "waiting" => shutdowns[w].left # 0
      BY <1>4 DEF Elapse, Urgent
    <2>2. shutdowns' \in [Callers -> Shutdown]
      <3>1. ASSUME NEW s \in Shutdown, s.left # 0 PROVE [s EXCEPT !.left = @ - 1] \in Shutdown
        BY <3>1 DEF Shutdown
      <3> QED
        BY <1>0, <1>4, <2>1, <3>1 DEF Elapse
    <2>3. age' \in [Children -> 0..Grace] /\ elapsed' \in 0..Grace + 1
      BY <1>4 DEF Elapse, TypeOK
    <2> QED
      BY <1>4, <2>2, <2>3 DEF Elapse, TypeOK, Shutdown, Unsignalled, OwnCode
  <1>5. ASSUME NEW s \in Signals, OnSignal(s) PROVE TypeOK' /\ Unsignalled' /\ OwnCode'
    <2>1. Begin(StillRunning(exitKnown)) \in Shutdown
      BY ShutdownTypes DEF StillRunning
    <2>2. shutdowns' \in [Callers -> Shutdown]
      BY <1>0, <1>5, <2>1 DEF OnSignal
    <2>3. /\ signalled' \in Signals /\ termed' \subseteq Children
          /\ killed' \in [Children -> BOOLEAN]
      BY <1>5 DEF OnSignal, Terminate, StillRunning, TypeOK
    <2>4. /\ unit' = "up" /\ UNCHANGED <<code, tree, exitKnown, first, age, elapsed>>
          /\ listening' \subseteq Signals
      BY <1>5 DEF OnSignal, TypeOK
    <2> QED
      BY <2>2, <2>3, <2>4 DEF TypeOK, Shutdown, Unsignalled, OwnCode
  <1>6. ASSUME NEW s \in Signals, DefaultSignal(s) PROVE TypeOK' /\ Unsignalled' /\ OwnCode'
    BY <1>6 DEF DefaultSignal, TypeOK, Unsignalled, OwnCode
  <1>7. ASSUME NEW c \in Children, ChildEnds(c) PROVE TypeOK' /\ Unsignalled' /\ OwnCode'
    BY <1>7 DEF ChildEnds, TypeOK, Unsignalled, OwnCode
  <1>8. ASSUME NEW c \in Children, ExitEvent(c) PROVE TypeOK' /\ Unsignalled' /\ OwnCode'
    <2> DEFINE known == [exitKnown EXCEPT ![c] = TRUE]
               resolved == [w \in Callers |-> Resolve(c, shutdowns[w])]
    <2>1. known \in [Children -> BOOLEAN] /\ known[c]
      BY DEF TypeOK
    <2>2. resolved \in [Callers -> Shutdown]
      BY <1>0, ShutdownTypes
    <2>3. /\ unit = "up" /\ Ends(c, known, resolved)
          /\ UNCHANGED <<tree, signalled, listening, age, elapsed>>
      BY <1>8 DEF ExitEvent
    <2> HIDE DEF known, resolved
    <2> QED
      BY <2>1, <2>2, <2>3, EndsStep DEF TypeOK, Shutdown
  <1>9. ASSUME NEW c \in Children, SpawnError(c) PROVE TypeOK' /\ Unsignalled' /\ OwnCode'
    <2>1. PICK known \in {exitKnown, [exitKnown EXCEPT ![c] = TRUE]} : Ends(c, known, shutdowns)
      BY <1>9 DEF SpawnError
    <2>2. known \in [Children -> BOOLEAN]
      BY <2>1 DEF TypeOK
    <2>3. /\ unit = "up" /\ tree[c] = "failed" /\ tree' = [tree EXCEPT ![c] = "absent"]
          /\ UNCHANGED <<signalled, listening, age, elapsed>>
      BY <1>9 DEF SpawnError
    <2> QED
      BY <1>0, <2>1, <2>2, <2>3, EndsStep DEF TypeOK, Shutdown
  <1>10. ASSUME NEW w \in Callers, Timeout(w) PROVE TypeOK' /\ Unsignalled' /\ OwnCode'
    <2>1. shutdowns' \in [Callers -> Shutdown]
      BY <1>0, <1>10, ShutdownTypes DEF Timeout
    <2>2. /\ tree' \in [Children -> {"absent", "failed", "running", "dying", "dead", "orphaned"}]
          /\ killed' \in [Children -> BOOLEAN]
      BY <1>10 DEF Timeout, Kill, TypeOK
    <2>3. \/ UNCHANGED <<unit, code>>
          \/ unit' = "exited" /\ code' = IF signalled # None THEN signalled ELSE first
      BY <1>10 DEF Timeout, Conclude
    <2>4. UNCHANGED <<exitKnown, first, signalled, listening, termed, age, elapsed>>
      BY <1>10 DEF Timeout
    <2>5. Unsignalled'
      BY <2>4 DEF Unsignalled
    <2>6. OwnCode'
      BY <2>3, <2>4 DEF Unsignalled, OwnCode, TypeOK
    <2> QED
      BY <2>1, <2>2, <2>3, <2>4, <2>5, <2>6 DEF TypeOK, Shutdown
  <1>11. CASE UNCHANGED vars
    BY <1>11 DEF vars, TypeOK, Unsignalled, OwnCode
  <1> QED
    BY <1>1, <1>2, <1>3, <1>4, <1>5, <1>6, <1>7, <1>8, <1>9, <1>10, <1>11 DEF Next

\* In every reachable state every variable has its type and no timer is below zero.
THEOREM TypeCorrect == Safety => []TypeOK
  <1>1. Init => TypeOK /\ Unsignalled /\ OwnCode
    BY GraceAssumption, NoneAssumption, ChildrenAssumption, ShutdownTypes
       DEF Init, TypeOK, Idle, Unsignalled, OwnCode
  <1> QED
    BY <1>1, BaseStep, PTL DEF Safety

\* A unit that was not signalled exits with the code of a child it had not signalled,
\* whether process groups can be signalled or not.
THEOREM FirstChildsCode == Safety => []OwnCode
  <1>1. Init => TypeOK /\ Unsignalled /\ OwnCode
    BY GraceAssumption, NoneAssumption, ChildrenAssumption, ShutdownTypes
       DEF Init, TypeOK, Idle, Unsignalled, OwnCode
  <1> QED
    BY <1>1, BaseStep, PTL DEF Safety
-----------------------------------------------------------------------------
\* The steps that only move unit and trees.
LEMMA QuietSteps ==
  ASSUME TypeOK, Inv,
         \/ NoRelease \/ Start \/ Listen
         \/ \E s \in Signals : DefaultSignal(s)
         \/ \E c \in Children : ChildEnds(c)
         \/ UNCHANGED vars
  PROVE  Inv'
  <1> USE DEF Inv, Stages, Endings, Waits, Aged, Timers, OnTime, Waiting, Began, Drained
  <1>1. CASE NoRelease
    BY <1>1 DEF NoRelease, Callers
  <1>2. CASE Start
    BY <1>2 DEF Start, Callers, TypeOK
  <1>3. CASE Listen
    BY <1>3 DEF Listen, Callers
  <1>4. ASSUME NEW s \in Signals, DefaultSignal(s) PROVE Inv'
    BY <1>4 DEF DefaultSignal, Callers
  <1>5. ASSUME NEW c \in Children, ChildEnds(c) PROVE Inv'
    BY <1>5 DEF ChildEnds, Alive, TypeOK
  <1>6. CASE UNCHANGED vars
    BY <1>6 DEF vars
  <1> QED
    BY <1>1, <1>2, <1>3, <1>4, <1>5, <1>6

\* Time goes on only while some timer is left that is old enough.
LEMMA ElapseStep == TypeOK /\ Inv /\ Elapse => Inv'
  <1> SUFFICES ASSUME TypeOK, Inv, Elapse PROVE Inv'
    OBVIOUS
  <1> USE GraceAssumption
  <1>1. /\ unit = "up" /\ Began /\ ~Urgent
        /\ UNCHANGED <<unit, code, tree, exitKnown, killed, first, signalled, listening, termed>>
    BY DEF Elapse
  <1>2. \A w \in Callers : /\ shutdowns'[w].phase = shutdowns[w].phase
                           /\ shutdowns'[w].waits = shutdowns[w].waits
                           /\ Waiting(w) => /\ shutdowns[w].left # 0
                                            /\ shutdowns'[w].left = shutdowns[w].left - 1
    BY <1>1 DEF Elapse, TypeOK, Waiting, Urgent
  <1>3. \E w \in Callers : Waiting(w) /\ elapsed + shutdowns[w].left <= Grace
    BY <1>1 DEF Inv, OnTime, Drained, Urgent, TypeOK
  <1>4. elapsed \in Nat /\ \A w \in Callers : shutdowns[w].left \in Nat
    BY DEF TypeOK
  <1>5. elapsed < Grace /\ elapsed' = elapsed + 1
    BY <1>2, <1>3, <1>4 DEF Elapse
  <1>6. Stages' /\ Endings' /\ Waits'
    BY <1>1, <1>2 DEF Inv, Stages, Endings, Waits, Waiting, Callers
  <1>7. Aged'
    <2> SUFFICES ASSUME NEW w \in Callers, Waiting(w), NEW c \in Children, tree[c] = "running"
                 PROVE  c \in termed /\ age'[c] + shutdowns'[w].left >= Grace
      BY <1>1, <1>2 DEF Aged, Waiting
    <2>1. c \in termed /\ age[c] + shutdowns[w].left >= Grace /\ age[c] \in 0..Grace
      BY DEF Inv, Aged, TypeOK
    <2>2. age'[c] = IF age[c] < Grace THEN age[c] + 1 ELSE age[c]
      BY <2>1 DEF Elapse, TypeOK
    <2> QED
      BY <1>2, <1>4, <2>1, <2>2
  <1>8. Timers'
    <2>1. \A c \in Children : tree[c] # "failed"
      BY <1>1 DEF Urgent
    <2>2. Began'
      BY <1>1, <1>2 DEF Began
    <2> QED
      BY <1>1, <1>2, <1>4, <1>5, <2>1, <2>2 DEF Inv, Timers, Waiting, Callers
  <1>9. OnTime'
    BY <1>2, <1>3, <1>4, <1>5 DEF OnTime, Waiting
  <1> QED
    BY <1>6, <1>7, <1>8, <1>9 DEF Inv

\* A signal: a first one starts a shutdown for all whose end is not known.
LEMMA OnSignalStep ==
  ASSUME GroupKill, TypeOK, Inv, NEW s \in Signals, OnSignal(s) PROVE Inv'
  <1> USE GraceAssumption, NoneAssumption
  <1>1. /\ unit = "up" /\ UNCHANGED <<unit, code, tree, exitKnown, first, age, elapsed>>
    BY DEF OnSignal
  <1>2. CASE signalled # None
    BY <1>1, <1>2 DEF OnSignal, Inv, Stages, Endings, Waits, Aged, Timers, OnTime, Waiting, Began,
                      Drained
  <1>3. CASE signalled = None
    <2> DEFINE S == StillRunning(exitKnown)
    <2>1. S = {c \in Children : ~exitKnown[c]}
      BY DEF StillRunning, Inv, Endings, TypeOK
    <2>2. /\ signalled' = s
          /\ termed' = termed \cup {c \in S : tree[c] \notin {"absent", "failed"}}
          /\ shutdowns' = [shutdowns EXCEPT !["onSignal"] = Begin(S)]
      BY <1>3 DEF OnSignal, Terminate
    <2>3. \A c \in Children : ~killed'[c]
      BY <1>3 DEF OnSignal, Terminate, Inv, Endings, TypeOK
    <2>4. /\ shutdowns'["main"] = shutdowns["main"]
          /\ shutdowns'["onSignal"] = Begin(S)
      BY <2>2 DEF Callers, TypeOK
    <2>5. /\ S = {} => Begin(S) = Finished /\ Begin(S).phase = "done"
          /\ S # {} => Begin(S).phase = "waiting" /\ Begin(S).waits = S /\ Begin(S).left = Grace
      BY DEF Begin, Finished
    <2> HIDE DEF S
    <2>6. Stages'
      BY <1>1, <2>2, <2>4, <2>5 DEF Inv, Stages
    <2>7. Endings'
      BY <1>1, <2>3 DEF Inv, Endings, TypeOK
    <2>8. Waits'
      BY <1>1, <2>1, <2>4, <2>5 DEF Inv, Waits, Waiting, Callers
    <2>9. Aged'
      <3>1. \A c \in Children : tree[c] = "running" => c \in S
        BY <2>1 DEF Inv, Endings, TypeOK
      <3> QED
        BY <1>1, <2>2, <2>4, <2>5, <3>1 DEF Inv, Aged, Waiting, Callers, TypeOK
    <2>10. Timers'
      <3>1. Began'
        BY <2>4, <2>5 DEF Began, Callers
      <3> QED
        BY <1>1, <2>4, <2>5, <3>1 DEF Inv, Timers, Waiting, Callers, TypeOK
    <2>11. OnTime'
      <3>1. CASE Began
        <4>1. shutdowns["onSignal"].phase = "idle"
          BY <1>3 DEF Inv, Stages
        <4> QED
          BY <1>1, <2>4, <3>1, <4>1 DEF Inv, OnTime, Drained, Waiting, Callers
      <3>2. CASE ~Began
        <4>1. elapsed = 0 /\ first = None
          BY <3>2 DEF Inv, Timers, Stages, Began, Callers
        <4>2. S # {}
          BY <2>1, <4>1, ChildrenAssumption DEF Inv, Stages
        <4> QED
          BY <1>1, <2>4, <2>5, <4>1, <4>2 DEF OnTime, Waiting, Callers
      <3> QED
        BY <3>1, <3>2
    <2> QED
      BY <2>6, <2>7, <2>8, <2>9, <2>10, <2>11 DEF Inv
  <1> QED
    BY <1>2, <1>3

\* The end of a child as main and the two shutdowns see it.
LEMMA EndsEffect ==
  ASSUME GroupKill, TypeOK, Inv, NEW c \in Children, unit = "up",
         NEW known \in [Children -> BOOLEAN], NEW resolved \in [Callers -> Shutdown],
         Ends(c, known, resolved), \A d \in Children : exitKnown[d] => known[d]
  PROVE  LET K == {d \in Children : ~known[d]}
             main == shutdowns'["main"]
         IN  /\ exitKnown' = known /\ first' \in Children
             /\ first # None => first' = first /\ termed' = termed
             /\ \A d \in Children : ~killed'[d]
             /\ shutdowns'["onSignal"] = resolved["onSignal"]
             /\ first # None => main = resolved["main"]
             /\ first = None /\ K = {} => main = Finished
             /\ first = None /\ K # {} =>
                  main.phase = "waiting" /\ main.waits = K /\ main.left = Grace
             /\ first = None =>
                  \A d \in Children : d \in termed \/ (d \in K /\ tree[d] = "running")
                                        => d \in termed'
             /\ termed \subseteq termed'
             /\ main.phase # "done" => unit' = "up"
             /\ main.phase = "done" => unit' = "exited"
  <1> USE NoneAssumption
  <1> DEFINE S == StillRunning(known)
  <1>1. S = {d \in Children : ~known[d]}
    BY DEF StillRunning, Inv, Endings, TypeOK
  <1>2. /\ S = {} => Begin(S) = Finished
        /\ S # {} => Begin(S).phase = "waiting" /\ Begin(S).waits = S /\ Begin(S).left = Grace
    BY DEF Begin
  <1>3. exitKnown' = known /\ first' = IF first = None THEN c ELSE first
    BY DEF Ends
  <1>4. shutdowns' = [resolved EXCEPT !["main"] = IF first = None THEN Begin(S)
                                                  ELSE resolved["main"]]
    BY DEF Ends
  <1>5. /\ shutdowns'["onSignal"] = resolved["onSignal"]
        /\ shutdowns'["main"] = IF first = None THEN Begin(S) ELSE resolved["main"]
    BY <1>4 DEF Callers
  <1>6. IF first = None THEN Terminate(S) ELSE UNCHANGED <<termed, killed>>
    BY DEF Ends
  <1>7. \A d \in Children : ~killed'[d]
    BY <1>6 DEF Terminate, Inv, Endings, TypeOK
  <1>8. IF first = None THEN termed' = termed \cup {d \in S : tree[d] \notin {"absent", "failed"}}
        ELSE termed' = termed
    BY <1>6 DEF Terminate
  <1>9. /\ shutdowns'["main"].phase # "done" => unit' = "up"
        /\ shutdowns'["main"].phase = "done" => unit' = "exited"
    BY <1>5 DEF Ends, Conclude
  <1> HIDE DEF S
  <1> QED
    BY <1>1, <1>2, <1>3, <1>5, <1>7, <1>8, <1>9 DEF TypeOK

\* An exit event.  If it ends the shutdown that was on time, all ends are known and main
\* concludes, unless main waits for a child that was never spawned; then main's timer is
\* on time.
LEMMA ExitEventStep ==
  ASSUME GroupKill, TypeOK, Inv, NEW c \in Children, ExitEvent(c) PROVE Inv'
  <1> USE GraceAssumption, NoneAssumption
  <1> DEFINE known == [exitKnown EXCEPT ![c] = TRUE]
             resolved == [w \in Callers |-> Resolve(c, shutdowns[w])]
             K == {d \in Children : ~known[d]}
             main == shutdowns'["main"]
             sig == shutdowns'["onSignal"]
  <1>1. /\ unit = "up" /\ tree[c] = "dead" /\ ~exitKnown[c]
        /\ UNCHANGED <<tree, signalled, listening, age, elapsed>>
        /\ Ends(c, known, resolved)
    BY DEF ExitEvent, Inv, Endings
  <1>2. /\ known \in [Children -> BOOLEAN] /\ known[c]
        /\ \A d \in Children : d # c => known[d] = exitKnown[d]
    BY DEF TypeOK
  <1>3. resolved \in [Callers -> Shutdown]
    BY ShutdownTypes DEF TypeOK, Shutdown
  <1>4. \A d \in Children : exitKnown[d] => known[d]
    BY <1>2
  <1>5. \A w \in Callers :
          /\ ~Waiting(w) => resolved[w] = shutdowns[w]
          /\ Waiting(w) /\ shutdowns[w].waits \ {c} = {} => resolved[w] = Finished
          /\ Waiting(w) /\ shutdowns[w].waits \ {c} # {} =>
               /\ resolved[w].phase = "waiting" /\ resolved[w].left = shutdowns[w].left
               /\ resolved[w].waits = shutdowns[w].waits \ {c}
    BY DEF Resolve, Waiting, TypeOK
  <1> HIDE DEF known, resolved
  <1>6. /\ exitKnown' = known /\ first' \in Children
        /\ first # None => first' = first /\ termed' = termed
        /\ \A d \in Children : ~killed'[d]
        /\ sig = resolved["onSignal"]
        /\ first # None => main = resolved["main"]
        /\ first = None /\ K = {} => main = Finished
        /\ first = None /\ K # {} =>
             main.phase = "waiting" /\ main.waits = K /\ main.left = Grace
        /\ first = None =>
             \A d \in Children : d \in termed \/ (d \in K /\ tree[d] = "running") => d \in termed'
        /\ termed \subseteq termed'
        /\ main.phase # "done" => unit' = "up"
        /\ main.phase = "done" => unit' = "exited"
    BY <1>1, <1>2, <1>3, <1>4, EndsEffect
  <1>7. Finished.phase = "done"
    BY DEF Finished
  <1>8. Stages'
    BY <1>1, <1>5, <1>6, <1>7 DEF Inv, Stages, Waiting, Callers
  <1>9. Endings'
    BY <1>1, <1>2, <1>6 DEF Inv, Endings
  <1>10. Waits'
    <2>1. ASSUME Waiting("onSignal")' PROVE
            /\ sig.waits # {}
            /\ \A d \in Children : ~known[d] => d \in sig.waits
            /\ \A d \in sig.waits : ~known[d] \/ tree[d] = "absent"
      BY <1>2, <1>5, <1>6, <1>7, <2>1 DEF Inv, Waits, Waiting, Callers, TypeOK
    <2>2. ASSUME Waiting("main")' PROVE
            /\ main.waits # {}
            /\ \A d \in Children : ~known[d] => d \in main.waits
            /\ \A d \in main.waits : ~known[d] \/ tree[d] = "absent"
      BY <1>2, <1>5, <1>6, <1>7, <2>2 DEF Inv, Waits, Waiting, Callers, TypeOK
    <2> QED
      BY <1>1, <1>6, <2>1, <2>2 DEF Waits, Waiting, Callers
  <1>11. Aged'
    <2>1. ASSUME NEW d \in Children, tree[d] = "running" PROVE d \in K
      BY <1>1, <1>2, <2>1 DEF Inv, Endings
    <2>2. ASSUME Waiting("onSignal")', NEW d \in Children, tree[d] = "running"
          PROVE  d \in termed' /\ age[d] + sig.left >= Grace
      BY <1>5, <1>6, <1>7, <2>2 DEF Inv, Aged, Waiting, Callers
    <2>3. ASSUME Waiting("main")', NEW d \in Children, tree[d] = "running"
          PROVE  d \in termed' /\ age[d] + main.left >= Grace
      <3>1. age[d] \in Nat
        BY DEF TypeOK
      <3> QED
        BY <1>5, <1>6, <1>7, <2>1, <2>3, <3>1 DEF Inv, Aged, Waiting, Callers, Stages
    <2> QED
      BY <1>1, <2>2, <2>3 DEF Aged, Waiting, Callers
  <1>12. Timers'
    <2>1. Began' /\ elapsed \in Nat
      BY <1>8, <1>6, NoneAssumption DEF Began, Callers, Stages, TypeOK
    <2>2. \A w \in Callers : Waiting(w)' => shutdowns'[w].left + elapsed >= Grace
      BY <1>5, <1>6, <1>7, <2>1 DEF Inv, Timers, Waiting, Callers
    <2>3. ASSUME unit' = "up", NEW d \in Children, tree[d] = "absent"
          PROVE  Waiting("main")' /\ elapsed + main.left = Grace
      <3>1. Waiting("main") /\ elapsed + shutdowns["main"].left = Grace /\ first # None
        BY <1>1, <2>3 DEF Inv, Timers, Stages, Waiting
      <3> QED
        BY <1>5, <1>6, <1>7, <2>3, <3>1 DEF Waiting, Callers
    <2> QED
      BY <1>1, <2>1, <2>2, <2>3 DEF Inv, Timers
  <1>13. OnTime'
    <2> SUFFICES ASSUME unit' = "up"
                 PROVE  \/ \E w \in Callers : Waiting(w)' /\ elapsed + shutdowns'[w].left <= Grace
                        \/ Drained'
      BY <1>1 DEF OnTime
    <2>1. main.phase = "waiting" /\ elapsed \in Nat
      BY <1>3, <1>5, <1>6, <1>7, ShutdownTypes DEF Inv, Stages, Waiting, Callers, TypeOK
    <2>2. CASE ~Began
      <3>1. elapsed = 0 /\ first = None
        BY <2>2 DEF Inv, Timers, Stages, Began, Callers
      <3> QED
        BY <1>6, <1>7, <2>1, <3>1 DEF Waiting, Callers
    <2>3. CASE Waiting("main") /\ elapsed + shutdowns["main"].left <= Grace
      BY <1>5, <1>6, <1>7, <2>1, <2>3 DEF Waiting, Callers, Inv, Stages
    <2>4. CASE Waiting("onSignal") /\ elapsed + shutdowns["onSignal"].left <= Grace
      <3>1. CASE shutdowns["onSignal"].waits \ {c} # {}
        BY <1>5, <1>6, <2>4, <3>1 DEF Waiting, Callers
      <3>2. CASE shutdowns["onSignal"].waits \ {c} = {}
        <4>1. K = {}
          BY <1>2, <2>4, <3>2 DEF Inv, Waits, Callers
        <4>2. first # None /\ Waiting("main")
          BY <1>1, <1>6, <1>7, <2>1, <4>1 DEF Inv, Stages, Waiting, TypeOK, Callers
        <4>3. PICK d \in shutdowns["main"].waits : d # c
          BY <1>5, <1>6, <1>7, <2>1, <4>2 DEF Callers
        <4>4. d \in Children /\ tree[d] = "absent"
          BY <1>2, <4>1, <4>2, <4>3 DEF Inv, Waits, Callers, TypeOK
        <4>5. elapsed + shutdowns["main"].left = Grace
          BY <1>1, <4>4 DEF Inv, Timers
        <4> QED
          BY <1>5, <1>6, <1>7, <2>1, <4>2, <4>5 DEF Waiting, Callers
      <3> QED
        BY <3>1, <3>2
    <2>5. CASE Drained
      <3>1. \E d \in Children : ~known[d]
        <4>1. main.waits \subseteq Children
          BY <1>3, <1>6, <1>7, <2>1 DEF Shutdown, Callers
        <4>2. PICK d \in main.waits : ~known[d] \/ tree'[d] = "absent"
          BY <1>6, <1>10, <2>1 DEF Waits, Waiting, Callers
        <4> QED
          BY <1>1, <2>5, <4>1, <4>2 DEF Drained
      <3> QED
        BY <1>1, <1>6, <2>5, <3>1 DEF Drained
    <2> QED
      BY <1>1, <2>2, <2>3, <2>4, <2>5 DEF Inv, OnTime, Callers
  <1> QED
    BY <1>8, <1>9, <1>10, <1>11, <1>12, <1>13 DEF Inv

\* A spawn error comes before any tick, so the timer of main, begun now or earlier, is on
\* time.
LEMMA SpawnErrorStep ==
  ASSUME GroupKill, TypeOK, Inv, NEW c \in Children, SpawnError(c) PROVE Inv'
  <1> USE GraceAssumption, NoneAssumption
  <1> DEFINE main == shutdowns'["main"]
             sig == shutdowns'["onSignal"]
  <1>1. /\ unit = "up" /\ tree[c] = "failed" /\ elapsed = 0
        /\ tree' = [tree EXCEPT ![c] = "absent"]
        /\ UNCHANGED <<signalled, listening, age, elapsed>>
    BY DEF SpawnError, Inv, Timers
  <1>2. PICK known \in {exitKnown, [exitKnown EXCEPT ![c] = TRUE]} : Ends(c, known, shutdowns)
    BY DEF SpawnError
  <1>3. /\ known \in [Children -> BOOLEAN]
        /\ \A d \in Children : exitKnown[d] => known[d]
        /\ \A d \in Children : d # c => known[d] = exitKnown[d]
    BY <1>2 DEF TypeOK
  <1>4. shutdowns \in [Callers -> Shutdown]
    BY DEF TypeOK, Shutdown
  <1> DEFINE K == {d \in Children : ~known[d]}
  <1>5. /\ exitKnown' = known /\ first' \in Children
        /\ first # None => first' = first /\ termed' = termed
        /\ \A d \in Children : ~killed'[d]
        /\ sig = shutdowns["onSignal"]
        /\ first # None => main = shutdowns["main"]
        /\ first = None /\ K = {} => main = Finished
        /\ first = None /\ K # {} =>
             main.phase = "waiting" /\ main.waits = K /\ main.left = Grace
        /\ first = None =>
             \A d \in Children : d \in termed \/ (d \in K /\ tree[d] = "running") => d \in termed'
        /\ termed \subseteq termed'
        /\ main.phase # "done" => unit' = "up"
        /\ main.phase = "done" => unit' = "exited"
    BY <1>1, <1>2, <1>3, <1>4, EndsEffect
  <1>6. Finished.phase = "done"
    BY DEF Finished
  <1>7. /\ tree'[c] = "absent"
        /\ \A d \in Children : d # c => tree'[d] = tree[d]
    BY <1>1 DEF TypeOK
  <1>8. Stages'
    BY <1>1, <1>5, <1>6 DEF Inv, Stages, Callers
  <1>9. Endings'
    BY <1>3, <1>5, <1>7 DEF Inv, Endings
  <1>10. Waits'
    <2>1. ASSUME Waiting("onSignal")' PROVE
            /\ sig.waits # {}
            /\ \A d \in Children : ~known[d] => d \in sig.waits
            /\ \A d \in sig.waits : ~known[d] \/ tree'[d] = "absent"
      BY <1>3, <1>4, <1>5, <1>7, <2>1 DEF Inv, Waits, Waiting, Callers, Shutdown
    <2>2. ASSUME Waiting("main")' PROVE
            /\ main.waits # {}
            /\ \A d \in Children : ~known[d] => d \in main.waits
            /\ \A d \in main.waits : ~known[d] \/ tree'[d] = "absent"
      BY <1>3, <1>4, <1>5, <1>6, <1>7, <2>2 DEF Inv, Waits, Waiting, Callers, Shutdown
    <2> QED
      BY <1>5, <2>1, <2>2 DEF Waits, Waiting, Callers
  <1>11. Aged'
    <2>1. ASSUME NEW d \in Children, tree'[d] = "running"
          PROVE  tree[d] = "running" /\ d \in K /\ age[d] \in Nat
      BY <1>3, <1>7, <2>1 DEF Inv, Endings, TypeOK
    <2>2. ASSUME Waiting("onSignal")', NEW d \in Children, tree'[d] = "running"
          PROVE  d \in termed' /\ age[d] + sig.left >= Grace
      BY <1>5, <2>1, <2>2 DEF Inv, Aged, Waiting, Callers
    <2>3. ASSUME Waiting("main")', NEW d \in Children, tree'[d] = "running"
          PROVE  d \in termed' /\ age[d] + main.left >= Grace
      BY <1>5, <1>6, <2>1, <2>3 DEF Inv, Aged, Waiting, Callers
    <2> QED
      BY <1>1, <2>2, <2>3 DEF Aged, Waiting, Callers
  <1>12. unit' = "up" => Waiting("main")' /\ main.left = Grace
    <2>1. CASE first = None
      BY <1>5, <1>6, <2>1 DEF Waiting
    <2>2. CASE first # None
      <3>1. Waiting("main")
        BY <1>1, <1>4, <2>2 DEF Inv, Stages, Waiting, Callers, Shutdown
      <3>2. shutdowns["main"].left \in 0..Grace /\ shutdowns["main"].left + elapsed >= Grace
        BY <1>4, <3>1 DEF Inv, Timers, Callers, Shutdown
      <3> QED
        BY <1>1, <1>5, <2>2, <3>1, <3>2 DEF Waiting
    <2> QED
      BY <2>1, <2>2
  <1>13. Timers'
    <2>1. Began'
      BY <1>5, <1>8, NoneAssumption DEF Began, Callers, Stages
    <2>2. \A w \in Callers : Waiting(w)' => shutdowns'[w].left + elapsed >= Grace
      BY <1>1, <1>5, <1>6 DEF Inv, Timers, Waiting, Callers
    <2> QED
      BY <1>1, <1>12, <2>1, <2>2 DEF Timers
  <1>14. OnTime'
    BY <1>1, <1>12 DEF OnTime, Callers
  <1> QED
    BY <1>8, <1>9, <1>10, <1>11, <1>13, <1>14 DEF Inv

\* A timeout of onSignal's shutdown decides every child that is left; one of main's ends
\* the unit.
LEMMA TimeoutStep ==
  ASSUME GroupKill, TypeOK, Inv, NEW w \in Callers, Timeout(w) PROVE Inv'
  <1> USE GraceAssumption, NoneAssumption
  <1>1. /\ unit = "up" /\ Waiting(w) /\ shutdowns[w].left = 0
        /\ UNCHANGED <<exitKnown, first, signalled, listening, termed, age, elapsed>>
        /\ shutdowns' = [shutdowns EXCEPT ![w] = Finished]
        /\ Kill(StillRunning(exitKnown))
    BY DEF Timeout, Waiting
  <1>2. StillRunning(exitKnown) = {c \in Children : ~exitKnown[c]}
    BY DEF StillRunning, Inv, Endings, TypeOK
  <1>3. \A c \in Children : /\ ~killed'[c]
                            /\ tree'[c] = IF tree[c] = "running" THEN "dying" ELSE tree[c]
    BY <1>1, <1>2 DEF Kill, Alive, Inv, Endings, TypeOK
  <1>4. /\ shutdowns'[w].phase = "done"
        /\ \A v \in Callers : v # w => shutdowns'[v] = shutdowns[v]
    BY <1>1 DEF Finished, TypeOK
  <1>5. IF w = "main" THEN unit' = "exited" ELSE unit' = "up"
    BY <1>1 DEF Timeout, Conclude, Finished
  <1>6. Stages'
    BY <1>1, <1>4, <1>5 DEF Inv, Stages, Callers, Waiting
  <1>7. Endings'
    BY <1>1, <1>3 DEF Inv, Endings
  <1>8. Waits'
    BY <1>1, <1>3, <1>4 DEF Inv, Waits, Waiting, TypeOK
  <1>9. Aged'
    BY <1>3 DEF Aged
  <1>10. Began'
    BY <1>4 DEF Began
  <1>11. Timers'
    BY <1>1, <1>3, <1>4, <1>5, <1>10 DEF Inv, Timers, Waiting, Callers
  <1>12. OnTime'
    <2> SUFFICES ASSUME w = "onSignal", ~ Waiting("main")' \/ elapsed + shutdowns'["main"].left > Grace
                 PROVE  Drained'
      BY <1>1, <1>5, <1>11 DEF OnTime, Callers, TypeOK, Timers
    <2>1. elapsed <= Grace /\ elapsed \in Nat
      BY <1>1 DEF Inv, OnTime, Drained, Began, Waiting, TypeOK, Callers
    <2>2. ASSUME NEW c \in Children PROVE tree'[c] \in {"dying", "dead"}
      <3>1. tree[c] # "failed"
        BY <1>1 DEF Inv, Timers
      <3>2. tree[c] # "absent"
        BY <1>1, <1>4, <2>1 DEF Inv, Timers, Waiting, Callers, TypeOK
      <3>3. tree[c] \in {"absent", "failed", "running", "dying", "dead"}
        BY DEF TypeOK, Inv, Endings
      <3> QED
        BY <1>3, <3>1, <3>2, <3>3
    <2>3. \E c \in Children : ~exitKnown[c]
      <3>1. PICK c \in shutdowns[w].waits : ~exitKnown[c] \/ tree[c] = "absent"
        BY <1>1 DEF Inv, Waits
      <3>2. c \in Children
        BY <3>1 DEF TypeOK
      <3> QED
        BY <1>3, <2>2, <3>1, <3>2
    <2> QED
      BY <1>1, <2>1, <2>2, <2>3 DEF Drained
  <1> QED
    BY <1>6, <1>7, <1>8, <1>9, <1>11, <1>12 DEF Inv

\* Where process groups can be signalled, every step keeps the invariant.
LEMMA InvStep ==
  ASSUME GroupKill PROVE TypeOK /\ Inv /\ [Next]_vars => Inv'
  BY QuietSteps, ElapseStep, OnSignalStep, ExitEventStep, SpawnErrorStep, TimeoutStep DEF Next

\* The invariant holds at first.
LEMMA InvInit == Init => Inv
  BY ChildrenAssumption, NoneAssumption
     DEF Init, Inv, Stages, Endings, Waits, Aged, Timers, OnTime, Waiting, Began, Idle, Callers

\* Where process groups can be signalled, a unit that exits by itself leaves no child
\* running.
THEOREM NoOrphans ==
  ASSUME GroupKill PROVE Safety => []NoneLeftBehind
  <1>1. Init => NoneLeftBehind
    BY DEF Init, NoneLeftBehind
  <1>2. TypeOK /\ Inv /\ NoneLeftBehind /\ [Next]_vars => NoneLeftBehind'
    <2> SUFFICES ASSUME TypeOK, Inv, NoneLeftBehind, [Next]_vars PROVE NoneLeftBehind'
      OBVIOUS
    <2> USE DEF NoneLeftBehind
    <2>1. \A c \in Children : tree[c] = "running" => ~exitKnown[c]
      BY DEF Inv, Endings
    <2>2. CASE NoRelease
      BY <2>2 DEF NoRelease, Inv, Stages
    <2>3. ASSUME NEW s \in Signals, OnSignal(s) \/ DefaultSignal(s) PROVE NoneLeftBehind'
      BY <2>3 DEF OnSignal, DefaultSignal
    <2>4. ASSUME NEW c \in Children, ChildEnds(c) PROVE NoneLeftBehind'
      BY <2>4 DEF ChildEnds, TypeOK
    <2>5. ASSUME NEW c \in Children, ExitEvent(c) PROVE NoneLeftBehind'
      <3> SUFFICES ASSUME unit' = "exited", NEW d \in Children, tree[d] = "running" PROVE FALSE
        BY <2>5 DEF ExitEvent, Inv, Endings
      <3>1. Inv' /\ unit = "up" /\ tree[c] = "dead" /\ ~exitKnown[c]
        BY <2>5, InvStep DEF ExitEvent, Next, Inv, Endings
      <3>2. d # c /\ ~exitKnown[d]
        BY <2>1, <3>1
      <3> DEFINE known == [exitKnown EXCEPT ![c] = TRUE]
                 resolved == [v \in Callers |-> Resolve(c, shutdowns[v])]
      <3>3. ~known[d] /\ Ends(c, known, resolved)
        BY <2>5, <3>2 DEF ExitEvent, TypeOK
      <3>4. CASE first = None
        <4>1. d \in StillRunning(known)
          BY <3>3 DEF StillRunning, Inv, Endings
        <4>2. Begin(StillRunning(known)).phase = "waiting"
          BY <4>1 DEF Begin
        <4> HIDE DEF known, resolved
        <4> QED
          BY <3>1, <3>3, <3>4, <4>2 DEF Ends, Conclude
      <3>5. CASE first # None
        <4>1. Waiting("main") /\ d \in shutdowns["main"].waits
          BY <3>1, <3>2, <3>5 DEF Inv, Stages, Waits, Waiting, Callers, TypeOK
        <4>2. resolved["main"].phase = "waiting"
          BY <3>2, <4>1 DEF Resolve, Waiting, Callers, TypeOK
        <4> HIDE DEF known, resolved
        <4> QED
          BY <3>1, <3>3, <3>5, <4>2 DEF Ends, Conclude
      <3> QED
        BY <3>4, <3>5
    <2>6. ASSUME NEW c \in Children, SpawnError(c) PROVE NoneLeftBehind'
      <3> SUFFICES ASSUME unit' = "exited", NEW d \in Children, tree[d] = "running" PROVE FALSE
        BY <2>6 DEF SpawnError, Inv, Endings, TypeOK
      <3>1. unit = "up" /\ tree[c] = "failed"
        BY <2>6 DEF SpawnError
      <3>2. PICK known \in {exitKnown, [exitKnown EXCEPT ![c] = TRUE]} : Ends(c, known, shutdowns)
        BY <2>6 DEF SpawnError
      <3>3. ~known[d]
        BY <2>1, <3>1, <3>2 DEF TypeOK
      <3>4. d \in StillRunning(known)
        BY <3>3 DEF StillRunning, Inv, Endings
      <3>5. Begin(StillRunning(known)).phase = "waiting"
        BY <3>4 DEF Begin
      <3> QED
        BY <3>1, <3>2, <3>5 DEF Ends, Conclude, Inv, Stages
    <2>7. ASSUME NEW w \in Callers, Timeout(w) PROVE NoneLeftBehind'
      <3>1. \A c \in Children : tree[c] = "running" => c \in StillRunning(exitKnown)
        BY <2>1 DEF StillRunning, Inv, Endings
      <3> QED
        BY <2>7, <3>1 DEF Timeout, Kill, Alive, Inv, Endings, TypeOK
    <2>8. CASE Start \/ Listen \/ Elapse \/ UNCHANGED vars
      BY <2>8 DEF Start, Listen, Elapse, vars
    <2> QED
      BY <2>2, <2>3, <2>4, <2>5, <2>6, <2>7, <2>8 DEF Next
  <1> QED
    BY <1>1, <1>2, InvInit, InvStep, TypeCorrect, PTL DEF Safety

\* Where process groups can be signalled, the unit is gone one grace period after its
\* teardown began.
THEOREM GoneInTime ==
  ASSUME GroupKill PROVE Safety => []EndsInTime
  <1>1. TypeOK /\ Inv => EndsInTime
    BY GraceAssumption DEF Inv, OnTime, Timers, Drained, EndsInTime, TypeOK
  <1> QED
    BY <1>1, InvInit, InvStep, TypeCorrect, PTL DEF Safety

\* Where process groups can be signalled, no child is killed before its grace period is over.
THEOREM GraceIsGiven ==
  ASSUME GroupKill PROVE Safety => FullGrace
  <1>1. TypeOK /\ Inv /\ [Next]_vars =>
          [\A c \in Children : tree[c] = "running" /\ tree'[c] # "running" /\ tree'[c] # "dead"
                                 => age[c] = Grace]_vars
    <2> SUFFICES ASSUME TypeOK, Inv, [Next]_vars, NEW c \in Children,
                        tree[c] = "running", tree'[c] # "running", tree'[c] # "dead"
                 PROVE  age[c] = Grace
      OBVIOUS
    <2>1. PICK w \in Callers : Timeout(w)
      <3>1. ~Start
        BY DEF Start, Inv, Stages
      <3>2. ~ \E d \in Children : ChildEnds(d) \/ SpawnError(d) \/ ExitEvent(d)
        BY DEF ChildEnds, SpawnError, ExitEvent, TypeOK
      <3>3. ~(NoRelease \/ Listen \/ Elapse \/ UNCHANGED vars)
        BY DEF NoRelease, Listen, Elapse, vars
      <3>4. ~ \E s \in Signals : OnSignal(s) \/ DefaultSignal(s)
        BY DEF OnSignal, DefaultSignal
      <3> QED
        BY <3>1, <3>2, <3>3, <3>4 DEF Next
    <2>2. age[c] + 0 >= Grace /\ age[c] \in 0..Grace
      BY <2>1 DEF Timeout, Inv, Aged, Waiting, TypeOK
    <2> QED
      BY <2>2, GraceAssumption
  <1> QED
    BY <1>1, InvInit, InvStep, TypeCorrect, PTL DEF Safety, FullGrace
=============================================================================
