----------------------------- MODULE Supervisor -----------------------------
(***************************************************************************)
(* The supervised unit, src/src/supervise.ts: it runs the runtime server   *)
(* and the control tunnel as children, ends as soon as either ends, and    *)
(* tears the other one down.  A signal starts a teardown too, so two runs  *)
(* of shutdown may be under way at once, each with its own list of         *)
(* survivors and its own timer.                                            *)
(*                                                                         *)
(* A child is a process group: the `bun run` wrapper and the script it     *)
(* started.  The wrapper waits for the script, so a group is one tree that *)
(* ends as a whole.  A tree may end at any time or never: SIGTERM obliges  *)
(* it to nothing.                                                          *)
(*                                                                         *)
(* Time is counted in ticks, and only while a teardown is under way.  The  *)
(* unit's event loop and the kernel are taken to be quick: whatever is due *)
(* happens before the next tick.                                           *)
(***************************************************************************)
EXTENDS Naturals

CONSTANTS
  Children,   \* runtime and control
  Signals,    \* SIGINT and SIGTERM
  Grace,      \* SHUTDOWN_GRACE_MS, in ticks
  GroupKill,  \* the platform lets a process group be signalled
  None

ASSUME ChildrenAssumption ==
  Children # {} /\ Children \cap Signals = {} /\ "noRelease" \notin Children
ASSUME GraceAssumption == Grace \in Nat \ {0}
ASSUME GroupKillAssumption == GroupKill \in BOOLEAN
ASSUME NoneAssumption == None \notin Children /\ None \notin Signals

VARIABLES
  unit,       \* how far main is; "exited" by itself, "killed" by a signal
  code,       \* exit code: that of a child, 128 + a signal, or "noRelease"
  tree,       \* per child, its process group; "failed": its spawn error is still to come
  exitKnown,  \* per child, exitCode or signalCode is set
  killed,     \* per child, ChildProcess.killed: proc.kill delivered some signal
  first,      \* the child whose end main has seen first
  signalled,
  listening,  \* signals whose handler is still installed (process.once)
  shutdowns,  \* the two calls of shutdown: by main and by onSignal
  \* History.
  termed,     \* children that were sent SIGTERM
  age,        \* per child, ticks since its first SIGTERM, up to Grace
  elapsed     \* ticks since the teardown began, up to Grace + 1

vars == <<unit, code, tree, exitKnown, killed, first, signalled, listening, shutdowns,
          termed, age, elapsed>>

Callers == {"main", "onSignal"}
Idle == [phase |-> "idle", waits |-> {}, left |-> 0]
Finished == [phase |-> "done", waits |-> {}, left |-> 0]

Alive(c) == tree[c] \in {"running", "dying"}
Began == \E w \in Callers : shutdowns[w].phase # "idle"
Ended == unit \in {"exited", "killed"}
-----------------------------------------------------------------------------
Init ==
  /\ unit = "boot" /\ code = None
  /\ tree = [c \in Children |-> "absent"]
  /\ exitKnown = [c \in Children |-> FALSE]
  /\ killed = [c \in Children |-> FALSE]
  /\ first = None /\ signalled = None /\ listening = {}
  /\ shutdowns = [w \in Callers |-> Idle]
  /\ termed = {} /\ age = [c \in Children |-> 0] /\ elapsed = 0

\* stillRunning, for the exit codes that are known then.
StillRunning(known) == {c \in Children : ~known[c] /\ ~killed[c]}

\* Mutant of Begin: the timer is armed one tick late.
LongGrace(survivors) ==
  IF survivors = {} THEN Finished
  ELSE [phase |-> "waiting", waits |-> survivors, left |-> Grace + 1]

\* Mutant of Begin: the timer is armed one tick short.
ShortGrace(survivors) ==
  IF survivors = {} THEN Finished
  ELSE [phase |-> "waiting", waits |-> survivors, left |-> Grace - 1]

\* shutdown up to its first wait: with no survivors it returns at once.
Begin(survivors) ==
  IF survivors = {} THEN Finished ELSE [phase |-> "waiting", waits |-> survivors, left |-> Grace]

\* The exit event of c, in a call of shutdown that may wait for it.
Resolve(c, s) ==
  IF s.phase = "waiting"
    THEN IF s.waits \ {c} = {} THEN Finished ELSE [s EXCEPT !.waits = @ \ {c}]
    ELSE s

\* signalChild(c, SIGTERM) for every survivor that has a pid.  Where the group cannot be signalled,
\* proc.kill signals the wrapper and sets `killed`.
Terminate(survivors) ==
  /\ termed' = termed \cup {c \in survivors : tree[c] \notin {"absent", "failed"}}
  /\ killed' = [c \in Children |-> killed[c] \/ (c \in survivors /\ ~GroupKill /\ Alive(c))]

\* signalChild(c, SIGKILL): the wrapper alone cannot take its script down with it.
Kill(victims) ==
  /\ tree' = [c \in Children |->
                IF c \in victims /\ Alive(c) THEN IF GroupKill THEN "dying" ELSE "orphaned"
                ELSE tree[c]]
  /\ killed' = [c \in Children |-> killed[c] \/ (c \in victims /\ ~GroupKill /\ Alive(c))]

\* Mutant of Conclude: the child whose end is seen last supplies the code.
LastCode(newFirst, main) ==
  IF main.phase = "done"
    THEN /\ unit' = "exited"
         /\ code' = IF signalled # None THEN signalled
                    ELSE LET seen == {c \in Children : exitKnown'[c] /\ ~exitKnown[c]}
                         IN  IF seen = {} THEN newFirst ELSE CHOOSE c \in seen : TRUE
    ELSE UNCHANGED <<unit, code>>

\* main goes on when its own shutdown has returned: process.exit.
Conclude(newFirst, main) ==
  IF main.phase = "done"
    THEN unit' = "exited" /\ code' = IF signalled # None THEN signalled ELSE newFirst
    ELSE UNCHANGED <<unit, code>>
-----------------------------------------------------------------------------
\* main, while nothing is installed.
NoRelease ==
  /\ unit = "boot"
  /\ unit' = "exited" /\ code' = "noRelease"
  /\ UNCHANGED <<tree, exitKnown, killed, first, signalled, listening, shutdowns,
                 termed, age, elapsed>>

\* startChild for every child; a spawn that fails reports it later.
Start ==
  /\ unit = "boot"
  /\ unit' = "started"
  /\ tree' \in [Children -> {"running", "failed"}]
  /\ UNCHANGED <<code, exitKnown, killed, first, signalled, listening, shutdowns,
                 termed, age, elapsed>>

\* The handlers are installed once the children run.
Listen ==
  /\ unit = "started"
  /\ unit' = "up" /\ listening' = Signals
  /\ UNCHANGED <<code, tree, exitKnown, killed, first, signalled, shutdowns, termed, age, elapsed>>

\* onSignal.  A handler runs once; the second one to run finds `signalled` set.
OnSignal(s) ==
  /\ unit = "up" /\ s \in listening
  /\ listening' = listening \ {s}
  /\ IF signalled = None
       THEN /\ signalled' = s
            /\ Terminate(StillRunning(exitKnown))
            /\ shutdowns' = [shutdowns EXCEPT !["onSignal"] = Begin(StillRunning(exitKnown))]
       ELSE UNCHANGED <<signalled, termed, killed, shutdowns>>
  /\ UNCHANGED <<unit, code, tree, exitKnown, first, age, elapsed>>

\* A signal without a handler, before Listen or once its handler has run, has its
\* default effect.
DefaultSignal(s) ==
  /\ unit \in {"started", "up"} /\ s \notin listening
  /\ unit' = "killed"
  /\ UNCHANGED <<code, tree, exitKnown, killed, first, signalled, listening, shutdowns,
                 termed, age, elapsed>>

\* A child's tree ends: by itself, for SIGTERM or, when it is dying, by SIGKILL.
ChildEnds(c) ==
  /\ Alive(c)
  /\ tree' = [tree EXCEPT ![c] = "dead"]
  /\ UNCHANGED <<unit, code, exitKnown, killed, first, signalled, listening, shutdowns,
                 termed, age, elapsed>>

\* A child's end becomes known: `known` are the exit codes then, `resolved` the calls
\* of shutdown that wait for it.  The first end starts main's own shutdown.
Ends(c, known, resolved) ==
  LET main == IF first = None THEN Begin(StillRunning(known)) ELSE resolved["main"]
  IN  /\ first' = IF first = None THEN c ELSE first
      /\ exitKnown' = known
      /\ shutdowns' = [resolved EXCEPT !["main"] = main]
      /\ IF first = None THEN Terminate(StillRunning(known)) ELSE UNCHANGED <<termed, killed>>
      /\ Conclude(first', main)

\* The exit event.
ExitEvent(c) ==
  /\ unit = "up"
  /\ tree[c] \in {"dead", "orphaned"} /\ ~exitKnown[c]
  /\ Ends(c, [exitKnown EXCEPT ![c] = TRUE], [w \in Callers |-> Resolve(c, shutdowns[w])])
  /\ UNCHANGED <<tree, signalled, listening, age, elapsed>>

\* Mutant of SpawnError: there is a listener for exit only.
ErrorUnheard(c) ==
  /\ unit = "up"
  /\ tree[c] = "failed"
  /\ tree' = [tree EXCEPT ![c] = "absent"]
  /\ UNCHANGED <<unit, code, exitKnown, killed, first, signalled, listening, shutdowns,
                 termed, age, elapsed>>

\* The error event of a child that could not be spawned.  No exit event follows; whether
\* exitCode is set is the runtime's choice.
SpawnError(c) ==
  /\ unit = "up"
  /\ tree[c] = "failed"
  /\ tree' = [tree EXCEPT ![c] = "absent"]
  /\ \E known \in {exitKnown, [exitKnown EXCEPT ![c] = TRUE]} : Ends(c, known, shutdowns)
  /\ UNCHANGED <<signalled, listening, age, elapsed>>

\* Mutant of Timeout: main gives up on its survivors and leaves them.
ExitWithoutKill(w) ==
  /\ unit = "up"
  /\ shutdowns[w].phase = "waiting" /\ shutdowns[w].left = 0
  /\ IF w = "main" THEN UNCHANGED <<tree, killed>> ELSE Kill(StillRunning(exitKnown))
  /\ shutdowns' = [shutdowns EXCEPT ![w] = Finished]
  /\ IF w = "main" THEN Conclude(first, Finished) ELSE UNCHANGED <<unit, code>>
  /\ UNCHANGED <<exitKnown, first, signalled, listening, termed, age, elapsed>>

\* Mutant of Timeout: only main's own shutdown kills.
OnlyMainKills(w) ==
  /\ unit = "up"
  /\ shutdowns[w].phase = "waiting" /\ shutdowns[w].left = 0
  /\ IF w = "main" THEN Kill(StillRunning(exitKnown)) ELSE UNCHANGED <<tree, killed>>
  /\ shutdowns' = [shutdowns EXCEPT ![w] = Finished]
  /\ IF w = "main" THEN Conclude(first, Finished) ELSE UNCHANGED <<unit, code>>
  /\ UNCHANGED <<exitKnown, first, signalled, listening, termed, age, elapsed>>

\* The grace period of one call of shutdown is over.
Timeout(w) ==
  /\ unit = "up"
  /\ shutdowns[w].phase = "waiting" /\ shutdowns[w].left = 0
  /\ Kill(StillRunning(exitKnown))
  /\ shutdowns' = [shutdowns EXCEPT ![w] = Finished]
  /\ IF w = "main" THEN Conclude(first, Finished) ELSE UNCHANGED <<unit, code>>
  /\ UNCHANGED <<exitKnown, first, signalled, listening, termed, age, elapsed>>

\* Something is due before time goes on.
Urgent ==
  \/ \E c \in Children : \/ tree[c] \in {"dying", "failed"}
                         \/ tree[c] \in {"dead", "orphaned"} /\ ~exitKnown[c]
  \/ \E w \in Callers : shutdowns[w].phase = "waiting" /\ shutdowns[w].left = 0

Elapse ==
  /\ unit = "up" /\ Began /\ ~Urgent
  /\ shutdowns' = [w \in Callers |->
                     IF shutdowns[w].phase = "waiting" THEN [shutdowns[w] EXCEPT !.left = @ - 1]
                     ELSE shutdowns[w]]
  /\ age' = [c \in Children |-> IF c \in termed /\ age[c] < Grace THEN age[c] + 1 ELSE age[c]]
  /\ elapsed' = IF elapsed <= Grace THEN elapsed + 1 ELSE elapsed
  /\ UNCHANGED <<unit, code, tree, exitKnown, killed, first, signalled, listening, termed>>

Next ==
  \/ NoRelease \/ Start \/ Listen \/ Elapse
  \/ \E s \in Signals : OnSignal(s) \/ DefaultSignal(s)
  \/ \E c \in Children : ChildEnds(c) \/ ExitEvent(c) \/ SpawnError(c)
  \/ \E w \in Callers : Timeout(w)

Safety == Init /\ [][Next]_vars

\* Events are delivered, timers fire, time goes on, and SIGKILL kills.
Fairness ==
  /\ WF_vars(Start \/ NoRelease) /\ WF_vars(Listen) /\ WF_vars(Elapse)
  /\ \A c \in Children : /\ WF_vars(ExitEvent(c)) /\ WF_vars(SpawnError(c))
                         /\ WF_vars(tree[c] = "dying" /\ ChildEnds(c))
  /\ \A w \in Callers : WF_vars(Timeout(w))

Spec == Safety /\ Fairness
-----------------------------------------------------------------------------
\* The types of the unit's state; a timer never runs below zero.
TypeOK ==
  /\ unit \in {"boot", "started", "up", "exited", "killed"}
  /\ code \in Children \cup Signals \cup {None, "noRelease"}
  /\ tree \in [Children -> {"absent", "failed", "running", "dying", "dead", "orphaned"}]
  /\ exitKnown \in [Children -> BOOLEAN] /\ killed \in [Children -> BOOLEAN]
  /\ first \in Children \cup {None} /\ signalled \in Signals \cup {None}
  /\ listening \subseteq Signals
  /\ shutdowns \in [Callers -> [phase : {"idle", "waiting", "done"}, waits : SUBSET Children,
                                left : 0..Grace]]
  /\ termed \subseteq Children /\ age \in [Children -> 0..Grace] /\ elapsed \in 0..Grace + 1

\* A unit that exits by itself leaves no child running that SIGKILL has not reached,
\* whichever of the two overlapping shutdowns gets there first (shutdown, main).
NoneLeftBehind == unit = "exited" => \A c \in Children : tree[c] \notin {"running", "orphaned"}

\* However signals and exits overlap, the unit is gone one grace period after its teardown
\* began; the second shutdown's fresh timer does not add a second period.
EndsInTime == unit = "up" => elapsed <= Grace

\* Without a signal to the unit, its exit code is that of a child which ended before the unit
\* sent it anything, so the code of an update_apply or a crash reaches the supervisor.
OwnCode == unit = "exited" /\ code \in Children => code \notin termed

\* A child is sent SIGKILL only a whole grace period after its SIGTERM, although the timer
\* that kills it may belong to the other call of shutdown.
FullGrace ==
  [][\A c \in Children : tree[c] = "running" /\ tree'[c] # "running" /\ tree'[c] # "dead"
                            => age[c] = Grace]_vars

\* Once a child has ended or could not be spawned, or the unit has taken a signal, the
\* unit ends, even if the other child ignores SIGTERM.
UnitEnds ==
  (unit = "up" /\ (signalled # None \/ \E c \in Children : tree[c] # "running")) ~> Ended

\* What the comment on shutdown promises for a signal the unit has taken: SIGTERM, then
\* SIGKILL for whatever is left, so no child is still running once the unit is gone.
SignalDrains == signalled # None /\ Ended => \A c \in Children : tree[c] # "running"
=============================================================================
