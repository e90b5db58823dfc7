------------------------------ MODULE Releases ------------------------------
(***************************************************************************)
(* The releases directory, as src/scripts/install-release.sh keeps it.     *)
(* Each installer takes the lock, moves a new release into place,          *)
(* installs its dependencies there, points the current symlink at it and   *)
(* removes old releases, all in place and step by step.  It may fail or be *)
(* killed at any step.  An installer is started by the node process, runs  *)
(* in that process's working directory, which is the release it runs, and  *)
(* outlives the process; src/scripts/run-control.sh starts the node again  *)
(* from what current leads to.                                             *)
(*                                                                         *)
(* Which update is installed, and the artifact it comes from, is the       *)
(* subject of NodeUpdate; here a release is a directory, told apart from   *)
(* the others by a name that nothing else refers to when it is made.       *)
(***************************************************************************)
EXTENDS Naturals, Sequences, SequencesExt, FiniteSets

CONSTANTS
  Installers,    \* installers that may run at once (a bound)
  Retention,     \* CONSENSUS_NODE_RELEASE_RETENTION
  MaxReleases,   \* names of release directories (a bound)
  GnuMv,         \* mv -T works: the symlink is replaced in one step
  None,          \* no installer
  Dead           \* an installer that was killed

ASSUME RetentionAssumption == Retention \in Nat \ {0}   \* else the script exits with 64
ASSUME GnuMvAssumption == GnuMv \in BOOLEAN
ASSUME NamesAssumption == {None, Dead} \cap Installers = {} /\ None # Dead

Ids == 1..MaxReleases
Absent == 0

VARIABLES
  releases,    \* the directories under releases/, newest modification first
  whole,       \* those that hold a complete release
  current,     \* where the current symlink leads, Absent if there is none
  lock,        \* whose .install.lock is there
  installer,   \* per installer: its stage and its shell variables
  node,        \* the release the node process runs, Absent while it is down
  \* History.
  overtaken    \* an installer of an earlier process has switched current since the node started

vars == <<releases, whole, current, lock, installer, node, overtaken>>

\* `running` is running_release, `release` is release_dir, `current` is current_real,
\* `list` what is left of the listing.
Idle == [stage |-> "idle", running |-> Absent, release |-> Absent, current |-> Absent,
         list |-> << >>, kept |-> 0]

Locked == {"unpacking", "installing", "linking", "unlinked", "linked", "pruning", "removing"}

At(i, stage) == installer[i].stage = stage

Goto(i, stage) == installer' = [installer EXCEPT ![i].stage = stage]

OnDisk(r) == r \in Range(releases)

\* A directory in which an entry is made or removed becomes the newest.
Touch(r) == <<r>> \o Remove(releases, r)

\* The names in use: a new directory has a time stamp and a process id in its name.
Named == Range(releases) \cup {node, current}
           \cup UNION {{installer[i].release, installer[i].running} : i \in Installers}
-----------------------------------------------------------------------------
\* The node runs the release that was installed by hand.
Init ==
  /\ releases = <<1>>
  /\ whole = {1}
  /\ current = 1
  /\ lock = None
  /\ installer = [i \in Installers |-> Idle]
  /\ node = 1
  /\ overtaken = FALSE

\* runUpdateCommand: the script notes the directory it was started in.
Start(i) ==
  /\ node # Absent
  /\ At(i, "idle")
  /\ installer' = [installer EXCEPT ![i] = [Idle EXCEPT !.stage = "queued", !.running = node]]
  /\ UNCHANGED <<releases, whole, current, lock, node, overtaken>>

\* Mutant of AcquireLock: mkdir -p, which succeeds when the directory exists.
AcquireLockAlways(i) ==
  /\ At(i, "queued")
  /\ lock' = i
  /\ Goto(i, "unpacking")
  /\ UNCHANGED <<releases, whole, current, node, overtaken>>

AcquireLock(i) ==
  /\ At(i, "queued")
  /\ lock = None
  /\ lock' = i
  /\ Goto(i, "unpacking")
  /\ UNCHANGED <<releases, whole, current, node, overtaken>>

\* Mutant of GiveUp: the wait for the lock has no limit.
GiveUpUnlocked(i) ==
  /\ At(i, "queued")
  /\ lock = None
  /\ installer' = [installer EXCEPT ![i] = Idle]
  /\ UNCHANGED <<releases, whole, current, lock, node, overtaken>>

\* Ends without the lock: an argument or a setting is wrong (exit 64), or it waited 300
\* seconds (exit 75).
GiveUp(i) ==
  /\ At(i, "queued")
  /\ installer' = [installer EXCEPT ![i] = Idle]
  /\ UNCHANGED <<releases, whole, current, lock, node, overtaken>>

\* Unpacked and compared in a temporary directory, then moved to a name of its own.
Place(i, r) ==
  /\ At(i, "unpacking")
  /\ r \notin Named
  /\ releases' = <<r>> \o releases
  /\ installer' = [installer EXCEPT ![i] = [@ EXCEPT !.stage = "installing", !.release = r]]
  /\ UNCHANGED <<whole, current, lock, node, overtaken>>

\* bun install has put the dependencies into the new directory.
InstallDependencies(i) ==
  /\ At(i, "installing")
  /\ releases' = Touch(installer[i].release)
  /\ whole' = whole \cup {installer[i].release}
  /\ Goto(i, "linking")
  /\ UNCHANGED <<current, lock, node, overtaken>>

\* Without mv -T the old symlink is removed first.
Unlink(i) ==
  /\ At(i, "linking")
  /\ ~GnuMv
  /\ current' = Absent
  /\ Goto(i, "unlinked")
  /\ UNCHANGED <<releases, whole, lock, node, overtaken>>

\* Mutant of Link: the symlink is switched before the dependencies are installed.
LinkEarly(i) ==
  /\ At(i, "installing")
  /\ current' = installer[i].release
  /\ Goto(i, "linked")
  /\ overtaken' = (overtaken \/ installer[i].running # node)
  /\ UNCHANGED <<releases, whole, lock, node>>

Link(i) ==
  /\ At(i, IF GnuMv THEN "linking" ELSE "unlinked")
  /\ current' = installer[i].release
  /\ Goto(i, "linked")
  /\ overtaken' = (overtaken \/ installer[i].running # node)
  /\ UNCHANGED <<releases, whole, lock, node>>

\* cleanup_old_releases resolves current and lists the directories.
List(i) ==
  /\ At(i, "linked")
  /\ installer' = [installer EXCEPT ![i] = [@ EXCEPT !.stage = "pruning", !.current = current,
                                                     !.list = releases]]
  /\ UNCHANGED <<releases, whole, current, lock, node, overtaken>>

\* Mutant of Kept: the installer's own release directory is not spared.
KeptCurrentOnly(i, r) == r = installer[i].current \/ installer[i].kept < Retention

\* The candidate stays: it is the active or the running release, or among the newest.
Kept(i, r) ==
  r \in {installer[i].current, installer[i].running} \/ installer[i].kept < Retention

Keep(i) ==
  /\ At(i, "pruning")
  /\ installer[i].list # << >>
  /\ LET r == Head(installer[i].list) IN
     installer' = [installer EXCEPT ![i] =
       [@ EXCEPT !.list = Tail(@), !.kept = IF OnDisk(r) /\ Kept(i, r) THEN @ + 1 ELSE @]]
  /\ OnDisk(Head(installer[i].list)) => Kept(i, Head(installer[i].list))
  /\ UNCHANGED <<releases, whole, current, lock, node, overtaken>>

\* rm -rf has begun, and has ended.
RemoveOld(i) ==
  LET r == Head(installer[i].list) IN
  /\ At(i, "pruning")
  /\ installer[i].list # << >>
  /\ OnDisk(r) /\ ~Kept(i, r)
  /\ releases' = Touch(r)
  /\ whole' = whole \ {r}
  /\ Goto(i, "removing")
  /\ UNCHANGED <<current, lock, node, overtaken>>

RemovedOld(i) ==
  LET r == Head(installer[i].list) IN
  /\ At(i, "removing")
  /\ releases' = Remove(releases, r)
  /\ installer' = [installer EXCEPT ![i] = [@ EXCEPT !.stage = "pruning", !.list = Tail(@)]]
  /\ UNCHANGED <<whole, current, lock, node, overtaken>>

\* Exit 0 releases the lock; the process that waited for it exits a moment later (NodeEnds).
Finish(i) ==
  /\ At(i, "pruning")
  /\ installer[i].list = << >>
  /\ lock' = None
  /\ installer' = [installer EXCEPT ![i] = Idle]
  /\ UNCHANGED <<releases, whole, current, node, overtaken>>

\* Any step fails: the EXIT trap releases the lock.
Fail(i) ==
  /\ installer[i].stage \in Locked
  /\ lock' = None
  /\ installer' = [installer EXCEPT ![i] = Idle]
  /\ UNCHANGED <<releases, whole, current, node, overtaken>>

Killed(i) ==
  /\ installer[i].stage \in Locked \cup {"queued"}
  /\ lock' = IF installer[i].stage \in Locked THEN Dead ELSE lock
  /\ installer' = [installer EXCEPT ![i] = Idle]
  /\ UNCHANGED <<releases, whole, current, node, overtaken>>

\* Somebody removes the lock of an installer that was killed.
ClearLock ==
  /\ lock = Dead
  /\ lock' = None
  /\ UNCHANGED <<releases, whole, current, installer, node, overtaken>>
-----------------------------------------------------------------------------
\* The process exits after an update, crashes or is stopped; its installers go on.
NodeEnds ==
  /\ node # Absent
  /\ node' = Absent
  /\ UNCHANGED <<releases, whole, current, lock, installer, overtaken>>

\* Mutant of NodeStarts: waits until no installer holds the lock.
NodeStartsUnlocked ==
  /\ node = Absent
  /\ lock = None
  /\ OnDisk(current)
  /\ node' = current
  /\ overtaken' = FALSE
  /\ UNCHANGED <<releases, whole, current, lock, installer>>

\* run-control.sh: without a directory behind current it exits with 70.
NodeStarts ==
  /\ node = Absent
  /\ OnDisk(current)
  /\ node' = current
  /\ overtaken' = FALSE
  /\ UNCHANGED <<releases, whole, current, lock, installer>>

InstallerStep(i) ==
  \/ AcquireLock(i) \/ GiveUp(i) \/ InstallDependencies(i) \/ Unlink(i) \/ Link(i) \/ List(i)
  \/ Keep(i) \/ RemoveOld(i) \/ RemovedOld(i) \/ Finish(i) \/ Fail(i)
  \/ \E r \in Ids : Place(i, r)

Next ==
  \/ \E i \in Installers : Start(i) \/ InstallerStep(i) \/ Killed(i)
  \/ ClearLock \/ NodeEnds \/ NodeStarts

\* An installer goes on, to succeed or to fail, and gives up on the lock in the end; a stopped node
\* is started again.  Nothing makes an installer start, succeed or be killed, or clears a lock.
Fairness == (\A i \in Installers : WF_vars(InstallerStep(i))) /\ WF_vars(NodeStarts)

Spec == Init /\ [][Next]_vars /\ Fairness
-----------------------------------------------------------------------------
\* At most one installer is past the lock, also after others were killed there or gave up
\* waiting: no two of them switch the symlink or remove releases at once.
OneInstaller ==
  \A i, j \in Installers : installer[i].stage \in Locked /\ installer[j].stage \in Locked => i = j

\* Wherever installers fail, are killed or wait for each other: the current symlink, if
\* there is one, leads to a release that was unpacked and installed completely and of
\* which no cleanup has removed anything.  A restart never starts half a release.
CurrentWhole == current # Absent => OnDisk(current) /\ current \in whole

\* No cleanup removes the release a node is running, down to a retention of 1, whatever
\* installers it has started and whatever became of them.  The exception the script makes:
\* an installer of an earlier process spares the release of that process, not of this one.
RunningWhole == node # Absent /\ ~overtaken => OnDisk(node) /\ node \in whole

\* Every installer ends: none waits for ever behind another, or for a lock that a killed one
\* left behind and nobody removes (the limit of 300 seconds in install-release.sh).
InstallersSettle == \A i \in Installers : ~At(i, "idle") ~> At(i, "idle")

\* The node comes back whenever it stops, however its installers end and whatever locks
\* and half releases they leave, unless the current symlink is gone for good: that is
\* what an installer leaves that dies between rm and mv where mv -T does not work.
NodeReturns == []<>(node # Absent) \/ <>[](current = Absent)
=============================================================================
