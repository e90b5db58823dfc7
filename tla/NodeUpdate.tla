----------------------------- MODULE NodeUpdate -----------------------------
(***************************************************************************)
(* Server-directed updates: the update_prepare and update_apply handlers   *)
(* of the control client (src/src/clients/control-client.ts), the download *)
(* they wait for (src/src/update.ts), the installer they run               *)
(* (src/scripts/install-release.sh) and the restart that follows.          *)
(*                                                                         *)
(* A prepare handler waits for the download and for the file to be written,*)
(* so prepares of one connection overlap, and those of an earlier          *)
(* connection go on after it is lost.  Each connection remembers the last  *)
(* update that finished preparing; the artifact itself lies under a path   *)
(* that only names version and platform.  An apply is acknowledged at once *)
(* and carried out by a timer, which reads the prepared update when it     *)
(* fires.  Installers are processes of their own: they exclude each other  *)
(* by a lock directory and outlive the node process that started them.     *)
(* What they leave on the disk is the subject of Releases.                 *)
(*                                                                         *)
(* The server is external: it may send any prepare at any time, and an     *)
(* apply for any update.                                                   *)
(***************************************************************************)
EXTENDS Naturals, FiniteSets

CONSTANTS
  Updates,    \* update ids
  Versions,   \* release versions
  Builds,     \* release artifacts, told apart by their SHA-256
  VersionOf,  \* version in an update's manifest
  BuildOf,    \* tarball_sha256 in an update's manifest
  Packaged,   \* version in the package.json of an artifact
  Prepares,   \* prepare handlers that may be waiting at once (a bound)
  Applies,    \* applies that may be under way at once (a bound)
  Conns,      \* connections of one process, in order: 1..n (a bound)
  GnuMv,      \* mv -T works: the current symlink is replaced atomically
  Torn,       \* the content of a file that was not written as a whole
  None

ASSUME ManifestsAssumption ==
  /\ VersionOf \in [Updates -> Versions]
  /\ BuildOf \in [Updates -> Builds]
  /\ Packaged \in [Builds -> Versions]
ASSUME ConnsAssumption == 1 \in Conns /\ Conns \subseteq Nat \ {0}
ASSUME GnuMvAssumption == GnuMv \in BOOLEAN
ASSUME TagsAssumption ==
  /\ None \notin Updates /\ None \notin Versions /\ None \notin Builds /\ None \notin Applies
  /\ Torn \notin Builds /\ Torn \notin Applies /\ Torn # None
  /\ None \notin [update : Updates, path : Versions \cup {None}]

VARIABLES
  node,            \* "up" or "down"
  release,         \* the build the node process runs
  conn,            \* its connection to the gateway
  preparedUpdate,  \* per connection: the update and its artifact's path, or None
  prepares,        \* waiting prepare handlers
  applies,         \* acknowledged applies, and the installer each runs
  downloads,       \* per version: what the artifact's file may hold, {} if absent
  lock,            \* the installer that holds the lock directory; Torn if it died
  current,         \* the build the current symlink leads to, None if it is missing
  \* History.
  verified,        \* <<connection, update>> whose prepare has finished
  overlapped       \* a prepare or apply began while another was under way

vars == <<node, release, conn, preparedUpdate, prepares, applies, downloads, lock, current,
          verified, overlapped>>

FreePrepare == [stage |-> "free", update |-> None, conn |-> 0]
\* `acked` is the update of the apply, `update` and `path` what the installer was given,
\* `build` what it has unpacked.
FreeApply == [stage |-> "free", acked |-> None, update |-> None, path |-> None,
              build |-> None, conn |-> 0]

Locked == {"unpacking", "linking", "unlinked", "linked"}
Running == Locked \cup {"queued"}

Busy == \/ \E p \in Prepares : prepares[p].stage # "free"
        \/ \E a \in Applies : applies[a].stage # "free"

\* The prepares that are writing the file of a version.
Writers(v) == {p \in Prepares : prepares[p].stage = "writing" /\ VersionOf[prepares[p].update] = v}
-----------------------------------------------------------------------------
Init ==
  /\ node = "up"
  /\ release \in Builds
  /\ conn = 1
  /\ preparedUpdate = [c \in Conns |-> None]
  /\ prepares = [p \in Prepares |-> FreePrepare]
  /\ applies = [a \in Applies |-> FreeApply]
  /\ downloads = [v \in Versions |-> {}]
  /\ lock = None
  /\ current = release
  /\ verified = {}
  /\ overlapped = FALSE
-----------------------------------------------------------------------------
(***************************************************************************)
(* update_prepare.                                                         *)
(***************************************************************************)
SetPrepared(c, u, path) ==
  /\ preparedUpdate' = [preparedUpdate EXCEPT ![c] = [update |-> u, path |-> path]]
  /\ verified' = verified \cup {<<c, u>>}

\* compareManifests finds nothing to update: prepared at once, with no artifact.
PrepareNotNeeded(u) ==
  /\ node = "up"
  /\ BuildOf[u] = release
  /\ SetPrepared(conn, u, None)
  /\ overlapped' = (overlapped \/ Busy)
  /\ UNCHANGED <<node, release, conn, prepares, applies, downloads, lock, current>>

\* An update is required, or so it seems: a release knows its own tarball hash only
\* where CONSENSUS_NODE_TARBALL_SHA256 is set.
Prepare(p, u) ==
  /\ node = "up"
  /\ prepares[p].stage = "free"
  /\ prepares' = [prepares EXCEPT ![p] = [stage |-> "downloading", update |-> u, conn |-> conn]]
  /\ overlapped' = (overlapped \/ Busy)
  /\ UNCHANGED <<node, release, conn, preparedUpdate, applies, downloads, lock, current, verified>>

\* The fetch fails, times out or delivers an artifact with another hash.
DownloadFails(p) ==
  /\ prepares[p].stage = "downloading"
  /\ prepares' = [prepares EXCEPT ![p] = FreePrepare]
  /\ UNCHANGED <<node, release, conn, preparedUpdate, applies, downloads, lock, current,
                 verified, overlapped>>

\* The artifact's hash is the manifest's; fs.writeFile opens and truncates the file.
\* Two writers of one file may leave either content or a mixture.
Downloaded(p) ==
  LET u == prepares[p].update
      v == VersionOf[u] IN
  /\ prepares[p].stage = "downloading"
  /\ prepares' = [prepares EXCEPT ![p].stage = "writing"]
  /\ downloads' = [downloads EXCEPT ![v] =
       IF Writers(v) = {} THEN {BuildOf[u]} ELSE @ \cup {BuildOf[u], Torn}]
  /\ UNCHANGED <<node, release, conn, preparedUpdate, applies, lock, current, verified, overlapped>>

WriteFails(p) ==
  LET v == VersionOf[prepares[p].update] IN
  /\ prepares[p].stage = "writing"
  /\ prepares' = [prepares EXCEPT ![p] = FreePrepare]
  /\ downloads' = [downloads EXCEPT ![v] = IF Writers(v) = {p} THEN {Torn} ELSE @ \cup {Torn}]
  /\ UNCHANGED <<node, release, conn, preparedUpdate, applies, lock, current, verified, overlapped>>

\* Mutant of Written: what another connection prepared is remembered.
WrittenForCurrent(p) ==
  LET u == prepares[p].update IN
  /\ prepares[p].stage = "writing"
  /\ prepares' = [prepares EXCEPT ![p] = FreePrepare]
  /\ preparedUpdate' = [preparedUpdate EXCEPT ![conn] = [update |-> u, path |-> VersionOf[u]]]
  /\ verified' = verified \cup {<<prepares[p].conn, u>>}
  /\ UNCHANGED <<node, release, conn, applies, downloads, lock, current, overlapped>>

\* writeFile returns: the update is the prepared one, and update_ready is sent.
Written(p) ==
  LET u == prepares[p].update IN
  /\ prepares[p].stage = "writing"
  /\ prepares' = [prepares EXCEPT ![p] = FreePrepare]
  /\ SetPrepared(prepares[p].conn, u, VersionOf[u])
  /\ UNCHANGED <<node, release, conn, applies, downloads, lock, current, overlapped>>
-----------------------------------------------------------------------------
(***************************************************************************)
(* update_apply.  An apply for another update than the prepared one is     *)
(* answered with update_failed and changes nothing.                        *)
(***************************************************************************)
IsPrepared(u) == preparedUpdate[conn] # None /\ preparedUpdate[conn].update = u

\* Mutant of Apply: any prepared update will do.
ApplyAny(a, u) ==
  /\ node = "up"
  /\ preparedUpdate[conn] # None
  /\ applies[a].stage = "free"
  /\ applies' = [applies EXCEPT ![a] = [FreeApply EXCEPT !.stage = "scheduled", !.acked = u,
                                                         !.conn = conn]]
  /\ overlapped' = (overlapped \/ Busy)
  /\ UNCHANGED <<node, release, conn, preparedUpdate, prepares, downloads, lock, current, verified>>

Apply(a, u) ==
  /\ node = "up"
  /\ IsPrepared(u)
  /\ applies[a].stage = "free"
  /\ applies' = [applies EXCEPT ![a] = [FreeApply EXCEPT !.stage = "scheduled", !.acked = u,
                                                         !.conn = conn]]
  /\ overlapped' = (overlapped \/ Busy)
  /\ UNCHANGED <<node, release, conn, preparedUpdate, prepares, downloads, lock, current, verified>>

\* The timer: runUpdateCommand(preparedUpdate!) starts an installer.
Fire(a) ==
  LET prepared == preparedUpdate[applies[a].conn] IN
  /\ applies[a].stage = "scheduled"
  /\ applies' = [applies EXCEPT ![a] = [@ EXCEPT !.stage = "queued", !.update = prepared.update,
                                                 !.path = prepared.path]]
  /\ UNCHANGED <<node, release, conn, preparedUpdate, prepares, downloads, lock, current,
                 verified, overlapped>>
-----------------------------------------------------------------------------
(***************************************************************************)
(* The installer.  Every failure leaves through the EXIT trap, which       *)
(* releases the lock, and makes the node answer update_failed; a killed    *)
(* installer leaves the lock directory behind.                             *)
(***************************************************************************)
AcquireLock(a) ==
  /\ applies[a].stage = "queued"
  /\ applies[a].path # None
  /\ lock = None
  /\ lock' = a
  /\ applies' = [applies EXCEPT ![a].stage = "unpacking"]
  /\ UNCHANGED <<node, release, conn, preparedUpdate, prepares, downloads, current,
                 verified, overlapped>>

\* The command ends before it holds the lock: there is none, it has no artifact (exit 64),
\* a setting is wrong, or it waited 300 seconds (exit 75).
GiveUp(a) ==
  /\ applies[a].stage = "queued"
  /\ applies' = [applies EXCEPT ![a] = FreeApply]
  /\ UNCHANGED <<node, release, conn, preparedUpdate, prepares, downloads, lock, current,
                 verified, overlapped>>

\* tar and bun install succeed on a whole file (one still being written may already be
\* whole), and its version is the target version.
Unpack(a, b) ==
  LET v == applies[a].path IN
  /\ applies[a].stage = "unpacking"
  /\ b \in downloads[v] \cap Builds
  /\ Packaged[b] = VersionOf[applies[a].update]
  /\ applies' = [applies EXCEPT ![a] = [@ EXCEPT !.stage = "linking", !.build = b]]
  /\ UNCHANGED <<node, release, conn, preparedUpdate, prepares, downloads, lock, current,
                 verified, overlapped>>

\* Without mv -T the old symlink is removed first.
Unlink(a) ==
  /\ applies[a].stage = "linking"
  /\ ~GnuMv
  /\ current' = None
  /\ applies' = [applies EXCEPT ![a].stage = "unlinked"]
  /\ UNCHANGED <<node, release, conn, preparedUpdate, prepares, downloads, lock, verified, overlapped>>

Link(a) ==
  /\ applies[a].stage = IF GnuMv THEN "linking" ELSE "unlinked"
  /\ current' = applies[a].build
  /\ applies' = [applies EXCEPT ![a].stage = "linked"]
  /\ UNCHANGED <<node, release, conn, preparedUpdate, prepares, downloads, lock, verified, overlapped>>

\* A step of the script fails: a torn or mixed file, a version mismatch, bun install, or
\* the removal of old releases after the switch.
InstallerFails(a) ==
  /\ applies[a].stage \in Locked
  /\ lock' = None
  /\ applies' = [applies EXCEPT ![a] = FreeApply]
  /\ UNCHANGED <<node, release, conn, preparedUpdate, prepares, downloads, current,
                 verified, overlapped>>

InstallerKilled(a) ==
  /\ applies[a].stage \in Running
  /\ lock' = IF applies[a].stage \in Locked THEN Torn ELSE lock
  /\ applies' = [applies EXCEPT ![a] = FreeApply]
  /\ UNCHANGED <<node, release, conn, preparedUpdate, prepares, downloads, current,
                 verified, overlapped>>

\* The installer exits with 0.  If its node still runs, the node closes the tunnel and
\* exits a moment later; the installer of a node that is gone has nobody to tell.
Installed(a) ==
  /\ applies[a].stage = "linked"
  /\ lock' = None
  /\ applies' = [applies EXCEPT ![a] = IF applies[a].conn = 0 THEN FreeApply
                                       ELSE [@ EXCEPT !.stage = "exiting"]]
  /\ UNCHANGED <<node, release, conn, preparedUpdate, prepares, downloads, current,
                 verified, overlapped>>
-----------------------------------------------------------------------------
(***************************************************************************)
(* The node process and its connections.                                   *)
(***************************************************************************)
\* The control loop reconnects; the handlers of the lost connection go on.
Reconnect ==
  /\ node = "up"
  /\ conn + 1 \in Conns
  /\ conn' = conn + 1
  /\ UNCHANGED <<node, release, preparedUpdate, prepares, applies, downloads, lock, current,
                 verified, overlapped>>

\* The node process ends: its handlers and timers with it, its installers not.
Ends ==
  /\ node = "up"
  /\ node' = "down"
  /\ conn' = 1
  /\ preparedUpdate' = [c \in Conns |-> None]
  /\ prepares' = [p \in Prepares |-> FreePrepare]
  /\ applies' = [a \in Applies |-> IF applies[a].stage \in Running
                                     THEN [applies[a] EXCEPT !.conn = 0] ELSE FreeApply]
  /\ downloads' = [v \in Versions |-> IF Writers(v) = {} THEN downloads[v] ELSE {Torn}]
  /\ verified' = {}
  /\ UNCHANGED <<release, lock, current, overlapped>>

\* process.exit(0) after an update.
Exit(a) ==
  /\ applies[a].stage = "exiting"
  /\ Ends

\* A crash, or the supervisor stops the unit.
Crash == Ends

\* Mutant of Start: the wrapper does not look whether there is a release.
StartAnyway ==
  /\ node = "down"
  /\ node' = "up"
  /\ release' = current
  /\ UNCHANGED <<conn, preparedUpdate, prepares, applies, downloads, lock, current,
                 verified, overlapped>>

\* PM2, or run-control.sh under it, starts what current leads to; without it, it exits 70.
Start ==
  /\ node = "down"
  /\ current # None
  /\ node' = "up"
  /\ release' = current
  /\ UNCHANGED <<conn, preparedUpdate, prepares, applies, downloads, lock, current,
                 verified, overlapped>>
-----------------------------------------------------------------------------
PrepareStep(p) == DownloadFails(p) \/ Downloaded(p) \/ WriteFails(p) \/ Written(p)

ApplyStep(a) ==
  \/ Fire(a) \/ AcquireLock(a) \/ GiveUp(a) \/ Unlink(a) \/ Link(a)
  \/ InstallerFails(a) \/ Installed(a) \/ Exit(a)
  \/ \E b \in Builds : Unpack(a, b)

Next ==
  \/ \E u \in Updates : PrepareNotNeeded(u)
  \/ \E p \in Prepares, u \in Updates : Prepare(p, u)
  \/ \E a \in Applies, u \in Updates : Apply(a, u)
  \/ \E p \in Prepares : PrepareStep(p)
  \/ \E a \in Applies : ApplyStep(a) \/ InstallerKilled(a)
  \/ Reconnect \/ Crash \/ Start

Spec == Init /\ [][Next]_vars
-----------------------------------------------------------------------------
Stages == {"free", "scheduled", "exiting"} \cup Running

\* Every variable has its type.
TypeOK ==
  /\ node \in {"up", "down"}
  /\ release \in Builds
  /\ conn \in Conns
  /\ preparedUpdate \in [Conns -> [update : Updates, path : Versions \cup {None}] \cup {None}]
  /\ prepares \in [Prepares -> [stage : {"free", "downloading", "writing"},
                                update : Updates \cup {None}, conn : Conns \cup {0}]]
  /\ applies \in [Applies -> [stage : Stages, acked : Updates \cup {None},
                              update : Updates \cup {None}, path : Versions \cup {None},
                              build : Builds \cup {None}, conn : Conns \cup {0}]]
  /\ downloads \in [Versions -> SUBSET (Builds \cup {Torn})]
  /\ lock \in Applies \cup {None, Torn}
  /\ current \in Builds \cup {None}
  /\ verified \subseteq Conns \X Updates
  /\ overlapped \in BOOLEAN

RunsAcked(a) == applies[a].stage \in Running => applies[a].update = applies[a].acked

LinksVerified(a) ==
  applies[a].build # None => applies[a].build = BuildOf[applies[a].update]

\* A server that waits for one request to be settled before it sends the next gets what
\* it asked for: the installer runs for the update whose apply was acknowledged and
\* installs the very artifact that update's prepare verified, through reconnects,
\* crashes, failed downloads and half-written files.
SerialServerSafe == ~overlapped => \A a \in Applies : RunsAcked(a) /\ LinksVerified(a)

\* However requests overlap: an installer is only ever given an update that some prepare
\* of the same connection has finished (downloaded and verified it, or found that it is
\* what already runs), and never one of another connection.
OnlyPrepared ==
  \A a \in Applies : applies[a].stage \in Running /\ applies[a].conn # 0 =>
    <<applies[a].conn, applies[a].update>> \in verified

\* However requests overlap: at most one installer is past the lock, so no two of them
\* swap the symlink or clean up releases at once.
OneInstaller ==
  \A a, b \in Applies : applies[a].stage \in Locked /\ applies[b].stage \in Locked => a = b

\* Refuted: the update that runs is the one that was matched and acknowledged.
AckedIsInstalled == \A a \in Applies : RunsAcked(a)
=============================================================================
