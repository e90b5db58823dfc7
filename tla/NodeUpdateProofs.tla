-------------------------- MODULE NodeUpdateProofs --------------------------
(***************************************************************************)
(* Proofs about NodeUpdate: for any updates, versions, artifacts, handlers *)
(* and connections.                                                        *)
(***************************************************************************)
EXTENDS NodeUpdate, TLAPS

-----------------------------------------------------------------------------
(***************************************************************************)
(* The inductive invariant.  What holds however requests overlap:          *)
(***************************************************************************)
\* The type of what a connection has prepared.
Prepared == [update : Updates, path : Versions \cup {None}]

\* A waiting prepare belongs to the current connection or to an earlier one.
PreparesPart ==
  \A p \in Prepares : prepares[p].stage # "free" =>
    prepares[p].update \in Updates /\ prepares[p].conn \in Conns /\ prepares[p].conn <= conn

\* A connection to come has nothing prepared; what is prepared has been verified.
PreparedPart ==
  \A c \in Conns :
    /\ c > conn => preparedUpdate[c] = None
    /\ preparedUpdate[c] # None =>
         /\ <<c, preparedUpdate[c].update>> \in verified
         /\ preparedUpdate[c].path \in {None, VersionOf[preparedUpdate[c].update]}

\* When the timer fires there is something to install; nothing is unpacked before the
\* lock is held, and an installer holds it until it ends.
AppliesPart ==
  \A a \in Applies :
    /\ applies[a].stage = "scheduled" =>
         applies[a].conn \in Conns /\ preparedUpdate[applies[a].conn] # None
    /\ applies[a].stage \in {"free", "scheduled", "queued", "unpacking"} => applies[a].build = None
    /\ applies[a].stage \in Running => applies[a].update \in Updates
    /\ applies[a].stage \in Locked => applies[a].path # None /\ lock = a

BaseInv == TypeOK /\ PreparesPart /\ PreparedPart /\ AppliesPart

(***************************************************************************)
(* What holds as long as requests do not overlap.                          *)
(***************************************************************************)
\* What a file may hold once update u has been written to it.
Holds(v, u) == downloads[v] \subseteq {BuildOf[u], Torn}

\* No connection after c has prepared anything.
Latest(c) == \A d \in Conns : d > c => preparedUpdate[d] = None

OneAtATime ==
  /\ \A p, q \in Prepares : prepares[p].stage # "free" /\ prepares[q].stage # "free" => p = q
  /\ \A a, b \in Applies : applies[a].stage # "free" /\ applies[b].stage # "free" => a = b
  /\ \A p \in Prepares, a \in Applies : prepares[p].stage = "free" \/ applies[a].stage = "free"

SerialPrepares ==
  \A p \in Prepares :
    /\ prepares[p].stage # "free" => Latest(prepares[p].conn)
    /\ prepares[p].stage = "writing" => Holds(VersionOf[prepares[p].update], prepares[p].update)

SerialPrepared ==
  \A c \in Conns :
    /\ preparedUpdate[c] # None /\ preparedUpdate[c].path # None /\ Latest(c)
    /\ \A p \in Prepares : prepares[p].stage = "writing" =>
         VersionOf[prepares[p].update] # preparedUpdate[c].path
    => Holds(preparedUpdate[c].path, preparedUpdate[c].update)

SerialApplies ==
  \A a \in Applies :
    /\ applies[a].stage = "scheduled" =>
         preparedUpdate[applies[a].conn].update = applies[a].acked /\ Latest(applies[a].conn)
    /\ applies[a].stage \in Running /\ applies[a].path # None =>
         Holds(applies[a].path, applies[a].update)
    /\ RunsAcked(a) /\ LinksVerified(a)

SerialPart == ~overlapped =>
  OneAtATime /\ SerialPrepares /\ SerialPrepared /\ SerialApplies

IInv == BaseInv /\ OnlyPrepared /\ SerialPart

USE DEF Prepared
-----------------------------------------------------------------------------
(***************************************************************************)
(* What holds however requests overlap: initially, and one lemma per       *)
(* action.  Exit and Crash are Ends.                                       *)
(***************************************************************************)
\* The type of an apply.
Application == [stage : Stages, acked : Updates \cup {None}, update : Updates \cup {None},
                path : Versions \cup {None}, build : Builds \cup {None}, conn : Conns \cup {0}]

\* Nothing is prepared, and nothing is under way, when a node starts.
LEMMA InitBase == Init => BaseInv /\ OnlyPrepared
<1> SUFFICES ASSUME Init PROVE BaseInv /\ OnlyPrepared
  OBVIOUS
<1>1. FreePrepare \in [stage : {"free", "downloading", "writing"},
                       update : Updates \cup {None}, conn : Conns \cup {0}]
  BY DEF FreePrepare
<1>2. FreeApply \in Application
  BY DEF FreeApply, Application, Stages
<1>3. TypeOK
  BY <1>1, <1>2, ConnsAssumption DEF Init, TypeOK, Application
<1>4. PreparesPart /\ PreparedPart
  BY DEF Init, PreparesPart, PreparedPart, FreePrepare
<1>5. AppliesPart /\ OnlyPrepared
  BY DEF Init, AppliesPart, OnlyPrepared, FreeApply, Running, Locked
<1> QED  BY <1>3, <1>4, <1>5 DEF BaseInv

\* The types of the elements, and of the updates' manifests.
LEMMA Elements ==
  ASSUME TypeOK
  PROVE  /\ \A u \in Updates : VersionOf[u] \in Versions /\ BuildOf[u] \in Builds
         /\ \A c \in Conns : preparedUpdate[c] = None \/ preparedUpdate[c] \in Prepared
         /\ conn \in Nat /\ \A c \in Conns : c \in Nat /\ c > 0
  BY ManifestsAssumption, ConnsAssumption DEF TypeOK

\* PrepareNotNeeded: an update that is not needed is prepared on the spot.
LEMMA PrepareNotNeededBase ==
  ASSUME NEW u \in Updates, BaseInv, OnlyPrepared, PrepareNotNeeded(u)
  PROVE  (BaseInv /\ OnlyPrepared)'
<1> USE Elements, TagsAssumption DEF BaseInv
<1>1. TypeOK'
  BY DEF PrepareNotNeeded, SetPrepared, TypeOK, AppliesPart, PreparesPart, Stages, Running,
         Locked
<1>2. PreparesPart'
  BY DEF PrepareNotNeeded, SetPrepared, TypeOK, PreparesPart
<1>3. PreparedPart'
  BY DEF PrepareNotNeeded, SetPrepared, TypeOK, PreparedPart, PreparesPart
<1>4. AppliesPart'
  BY DEF PrepareNotNeeded, SetPrepared, TypeOK, AppliesPart, Stages, Running, Locked
<1>5. OnlyPrepared'
  BY DEF PrepareNotNeeded, SetPrepared, TypeOK, OnlyPrepared, AppliesPart, PreparedPart,
         Stages, Running, Locked
<1> QED  BY <1>1, <1>2, <1>3, <1>4, <1>5

\* Prepare: a prepare begins to download.
LEMMA PrepareBase ==
  ASSUME NEW p \in Prepares, NEW u \in Updates, BaseInv, OnlyPrepared, Prepare(p, u)
  PROVE  (BaseInv /\ OnlyPrepared)'
<1> USE Elements, TagsAssumption DEF BaseInv
<1>1. TypeOK'
  BY DEF Prepare, TypeOK, AppliesPart, PreparesPart, Stages, Running, Locked
<1>2. PreparesPart'
  BY DEF Prepare, TypeOK, PreparesPart
<1>3. PreparedPart'
  BY DEF Prepare, TypeOK, PreparedPart, PreparesPart
<1>4. AppliesPart'
  BY DEF Prepare, TypeOK, AppliesPart, Stages, Running, Locked
<1>5. OnlyPrepared'
  BY DEF Prepare, TypeOK, OnlyPrepared, AppliesPart, PreparedPart, Stages, Running, Locked
<1> QED  BY <1>1, <1>2, <1>3, <1>4, <1>5

\* DownloadFails: a download fails.
LEMMA DownloadFailsBase ==
  ASSUME NEW p \in Prepares, BaseInv, OnlyPrepared, DownloadFails(p)
  PROVE  (BaseInv /\ OnlyPrepared)'
<1> USE Elements, TagsAssumption DEF BaseInv
<1>1. TypeOK'
  BY DEF DownloadFails, FreePrepare, TypeOK, AppliesPart, PreparesPart, Stages, Running, Locked
<1>2. PreparesPart'
  BY DEF DownloadFails, FreePrepare, TypeOK, PreparesPart
<1>3. PreparedPart'
  BY DEF DownloadFails, FreePrepare, TypeOK, PreparedPart, PreparesPart
<1>4. AppliesPart'
  BY DEF DownloadFails, FreePrepare, TypeOK, AppliesPart, Stages, Running, Locked
<1>5. OnlyPrepared'
  BY DEF DownloadFails, FreePrepare, TypeOK, OnlyPrepared, AppliesPart, PreparedPart, Stages,
         Running, Locked
<1> QED  BY <1>1, <1>2, <1>3, <1>4, <1>5

\* Downloaded: the artifact is verified and its file opened.
LEMMA DownloadedBase ==
  ASSUME NEW p \in Prepares, BaseInv, OnlyPrepared, Downloaded(p)
  PROVE  (BaseInv /\ OnlyPrepared)'
<1> USE Elements, TagsAssumption DEF BaseInv
<1>1. TypeOK'
  BY DEF Downloaded, TypeOK, AppliesPart, PreparesPart, Stages, Running, Locked
<1>2. PreparesPart'
  BY DEF Downloaded, TypeOK, PreparesPart
<1>3. PreparedPart'
  BY DEF Downloaded, TypeOK, PreparedPart, PreparesPart
<1>4. AppliesPart'
  BY DEF Downloaded, TypeOK, AppliesPart, Stages, Running, Locked
<1>5. OnlyPrepared'
  BY DEF Downloaded, TypeOK, OnlyPrepared, AppliesPart, PreparedPart, Stages, Running, Locked
<1> QED  BY <1>1, <1>2, <1>3, <1>4, <1>5

\* WriteFails: the file is left half-written.
LEMMA WriteFailsBase ==
  ASSUME NEW p \in Prepares, BaseInv, OnlyPrepared, WriteFails(p)
  PROVE  (BaseInv /\ OnlyPrepared)'
<1> USE Elements, TagsAssumption DEF BaseInv
<1>1. TypeOK'
  BY DEF WriteFails, FreePrepare, TypeOK, AppliesPart, PreparesPart, Stages, Running, Locked
<1>2. PreparesPart'
  BY DEF WriteFails, FreePrepare, TypeOK, PreparesPart
<1>3. PreparedPart'
  BY DEF WriteFails, FreePrepare, TypeOK, PreparedPart, PreparesPart
<1>4. AppliesPart'
  BY DEF WriteFails, FreePrepare, TypeOK, AppliesPart, Stages, Running, Locked
<1>5. OnlyPrepared'
  BY DEF WriteFails, FreePrepare, TypeOK, OnlyPrepared, AppliesPart, PreparedPart, Stages,
         Running, Locked
<1> QED  BY <1>1, <1>2, <1>3, <1>4, <1>5

\* Written: the update becomes the prepared one of its connection.
LEMMA WrittenBase ==
  ASSUME NEW p \in Prepares, BaseInv, OnlyPrepared, Written(p)
  PROVE  (BaseInv /\ OnlyPrepared)'
<1> USE Elements, TagsAssumption DEF BaseInv
<1>1. TypeOK'
  BY DEF Written, FreePrepare, SetPrepared, TypeOK, AppliesPart, PreparesPart, Stages, Running,
         Locked
<1>2. PreparesPart'
  BY DEF Written, FreePrepare, SetPrepared, TypeOK, PreparesPart
<1>3. PreparedPart'
  BY DEF Written, FreePrepare, SetPrepared, TypeOK, PreparedPart, PreparesPart
<1>4. AppliesPart'
  BY DEF Written, FreePrepare, SetPrepared, TypeOK, PreparesPart, AppliesPart, Stages, Running,
         Locked
<1>5. OnlyPrepared'
  BY DEF Written, FreePrepare, SetPrepared, TypeOK, OnlyPrepared, AppliesPart, PreparedPart,
         Stages, Running, Locked
<1> QED  BY <1>1, <1>2, <1>3, <1>4, <1>5

\* Apply: an apply is acknowledged.
LEMMA ApplyBase ==
  ASSUME NEW a \in Applies, NEW u \in Updates, BaseInv, OnlyPrepared, Apply(a, u)
  PROVE  (BaseInv /\ OnlyPrepared)'
<1> USE Elements, TagsAssumption DEF BaseInv
<1>1. TypeOK'
  BY DEF Apply, FreeApply, IsPrepared, TypeOK, AppliesPart, PreparesPart, Stages, Running,
         Locked
<1>2. PreparesPart'
  BY DEF Apply, FreeApply, IsPrepared, TypeOK, PreparesPart
<1>3. PreparedPart'
  BY DEF Apply, FreeApply, IsPrepared, TypeOK, PreparedPart, PreparesPart
<1>4. AppliesPart'
  BY DEF Apply, FreeApply, IsPrepared, TypeOK, AppliesPart, Stages, Running, Locked
<1>5. OnlyPrepared'
  BY DEF Apply, FreeApply, IsPrepared, TypeOK, OnlyPrepared, AppliesPart, PreparedPart, Stages,
         Running, Locked
<1> QED  BY <1>1, <1>2, <1>3, <1>4, <1>5

\* Fire: the timer reads the prepared update.
LEMMA FireBase ==
  ASSUME NEW a \in Applies, BaseInv, OnlyPrepared, Fire(a)
  PROVE  (BaseInv /\ OnlyPrepared)'
<1> USE Elements, TagsAssumption DEF BaseInv
<1>1. TypeOK'
  <2> DEFINE prepared == preparedUpdate[applies[a].conn]
  <2>1. prepared \in Prepared /\ applies[a] \in Application
    BY DEF Fire, TypeOK, AppliesPart, Application
  <2>2. [applies[a] EXCEPT !.stage = "queued", !.update = prepared.update, !.path = prepared.path]
          \in Application
    BY <2>1 DEF Application, Stages, Running
  <2> QED  BY <2>2 DEF Fire, TypeOK, Application
<1>2. PreparesPart'
  BY DEF Fire, TypeOK, PreparesPart
<1>3. PreparedPart'
  BY DEF Fire, TypeOK, PreparedPart, PreparesPart
<1>4. AppliesPart'
  BY DEF Fire, TypeOK, AppliesPart, Stages, Running, Locked
<1>5. OnlyPrepared'
  BY DEF Fire, TypeOK, OnlyPrepared, AppliesPart, PreparedPart, Stages, Running, Locked
<1> QED  BY <1>1, <1>2, <1>3, <1>4, <1>5

\* AcquireLock: an installer gets the lock.
LEMMA AcquireLockBase ==
  ASSUME NEW a \in Applies, BaseInv, OnlyPrepared, AcquireLock(a)
  PROVE  (BaseInv /\ OnlyPrepared)'
<1> USE Elements, TagsAssumption DEF BaseInv
<1>1. TypeOK'
  BY DEF AcquireLock, TypeOK, AppliesPart, PreparesPart, Stages, Running, Locked
<1>2. PreparesPart'
  BY DEF AcquireLock, TypeOK, PreparesPart
<1>3. PreparedPart'
  BY DEF AcquireLock, TypeOK, PreparedPart, PreparesPart
<1>4. AppliesPart'
  BY DEF AcquireLock, TypeOK, AppliesPart, Stages, Running, Locked
<1>5. OnlyPrepared'
  BY DEF AcquireLock, TypeOK, OnlyPrepared, AppliesPart, PreparedPart, Stages, Running, Locked
<1> QED  BY <1>1, <1>2, <1>3, <1>4, <1>5

\* GiveUp: an installer ends without the lock.
LEMMA GiveUpBase ==
  ASSUME NEW a \in Applies, BaseInv, OnlyPrepared, GiveUp(a)
  PROVE  (BaseInv /\ OnlyPrepared)'
<1> USE Elements, TagsAssumption DEF BaseInv
<1>1. TypeOK'
  BY DEF GiveUp, FreeApply, TypeOK, AppliesPart, PreparesPart, Stages, Running, Locked
<1>2. PreparesPart'
  BY DEF GiveUp, FreeApply, TypeOK, PreparesPart
<1>3. PreparedPart'
  BY DEF GiveUp, FreeApply, TypeOK, PreparedPart, PreparesPart
<1>4. AppliesPart'
  BY DEF GiveUp, FreeApply, TypeOK, AppliesPart, Stages, Running, Locked
<1>5. OnlyPrepared'
  BY DEF GiveUp, FreeApply, TypeOK, OnlyPrepared, AppliesPart, PreparedPart, Stages, Running,
         Locked
<1> QED  BY <1>1, <1>2, <1>3, <1>4, <1>5

\* Unpack: an installer reads the file.
LEMMA UnpackBase ==
  ASSUME NEW a \in Applies, NEW b \in Builds, BaseInv, OnlyPrepared, Unpack(a, b)
  PROVE  (BaseInv /\ OnlyPrepared)'
<1> USE Elements, TagsAssumption DEF BaseInv
<1>1. TypeOK'
  <2>1. applies[a] \in Application
    BY DEF TypeOK, Application
  <2>2. [applies[a] EXCEPT !.stage = "linking", !.build = b] \in Application
    BY <2>1 DEF Application, Stages, Running, Locked
  <2> QED  BY <2>2 DEF Unpack, TypeOK, Application
<1>2. PreparesPart'
  BY DEF Unpack, TypeOK, PreparesPart
<1>3. PreparedPart'
  BY DEF Unpack, TypeOK, PreparedPart, PreparesPart
<1>4. AppliesPart'
  BY DEF Unpack, TypeOK, AppliesPart, Stages, Running, Locked
<1>5. OnlyPrepared'
  BY DEF Unpack, TypeOK, OnlyPrepared, AppliesPart, PreparedPart, Stages, Running, Locked
<1> QED  BY <1>1, <1>2, <1>3, <1>4, <1>5

\* Unlink: the old symlink is removed.
LEMMA UnlinkBase ==
  ASSUME NEW a \in Applies, BaseInv, OnlyPrepared, Unlink(a)
  PROVE  (BaseInv /\ OnlyPrepared)'
<1> USE Elements, TagsAssumption DEF BaseInv
<1>1. TypeOK'
  BY DEF Unlink, TypeOK, AppliesPart, PreparesPart, Stages, Running, Locked
<1>2. PreparesPart'
  BY DEF Unlink, TypeOK, PreparesPart
<1>3. PreparedPart'
  BY DEF Unlink, TypeOK, PreparedPart, PreparesPart
<1>4. AppliesPart'
  BY DEF Unlink, TypeOK, AppliesPart, Stages, Running, Locked
<1>5. OnlyPrepared'
  BY DEF Unlink, TypeOK, OnlyPrepared, AppliesPart, PreparedPart, Stages, Running, Locked
<1> QED  BY <1>1, <1>2, <1>3, <1>4, <1>5

\* Link: the symlink is set.
LEMMA LinkBase ==
  ASSUME NEW a \in Applies, BaseInv, OnlyPrepared, Link(a)
  PROVE  (BaseInv /\ OnlyPrepared)'
<1> USE Elements, TagsAssumption DEF BaseInv
<1>1. TypeOK'
  <2>1. current' \in Builds \cup {None} BY DEF Link, TypeOK
  <2>2. "linked" \in Stages BY DEF Stages, Running, Locked
  <2>3. applies' \in [Applies -> [stage : Stages, acked : Updates \cup {None},
                              update : Updates \cup {None}, path : Versions \cup {None},
                              build : Builds \cup {None}, conn : Conns \cup {0}]]
    BY <2>2 DEF Link, TypeOK
  <2> QED BY <2>1, <2>3 DEF Link, TypeOK
<1>2. PreparesPart'
  BY DEF Link, TypeOK, PreparesPart
<1>3. PreparedPart'
  BY DEF Link, TypeOK, PreparedPart, PreparesPart
<1>4. AppliesPart'
  BY DEF Link, TypeOK, AppliesPart, Stages, Running, Locked
<1>5. OnlyPrepared'
  BY DEF Link, TypeOK, OnlyPrepared, AppliesPart, PreparedPart, Stages, Running, Locked
<1> QED  BY <1>1, <1>2, <1>3, <1>4, <1>5

\* InstallerFails: an installer fails and releases the lock.
LEMMA InstallerFailsBase ==
  ASSUME NEW a \in Applies, BaseInv, OnlyPrepared, InstallerFails(a)
  PROVE  (BaseInv /\ OnlyPrepared)'
<1> USE Elements, TagsAssumption DEF BaseInv
<1>1. TypeOK'
  BY DEF InstallerFails, FreeApply, TypeOK, AppliesPart, PreparesPart, Stages, Running, Locked
<1>2. PreparesPart'
  BY DEF InstallerFails, FreeApply, TypeOK, PreparesPart
<1>3. PreparedPart'
  BY DEF InstallerFails, FreeApply, TypeOK, PreparedPart, PreparesPart
<1>4. AppliesPart'
  BY DEF InstallerFails, FreeApply, TypeOK, AppliesPart, Stages, Running, Locked
<1>5. OnlyPrepared'
  BY DEF InstallerFails, FreeApply, TypeOK, OnlyPrepared, AppliesPart, PreparedPart, Stages,
         Running, Locked
<1> QED  BY <1>1, <1>2, <1>3, <1>4, <1>5

\* InstallerKilled: an installer dies.
LEMMA InstallerKilledBase ==
  ASSUME NEW a \in Applies, BaseInv, OnlyPrepared, InstallerKilled(a)
  PROVE  (BaseInv /\ OnlyPrepared)'
<1> USE Elements, TagsAssumption DEF BaseInv
<1>1. TypeOK'
  BY DEF InstallerKilled, FreeApply, TypeOK, AppliesPart, PreparesPart, Stages, Running, Locked
<1>2. PreparesPart'
  BY DEF InstallerKilled, FreeApply, TypeOK, PreparesPart
<1>3. PreparedPart'
  BY DEF InstallerKilled, FreeApply, TypeOK, PreparedPart, PreparesPart
<1>4. AppliesPart'
  BY DEF InstallerKilled, FreeApply, TypeOK, AppliesPart, Stages, Running, Locked
<1>5. OnlyPrepared'
  BY DEF InstallerKilled, FreeApply, TypeOK, OnlyPrepared, AppliesPart, PreparedPart, Stages,
         Running, Locked
<1> QED  BY <1>1, <1>2, <1>3, <1>4, <1>5

\* Installed: an installer is done.
LEMMA InstalledBase ==
  ASSUME NEW a \in Applies, BaseInv, OnlyPrepared, Installed(a)
  PROVE  (BaseInv /\ OnlyPrepared)'
<1> USE Elements, TagsAssumption DEF BaseInv
<1>1. TypeOK'
  BY DEF Installed, FreeApply, TypeOK, AppliesPart, PreparesPart, Stages, Running, Locked
<1>2. PreparesPart'
  BY DEF Installed, FreeApply, TypeOK, PreparesPart
<1>3. PreparedPart'
  BY DEF Installed, FreeApply, TypeOK, PreparedPart, PreparesPart
<1>4. AppliesPart'
  BY DEF Installed, FreeApply, TypeOK, AppliesPart, Stages, Running, Locked
<1>5. OnlyPrepared'
  BY DEF Installed, FreeApply, TypeOK, OnlyPrepared, AppliesPart, PreparedPart, Stages,
         Running, Locked
<1> QED  BY <1>1, <1>2, <1>3, <1>4, <1>5

\* Reconnect: the node reconnects.
LEMMA ReconnectBase ==
  ASSUME BaseInv, OnlyPrepared, Reconnect
  PROVE  (BaseInv /\ OnlyPrepared)'
<1> USE Elements, TagsAssumption DEF BaseInv
<1>1. TypeOK'
  BY DEF Reconnect, TypeOK, AppliesPart, PreparesPart, Stages, Running, Locked
<1>2. PreparesPart'
  BY DEF Reconnect, TypeOK, PreparesPart
<1>3. PreparedPart'
  BY DEF Reconnect, TypeOK, PreparedPart, PreparesPart
<1>4. AppliesPart'
  BY DEF Reconnect, TypeOK, AppliesPart, Stages, Running, Locked
<1>5. OnlyPrepared'
  BY DEF Reconnect, TypeOK, OnlyPrepared, AppliesPart, PreparedPart, Stages, Running, Locked
<1> QED  BY <1>1, <1>2, <1>3, <1>4, <1>5

\* Ends: the node process ends.
LEMMA EndsBase ==
  ASSUME BaseInv, OnlyPrepared, Ends
  PROVE  (BaseInv /\ OnlyPrepared)'
<1> USE Elements, TagsAssumption DEF BaseInv
<1>1. TypeOK'
  <2>1. FreePrepare \in [stage : {"free", "downloading", "writing"},
                         update : Updates \cup {None}, conn : Conns \cup {0}]
    BY DEF FreePrepare
  <2>2. FreeApply \in Application
    BY DEF FreeApply, Application, Stages
  <2>3. \A a \in Applies : [applies[a] EXCEPT !.conn = 0] \in Application
    BY DEF TypeOK, Application
  <2>4. applies' \in [Applies -> Application]
    BY <2>2, <2>3 DEF Ends
  <2>5. downloads' \in [Versions -> SUBSET (Builds \cup {Torn})]
    BY DEF Ends, TypeOK
  <2> QED  BY <2>1, <2>4, <2>5, ConnsAssumption DEF Ends, TypeOK, Application
<1>2. PreparesPart'
  BY DEF Ends, FreePrepare, FreeApply, Writers, TypeOK, PreparesPart
<1>3. PreparedPart'
  BY DEF Ends, FreePrepare, FreeApply, Writers, TypeOK, PreparedPart, PreparesPart
<1>4. AppliesPart'
  BY DEF Ends, FreePrepare, FreeApply, Writers, TypeOK, AppliesPart, Stages, Running, Locked
<1>5. OnlyPrepared'
  BY DEF Ends, FreePrepare, FreeApply, Writers, TypeOK, OnlyPrepared, AppliesPart,
         PreparedPart, Stages, Running, Locked
<1> QED  BY <1>1, <1>2, <1>3, <1>4, <1>5

\* Start: the node starts.
LEMMA StartBase ==
  ASSUME BaseInv, OnlyPrepared, Start
  PROVE  (BaseInv /\ OnlyPrepared)'
<1> USE Elements, TagsAssumption DEF BaseInv
<1>1. TypeOK'
  BY DEF Start, TypeOK, AppliesPart, PreparesPart, Stages, Running, Locked
<1>2. PreparesPart'
  BY DEF Start, TypeOK, PreparesPart
<1>3. PreparedPart'
  BY DEF Start, TypeOK, PreparedPart, PreparesPart
<1>4. AppliesPart'
  BY DEF Start, TypeOK, AppliesPart, Stages, Running, Locked
<1>5. OnlyPrepared'
  BY DEF Start, TypeOK, OnlyPrepared, AppliesPart, PreparedPart, Stages, Running, Locked
<1> QED  BY <1>1, <1>2, <1>3, <1>4, <1>5
-----------------------------------------------------------------------------
(***************************************************************************)
(* What holds as long as requests do not overlap: initially, and one lemma *)
(* per action.  An action that begins a request finds none under way, or   *)
(* sets overlapped; an action that goes on with one finds no other.        *)
(***************************************************************************)
\* No requests, no overlap.
LEMMA InitSerial == Init => SerialPart
  BY DEF Init, SerialPart, OneAtATime, SerialPrepares, SerialPrepared, SerialApplies,
         RunsAcked,
         LinksVerified, FreePrepare, FreeApply, Running, Locked

\* PrepareNotNeeded: an update that is not needed is prepared on the spot.
LEMMA PrepareNotNeededSerial ==
  ASSUME NEW u \in Updates, BaseInv, SerialPart, PrepareNotNeeded(u)
  PROVE  SerialPart'
<1> SUFFICES ASSUME ~overlapped'
             PROVE  (OneAtATime /\ SerialPrepares /\ SerialPrepared /\ SerialApplies)'
  BY DEF SerialPart
<1>0. OneAtATime /\ SerialPrepares /\ SerialPrepared /\ SerialApplies
  BY DEF SerialPart, PrepareNotNeeded
<1> USE Elements, TagsAssumption, <1>0 DEF BaseInv
<1>b. ~Busy
  BY DEF PrepareNotNeeded, TypeOK
<1> USE <1>b DEF Busy
<1>1. OneAtATime'
  BY DEF PrepareNotNeeded, SetPrepared, TypeOK, OneAtATime
<1>2. SerialPrepares'
  BY DEF PrepareNotNeeded, SetPrepared, TypeOK, SerialPrepares, OneAtATime, Holds, Latest,
         PreparesPart, PreparedPart
<1>3. SerialPrepared'
  BY DEF PrepareNotNeeded, SetPrepared, TypeOK, SerialPrepared, OneAtATime, Holds, Latest,
         PreparesPart, PreparedPart, SerialPrepares
<1>4. SerialApplies'
  BY DEF PrepareNotNeeded, SetPrepared, TypeOK, SerialApplies, OneAtATime, Holds, Latest,
         PreparesPart, PreparedPart, AppliesPart, SerialPrepared, RunsAcked, LinksVerified,
         Running, Locked
<1> QED  BY <1>1, <1>2, <1>3, <1>4

\* Prepare: a prepare begins to download.
LEMMA PrepareSerial ==
  ASSUME NEW p \in Prepares, NEW u \in Updates, BaseInv, SerialPart, Prepare(p, u)
  PROVE  SerialPart'
<1> SUFFICES ASSUME ~overlapped'
             PROVE  (OneAtATime /\ SerialPrepares /\ SerialPrepared /\ SerialApplies)'
  BY DEF SerialPart
<1>0. OneAtATime /\ SerialPrepares /\ SerialPrepared /\ SerialApplies
  BY DEF SerialPart, Prepare
<1> USE Elements, TagsAssumption, <1>0 DEF BaseInv
<1>b. ~Busy
  BY DEF Prepare, TypeOK
<1> USE <1>b DEF Busy
<1>1. OneAtATime'
  BY DEF Prepare, TypeOK, OneAtATime
<1>2. SerialPrepares'
  BY DEF Prepare, TypeOK, SerialPrepares, OneAtATime, Holds, Latest, PreparesPart, PreparedPart
<1>3. SerialPrepared'
  BY DEF Prepare, TypeOK, SerialPrepared, OneAtATime, Holds, Latest, PreparesPart,
         PreparedPart, SerialPrepares
<1>4. SerialApplies'
  BY DEF Prepare, TypeOK, SerialApplies, OneAtATime, Holds, Latest, PreparesPart, PreparedPart,
         AppliesPart, SerialPrepared, RunsAcked, LinksVerified, Running, Locked
<1> QED  BY <1>1, <1>2, <1>3, <1>4

\* DownloadFails: a download fails.
LEMMA DownloadFailsSerial ==
  ASSUME NEW p \in Prepares, BaseInv, SerialPart, DownloadFails(p)
  PROVE  SerialPart'
<1> SUFFICES ASSUME ~overlapped'
             PROVE  (OneAtATime /\ SerialPrepares /\ SerialPrepared /\ SerialApplies)'
  BY DEF SerialPart
<1>0. OneAtATime /\ SerialPrepares /\ SerialPrepared /\ SerialApplies
  BY DEF SerialPart, DownloadFails
<1> USE Elements, TagsAssumption, <1>0 DEF BaseInv
<1>1. OneAtATime'
  BY DEF DownloadFails, FreePrepare, TypeOK, OneAtATime
<1>2. SerialPrepares'
  BY DEF DownloadFails, FreePrepare, TypeOK, SerialPrepares, OneAtATime, Holds, Latest,
         PreparesPart, PreparedPart
<1>3. SerialPrepared'
  BY DEF DownloadFails, FreePrepare, TypeOK, SerialPrepared, OneAtATime, Holds, Latest,
         PreparesPart, PreparedPart, SerialPrepares
<1>4. SerialApplies'
  BY DEF DownloadFails, FreePrepare, TypeOK, SerialApplies, OneAtATime, Holds, Latest,
         PreparesPart, PreparedPart, AppliesPart, SerialPrepared, RunsAcked, LinksVerified,
         Running, Locked
<1> QED  BY <1>1, <1>2, <1>3, <1>4

\* Downloaded: the artifact is verified and its file opened.
LEMMA DownloadedSerial ==
  ASSUME NEW p \in Prepares, BaseInv, SerialPart, Downloaded(p)
  PROVE  SerialPart'
<1> SUFFICES ASSUME ~overlapped'
             PROVE  (OneAtATime /\ SerialPrepares /\ SerialPrepared /\ SerialApplies)'
  BY DEF SerialPart
<1>0. OneAtATime /\ SerialPrepares /\ SerialPrepared /\ SerialApplies
  BY DEF SerialPart, Downloaded
<1> USE Elements, TagsAssumption, <1>0 DEF BaseInv
<1>1. OneAtATime'
  BY DEF Downloaded, TypeOK, OneAtATime
<1>2. SerialPrepares'
  <2> DEFINE v == VersionOf[prepares[p].update]
  <2>1. Writers(v) = {}
    BY DEF Downloaded, OneAtATime, Writers
  <2>2. downloads'[v] = {BuildOf[prepares[p].update]}
    BY <2>1 DEF Downloaded, TypeOK, PreparesPart
  <2>3. \A q \in Prepares : prepares'[q].stage = "writing" => q = p
    BY DEF Downloaded, OneAtATime, TypeOK
  <2>4. prepares'[p].update = prepares[p].update
    BY DEF Downloaded, TypeOK
  <2>5. \A q \in Prepares : prepares'[q].stage # "free" =>
           \A d \in Conns : d > prepares'[q].conn => preparedUpdate'[d] = None
    BY DEF Downloaded, SerialPrepares, TypeOK, Latest
  <2> QED  BY <2>2, <2>3, <2>4, <2>5 DEF SerialPrepares, Holds, Latest
<1>3. SerialPrepared'
  BY DEF Downloaded, TypeOK, SerialPrepared, OneAtATime, Holds, Latest, PreparesPart,
         PreparedPart, SerialPrepares
<1>4. SerialApplies'
  BY DEF Downloaded, TypeOK, SerialApplies, OneAtATime, Holds, Latest, PreparesPart,
         PreparedPart, AppliesPart, SerialPrepared, RunsAcked, LinksVerified, Running, Locked
<1> QED  BY <1>1, <1>2, <1>3, <1>4

\* WriteFails: the file is left half-written.
LEMMA WriteFailsSerial ==
  ASSUME NEW p \in Prepares, BaseInv, SerialPart, WriteFails(p)
  PROVE  SerialPart'
<1> SUFFICES ASSUME ~overlapped'
             PROVE  (OneAtATime /\ SerialPrepares /\ SerialPrepared /\ SerialApplies)'
  BY DEF SerialPart
<1>0. OneAtATime /\ SerialPrepares /\ SerialPrepared /\ SerialApplies
  BY DEF SerialPart, WriteFails
<1> USE Elements, TagsAssumption, <1>0 DEF BaseInv
<1>1. OneAtATime'
  BY DEF WriteFails, FreePrepare, TypeOK, OneAtATime
<1>2. SerialPrepares'
  BY DEF WriteFails, FreePrepare, TypeOK, SerialPrepares, OneAtATime, Holds, Latest,
         PreparesPart, PreparedPart
<1>3. SerialPrepared'
  <2> DEFINE v == VersionOf[prepares[p].update]
  <2>1. Writers(v) = {p}
    BY DEF WriteFails, OneAtATime, Writers
  <2>2. downloads' = [downloads EXCEPT ![v] = {Torn}]
    BY <2>1 DEF WriteFails
  <2>3. downloads'[v] = {Torn} /\ \A w \in Versions : w # v => downloads'[w] = downloads[w]
    <3>1. v \in Versions
      BY DEF WriteFails, PreparesPart
    <3> QED  BY <3>1, <2>2 DEF TypeOK
  <2>4. \A q \in Prepares : prepares[q].stage = "writing" => q = p
    BY DEF WriteFails, OneAtATime
  <2>5. preparedUpdate' = preparedUpdate
    BY DEF WriteFails
  <2> SUFFICES ASSUME NEW c \in Conns, preparedUpdate[c] # None, preparedUpdate[c].path # None,
                      Latest(c), preparedUpdate[c].path # v
               PROVE  downloads'[preparedUpdate[c].path] \subseteq {BuildOf[preparedUpdate[c].update], Torn}
    BY <2>3, <2>5 DEF SerialPrepared, Holds, Latest
  <2> QED  BY <2>3, <2>4 DEF SerialPrepared, Holds, TypeOK
<1>4. SerialApplies'
  BY DEF WriteFails, FreePrepare, TypeOK, SerialApplies, OneAtATime, Holds, Latest,
         PreparesPart, PreparedPart, AppliesPart, SerialPrepared, RunsAcked, LinksVerified,
         Running, Locked
<1> QED  BY <1>1, <1>2, <1>3, <1>4

\* Written: the update becomes the prepared one of its connection.
LEMMA WrittenSerial ==
  ASSUME NEW p \in Prepares, BaseInv, SerialPart, Written(p)
  PROVE  SerialPart'
<1> SUFFICES ASSUME ~overlapped'
             PROVE  (OneAtATime /\ SerialPrepares /\ SerialPrepared /\ SerialApplies)'
  BY DEF SerialPart
<1>0. OneAtATime /\ SerialPrepares /\ SerialPrepared /\ SerialApplies
  BY DEF SerialPart, Written
<1> USE Elements, TagsAssumption, <1>0 DEF BaseInv
<1>1. OneAtATime'
  BY DEF Written, FreePrepare, SetPrepared, TypeOK, OneAtATime
<1>2. SerialPrepares'
  BY DEF Written, FreePrepare, SetPrepared, TypeOK, SerialPrepares, OneAtATime, Holds, Latest,
         PreparesPart, PreparedPart
<1>3. SerialPrepared'
  <2> DEFINE e == prepares[p].conn
             u == prepares[p].update
  <2>1. e \in Conns /\ u \in Updates /\ Latest(e) /\ Holds(VersionOf[u], u)
    BY DEF Written, PreparesPart, SerialPrepares
  <2>2. preparedUpdate' = [preparedUpdate EXCEPT ![e] = [update |-> u, path |-> VersionOf[u]]]
    BY DEF Written, SetPrepared
  <2>3. preparedUpdate'[e] = [update |-> u, path |-> VersionOf[u]]
    BY <2>1, <2>2 DEF TypeOK
  <2>4. preparedUpdate'[e] # None
    BY <2>1, <2>3
  <2>5. \A c \in Conns : c # e => preparedUpdate'[c] = preparedUpdate[c]
    BY <2>1, <2>2 DEF TypeOK
  <2>6. downloads' = downloads
    BY DEF Written
  <2>7. \A c \in Conns : c < e => ~Latest(c)'
    BY <2>1, <2>4 DEF Latest
  <2>8. \A c \in Conns : c > e => preparedUpdate'[c] = None
    BY <2>1, <2>5 DEF Latest
  <2>9. \A c \in Conns : c = e \/ c < e \/ c > e
    BY <2>1
  <2>10. downloads'[preparedUpdate'[e].path] \subseteq {BuildOf[preparedUpdate'[e].update], Torn}
    BY <2>1, <2>3, <2>6 DEF Holds
  <2> QED  BY <2>7, <2>8, <2>9, <2>10 DEF SerialPrepared, Holds
<1>4. SerialApplies'
  BY DEF Written, FreePrepare, SetPrepared, TypeOK, SerialApplies, OneAtATime, Holds, Latest,
         PreparesPart, PreparedPart, AppliesPart, SerialPrepared, RunsAcked, LinksVerified,
         Running, Locked
<1> QED  BY <1>1, <1>2, <1>3, <1>4

\* Apply: an apply is acknowledged.
LEMMA ApplySerial ==
  ASSUME NEW a \in Applies, NEW u \in Updates, BaseInv, SerialPart, Apply(a, u)
  PROVE  SerialPart'
<1> SUFFICES ASSUME ~overlapped'
             PROVE  (OneAtATime /\ SerialPrepares /\ SerialPrepared /\ SerialApplies)'
  BY DEF SerialPart
<1>0. OneAtATime /\ SerialPrepares /\ SerialPrepared /\ SerialApplies
  BY DEF SerialPart, Apply
<1> USE Elements, TagsAssumption, <1>0 DEF BaseInv
<1>b. ~Busy
  BY DEF Apply, TypeOK
<1> USE <1>b DEF Busy
<1>1. OneAtATime'
  BY DEF Apply, FreeApply, IsPrepared, TypeOK, OneAtATime
<1>2. SerialPrepares'
  BY DEF Apply, FreeApply, IsPrepared, TypeOK, SerialPrepares, OneAtATime, Holds, Latest,
         PreparesPart, PreparedPart
<1>3. SerialPrepared'
  BY DEF Apply, FreeApply, IsPrepared, TypeOK, SerialPrepared, OneAtATime, Holds, Latest,
         PreparesPart, PreparedPart, SerialPrepares
<1>4. SerialApplies'
  BY DEF Apply, FreeApply, IsPrepared, TypeOK, SerialApplies, OneAtATime, Holds, Latest,
         PreparesPart, PreparedPart, AppliesPart, SerialPrepared, RunsAcked, LinksVerified,
         Running, Locked
<1> QED  BY <1>1, <1>2, <1>3, <1>4

\* Fire: the timer reads the prepared update.
LEMMA FireSerial ==
  ASSUME NEW a \in Applies, BaseInv, SerialPart, Fire(a)
  PROVE  SerialPart'
<1> SUFFICES ASSUME ~overlapped'
             PROVE  (OneAtATime /\ SerialPrepares /\ SerialPrepared /\ SerialApplies)'
  BY DEF SerialPart
<1>0. OneAtATime /\ SerialPrepares /\ SerialPrepared /\ SerialApplies
  BY DEF SerialPart, Fire
<1> USE Elements, TagsAssumption, <1>0 DEF BaseInv
<1>1. OneAtATime'
  BY DEF Fire, TypeOK, OneAtATime
<1>2. SerialPrepares'
  BY DEF Fire, TypeOK, SerialPrepares, OneAtATime, Holds, Latest, PreparesPart, PreparedPart
<1>3. SerialPrepared'
  BY DEF Fire, TypeOK, SerialPrepared, OneAtATime, Holds, Latest, PreparesPart, PreparedPart,
         SerialPrepares
<1>4. SerialApplies'
  BY DEF Fire, TypeOK, SerialApplies, OneAtATime, Holds, Latest, PreparesPart, PreparedPart,
         AppliesPart, SerialPrepared, RunsAcked, LinksVerified, Running, Locked
<1> QED  BY <1>1, <1>2, <1>3, <1>4

\* AcquireLock: an installer gets the lock.
LEMMA AcquireLockSerial ==
  ASSUME NEW a \in Applies, BaseInv, SerialPart, AcquireLock(a)
  PROVE  SerialPart'
<1> SUFFICES ASSUME ~overlapped'
             PROVE  (OneAtATime /\ SerialPrepares /\ SerialPrepared /\ SerialApplies)'
  BY DEF SerialPart
<1>0. OneAtATime /\ SerialPrepares /\ SerialPrepared /\ SerialApplies
  BY DEF SerialPart, AcquireLock
<1> USE Elements, TagsAssumption, <1>0 DEF BaseInv
<1>1. OneAtATime'
  BY DEF AcquireLock, TypeOK, OneAtATime
<1>2. SerialPrepares'
  BY DEF AcquireLock, TypeOK, SerialPrepares, OneAtATime, Holds, Latest, PreparesPart,
         PreparedPart
<1>3. SerialPrepared'
  BY DEF AcquireLock, TypeOK, SerialPrepared, OneAtATime, Holds, Latest, PreparesPart,
         PreparedPart, SerialPrepares
<1>4. SerialApplies'
  BY DEF AcquireLock, TypeOK, SerialApplies, OneAtATime, Holds, Latest, PreparesPart,
         PreparedPart, AppliesPart, SerialPrepared, RunsAcked, LinksVerified, Running, Locked
<1> QED  BY <1>1, <1>2, <1>3, <1>4

\* GiveUp: an installer ends without the lock.
LEMMA GiveUpSerial ==
  ASSUME NEW a \in Applies, BaseInv, SerialPart, GiveUp(a)
  PROVE  SerialPart'
<1> SUFFICES ASSUME ~overlapped'
             PROVE  (OneAtATime /\ SerialPrepares /\ SerialPrepared /\ SerialApplies)'
  BY DEF SerialPart
<1>0. OneAtATime /\ SerialPrepares /\ SerialPrepared /\ SerialApplies
  BY DEF SerialPart, GiveUp
<1> USE Elements, TagsAssumption, <1>0 DEF BaseInv
<1>1. OneAtATime'
  BY DEF GiveUp, FreeApply, TypeOK, OneAtATime
<1>2. SerialPrepares'
  BY DEF GiveUp, FreeApply, TypeOK, SerialPrepares, OneAtATime, Holds, Latest, PreparesPart,
         PreparedPart
<1>3. SerialPrepared'
  BY DEF GiveUp, FreeApply, TypeOK, SerialPrepared, OneAtATime, Holds, Latest, PreparesPart,
         PreparedPart, SerialPrepares
<1>4. SerialApplies'
  BY DEF GiveUp, FreeApply, TypeOK, SerialApplies, OneAtATime, Holds, Latest, PreparesPart,
         PreparedPart, AppliesPart, SerialPrepared, RunsAcked, LinksVerified, Running, Locked
<1> QED  BY <1>1, <1>2, <1>3, <1>4

\* Unpack: an installer reads the file.
LEMMA UnpackSerial ==
  ASSUME NEW a \in Applies, NEW b \in Builds, BaseInv, SerialPart, Unpack(a, b)
  PROVE  SerialPart'
<1> SUFFICES ASSUME ~overlapped'
             PROVE  (OneAtATime /\ SerialPrepares /\ SerialPrepared /\ SerialApplies)'
  BY DEF SerialPart
<1>0. OneAtATime /\ SerialPrepares /\ SerialPrepared /\ SerialApplies
  BY DEF SerialPart, Unpack
<1> USE Elements, TagsAssumption, <1>0 DEF BaseInv
<1>1. OneAtATime'
  BY DEF Unpack, TypeOK, OneAtATime
<1>2. SerialPrepares'
  BY DEF Unpack, TypeOK, SerialPrepares, OneAtATime, Holds, Latest, PreparesPart, PreparedPart
<1>3. SerialPrepared'
  BY DEF Unpack, TypeOK, SerialPrepared, OneAtATime, Holds, Latest, PreparesPart, PreparedPart,
         SerialPrepares
<1>4. SerialApplies'
  BY DEF Unpack, TypeOK, SerialApplies, OneAtATime, Holds, Latest, PreparesPart, PreparedPart,
         AppliesPart, SerialPrepared, RunsAcked, LinksVerified, Running, Locked
<1> QED  BY <1>1, <1>2, <1>3, <1>4

\* Unlink: the old symlink is removed.
LEMMA UnlinkSerial ==
  ASSUME NEW a \in Applies, BaseInv, SerialPart, Unlink(a)
  PROVE  SerialPart'
<1> SUFFICES ASSUME ~overlapped'
             PROVE  (OneAtATime /\ SerialPrepares /\ SerialPrepared /\ SerialApplies)'
  BY DEF SerialPart
<1>0. OneAtATime /\ SerialPrepares /\ SerialPrepared /\ SerialApplies
  BY DEF SerialPart, Unlink
<1> USE Elements, TagsAssumption, <1>0 DEF BaseInv
<1>1. OneAtATime'
  BY DEF Unlink, TypeOK, OneAtATime
<1>2. SerialPrepares'
  BY DEF Unlink, TypeOK, SerialPrepares, OneAtATime, Holds, Latest, PreparesPart, PreparedPart
<1>3. SerialPrepared'
  BY DEF Unlink, TypeOK, SerialPrepared, OneAtATime, Holds, Latest, PreparesPart, PreparedPart,
         SerialPrepares
<1>4. SerialApplies'
  BY DEF Unlink, TypeOK, SerialApplies, OneAtATime, Holds, Latest, PreparesPart, PreparedPart,
         AppliesPart, SerialPrepared, RunsAcked, LinksVerified, Running, Locked
<1> QED  BY <1>1, <1>2, <1>3, <1>4

\* Link: the symlink is set.
LEMMA LinkSerial ==
  ASSUME NEW a \in Applies, BaseInv, SerialPart, Link(a)
  PROVE  SerialPart'
<1> SUFFICES ASSUME ~overlapped'
             PROVE  (OneAtATime /\ SerialPrepares /\ SerialPrepared /\ SerialApplies)'
  BY DEF SerialPart
<1>0. OneAtATime /\ SerialPrepares /\ SerialPrepared /\ SerialApplies
  BY DEF SerialPart, Link
<1> USE Elements, TagsAssumption, <1>0 DEF BaseInv
<1>1. OneAtATime'
  BY DEF Link, TypeOK, OneAtATime
<1>2. SerialPrepares'
  BY DEF Link, TypeOK, SerialPrepares, OneAtATime, Holds, Latest, PreparesPart, PreparedPart
<1>3. SerialPrepared'
  BY DEF Link, TypeOK, SerialPrepared, OneAtATime, Holds, Latest, PreparesPart, PreparedPart,
         SerialPrepares
<1>4. SerialApplies'
  BY DEF Link, TypeOK, SerialApplies, OneAtATime, Holds, Latest, PreparesPart, PreparedPart,
         AppliesPart, SerialPrepared, RunsAcked, LinksVerified, Running, Locked
<1> QED  BY <1>1, <1>2, <1>3, <1>4

\* InstallerFails: an installer fails and releases the lock.
LEMMA InstallerFailsSerial ==
  ASSUME NEW a \in Applies, BaseInv, SerialPart, InstallerFails(a)
  PROVE  SerialPart'
<1> SUFFICES ASSUME ~overlapped'
             PROVE  (OneAtATime /\ SerialPrepares /\ SerialPrepared /\ SerialApplies)'
  BY DEF SerialPart
<1>0. OneAtATime /\ SerialPrepares /\ SerialPrepared /\ SerialApplies
  BY DEF SerialPart, InstallerFails
<1> USE Elements, TagsAssumption, <1>0 DEF BaseInv
<1>1. OneAtATime'
  BY DEF InstallerFails, FreeApply, TypeOK, OneAtATime
<1>2. SerialPrepares'
  BY DEF InstallerFails, FreeApply, TypeOK, SerialPrepares, OneAtATime, Holds, Latest,
         PreparesPart, PreparedPart
<1>3. SerialPrepared'
  BY DEF InstallerFails, FreeApply, TypeOK, SerialPrepared, OneAtATime, Holds, Latest,
         PreparesPart, PreparedPart, SerialPrepares
<1>4. SerialApplies'
  BY DEF InstallerFails, FreeApply, TypeOK, SerialApplies, OneAtATime, Holds, Latest,
         PreparesPart, PreparedPart, AppliesPart, SerialPrepared, RunsAcked, LinksVerified,
         Running, Locked
<1> QED  BY <1>1, <1>2, <1>3, <1>4

\* InstallerKilled: an installer dies.
LEMMA InstallerKilledSerial ==
  ASSUME NEW a \in Applies, BaseInv, SerialPart, InstallerKilled(a)
  PROVE  SerialPart'
<1> SUFFICES ASSUME ~overlapped'
             PROVE  (OneAtATime /\ SerialPrepares /\ SerialPrepared /\ SerialApplies)'
  BY DEF SerialPart
<1>0. OneAtATime /\ SerialPrepares /\ SerialPrepared /\ SerialApplies
  BY DEF SerialPart, InstallerKilled
<1> USE Elements, TagsAssumption, <1>0 DEF BaseInv
<1>1. OneAtATime'
  BY DEF InstallerKilled, FreeApply, TypeOK, OneAtATime
<1>2. SerialPrepares'
  BY DEF InstallerKilled, FreeApply, TypeOK, SerialPrepares, OneAtATime, Holds, Latest,
         PreparesPart, PreparedPart
<1>3. SerialPrepared'
  BY DEF InstallerKilled, FreeApply, TypeOK, SerialPrepared, OneAtATime, Holds, Latest,
         PreparesPart, PreparedPart, SerialPrepares
<1>4. SerialApplies'
  BY DEF InstallerKilled, FreeApply, TypeOK, SerialApplies, OneAtATime, Holds, Latest,
         PreparesPart, PreparedPart, AppliesPart, SerialPrepared, RunsAcked, LinksVerified,
         Running, Locked
<1> QED  BY <1>1, <1>2, <1>3, <1>4

\* Installed: an installer is done.
LEMMA InstalledSerial ==
  ASSUME NEW a \in Applies, BaseInv, SerialPart, Installed(a)
  PROVE  SerialPart'
<1> SUFFICES ASSUME ~overlapped'
             PROVE  (OneAtATime /\ SerialPrepares /\ SerialPrepared /\ SerialApplies)'
  BY DEF SerialPart
<1>0. OneAtATime /\ SerialPrepares /\ SerialPrepared /\ SerialApplies
  BY DEF SerialPart, Installed
<1> USE Elements, TagsAssumption, <1>0 DEF BaseInv
<1>1. OneAtATime'
  BY DEF Installed, FreeApply, TypeOK, OneAtATime
<1>2. SerialPrepares'
  BY DEF Installed, FreeApply, TypeOK, SerialPrepares, OneAtATime, Holds, Latest, PreparesPart,
         PreparedPart
<1>3. SerialPrepared'
  BY DEF Installed, FreeApply, TypeOK, SerialPrepared, OneAtATime, Holds, Latest, PreparesPart,
         PreparedPart, SerialPrepares
<1>4. SerialApplies'
  BY DEF Installed, FreeApply, TypeOK, SerialApplies, OneAtATime, Holds, Latest, PreparesPart,
         PreparedPart, AppliesPart, SerialPrepared, RunsAcked, LinksVerified, Running, Locked
<1> QED  BY <1>1, <1>2, <1>3, <1>4

\* Reconnect: the node reconnects.
LEMMA ReconnectSerial ==
  ASSUME BaseInv, SerialPart, Reconnect
  PROVE  SerialPart'
<1> SUFFICES ASSUME ~overlapped'
             PROVE  (OneAtATime /\ SerialPrepares /\ SerialPrepared /\ SerialApplies)'
  BY DEF SerialPart
<1>0. OneAtATime /\ SerialPrepares /\ SerialPrepared /\ SerialApplies
  BY DEF SerialPart, Reconnect
<1> USE Elements, TagsAssumption, <1>0 DEF BaseInv
<1>1. OneAtATime'
  BY DEF Reconnect, TypeOK, OneAtATime
<1>2. SerialPrepares'
  BY DEF Reconnect, TypeOK, SerialPrepares, OneAtATime, Holds, Latest, PreparesPart,
         PreparedPart
<1>3. SerialPrepared'
  BY DEF Reconnect, TypeOK, SerialPrepared, OneAtATime, Holds, Latest, PreparesPart,
         PreparedPart, SerialPrepares
<1>4. SerialApplies'
  BY DEF Reconnect, TypeOK, SerialApplies, OneAtATime, Holds, Latest, PreparesPart,
         PreparedPart, AppliesPart, SerialPrepared, RunsAcked, LinksVerified, Running, Locked
<1> QED  BY <1>1, <1>2, <1>3, <1>4

\* Ends: the node process ends.
LEMMA EndsSerial ==
  ASSUME BaseInv, SerialPart, Ends
  PROVE  SerialPart'
<1> SUFFICES ASSUME ~overlapped'
             PROVE  (OneAtATime /\ SerialPrepares /\ SerialPrepared /\ SerialApplies)'
  BY DEF SerialPart
<1>0. OneAtATime /\ SerialPrepares /\ SerialPrepared /\ SerialApplies
  BY DEF SerialPart, Ends
<1> USE Elements, TagsAssumption, <1>0 DEF BaseInv
<1>1. OneAtATime'
  BY DEF Ends, FreePrepare, FreeApply, Writers, TypeOK, OneAtATime
<1>2. SerialPrepares'
  BY DEF Ends, FreePrepare, FreeApply, Writers, TypeOK, SerialPrepares, OneAtATime, Holds,
         Latest, PreparesPart, PreparedPart
<1>3. SerialPrepared'
  BY DEF Ends, FreePrepare, FreeApply, Writers, TypeOK, SerialPrepared, OneAtATime, Holds,
         Latest, PreparesPart, PreparedPart, SerialPrepares
<1>4. SerialApplies'
  BY DEF Ends, FreePrepare, FreeApply, Writers, TypeOK, SerialApplies, OneAtATime, Holds,
         Latest, PreparesPart, PreparedPart, AppliesPart, SerialPrepared, RunsAcked,
         LinksVerified, Running, Locked
<1> QED  BY <1>1, <1>2, <1>3, <1>4

\* Start: the node starts.
LEMMA StartSerial ==
  ASSUME BaseInv, SerialPart, Start
  PROVE  SerialPart'
<1> SUFFICES ASSUME ~overlapped'
             PROVE  (OneAtATime /\ SerialPrepares /\ SerialPrepared /\ SerialApplies)'
  BY DEF SerialPart
<1>0. OneAtATime /\ SerialPrepares /\ SerialPrepared /\ SerialApplies
  BY DEF SerialPart, Start
<1> USE Elements, TagsAssumption, <1>0 DEF BaseInv
<1>1. OneAtATime'
  BY DEF Start, TypeOK, OneAtATime
<1>2. SerialPrepares'
  BY DEF Start, TypeOK, SerialPrepares, OneAtATime, Holds, Latest, PreparesPart, PreparedPart
<1>3. SerialPrepared'
  BY DEF Start, TypeOK, SerialPrepared, OneAtATime, Holds, Latest, PreparesPart, PreparedPart,
         SerialPrepares
<1>4. SerialApplies'
  BY DEF Start, TypeOK, SerialApplies, OneAtATime, Holds, Latest, PreparesPart, PreparedPart,
         AppliesPart, SerialPrepared, RunsAcked, LinksVerified, Running, Locked
<1> QED  BY <1>1, <1>2, <1>3, <1>4
-----------------------------------------------------------------------------
(***************************************************************************)
(* The theorems.                                                           *)
(***************************************************************************)
\* Every step keeps the invariant: one case per action.
LEMMA Step ==
  ASSUME IInv, [Next]_vars
  PROVE  IInv'
<1> USE DEF IInv
<1>1. CASE \E u \in Updates : PrepareNotNeeded(u)
  BY <1>1, PrepareNotNeededBase, PrepareNotNeededSerial
<1>2. CASE \E p \in Prepares, u \in Updates : Prepare(p, u)
  BY <1>2, PrepareBase, PrepareSerial
<1>3. CASE \E p \in Prepares : DownloadFails(p)
  BY <1>3, DownloadFailsBase, DownloadFailsSerial
<1>4. CASE \E p \in Prepares : Downloaded(p)
  BY <1>4, DownloadedBase, DownloadedSerial
<1>5. CASE \E p \in Prepares : WriteFails(p)
  BY <1>5, WriteFailsBase, WriteFailsSerial
<1>6. CASE \E p \in Prepares : Written(p)
  BY <1>6, WrittenBase, WrittenSerial
<1>7. CASE \E a \in Applies, u \in Updates : Apply(a, u)
  BY <1>7, ApplyBase, ApplySerial
<1>8. CASE \E a \in Applies : Fire(a)
  BY <1>8, FireBase, FireSerial
<1>9. CASE \E a \in Applies : AcquireLock(a)
  BY <1>9, AcquireLockBase, AcquireLockSerial
<1>10. CASE \E a \in Applies : GiveUp(a)
  BY <1>10, GiveUpBase, GiveUpSerial
<1>11. CASE \E a \in Applies, b \in Builds : Unpack(a, b)
  BY <1>11, UnpackBase, UnpackSerial
<1>12. CASE \E a \in Applies : Unlink(a)
  BY <1>12, UnlinkBase, UnlinkSerial
<1>13. CASE \E a \in Applies : Link(a)
  BY <1>13, LinkBase, LinkSerial
<1>14. CASE \E a \in Applies : InstallerFails(a)
  BY <1>14, InstallerFailsBase, InstallerFailsSerial
<1>15. CASE \E a \in Applies : InstallerKilled(a)
  BY <1>15, InstallerKilledBase, InstallerKilledSerial
<1>16. CASE \E a \in Applies : Installed(a)
  BY <1>16, InstalledBase, InstalledSerial
<1>17. CASE Reconnect
  BY <1>17, ReconnectBase, ReconnectSerial
<1>18. CASE Ends
  BY <1>18, EndsBase, EndsSerial
<1>19. CASE Start
  BY <1>19, StartBase, StartSerial
<1>20. CASE UNCHANGED vars
  <2> USE <1>20 DEF vars
  <2>1. BaseInv'
    BY DEF BaseInv, TypeOK, PreparesPart, PreparedPart, AppliesPart
  <2>2. OnlyPrepared'
    BY DEF OnlyPrepared
  <2>3. OneAtATime' = OneAtATime /\ SerialPrepares' = SerialPrepares
    BY DEF OneAtATime, SerialPrepares, Holds, Latest
  <2>4. SerialPrepared' = SerialPrepared
    BY DEF SerialPrepared, Holds, Latest
  <2>5. SerialApplies' = SerialApplies
    BY DEF SerialApplies, Holds, Latest, RunsAcked, LinksVerified
  <2>6. SerialPart'
    BY <2>3, <2>4, <2>5 DEF SerialPart
  <2> QED  BY <2>1, <2>2, <2>6
<1>21. CASE \E a \in Applies : Exit(a)
  BY <1>21, EndsBase, EndsSerial DEF Exit
<1>22. CASE Crash
  BY <1>22, EndsBase, EndsSerial DEF Crash
<1> QED
  BY <1>1, <1>2, <1>3, <1>4, <1>5, <1>6, <1>7, <1>8, <1>9, <1>10, <1>11, <1>12, <1>13, <1>14,
     <1>15, <1>16, <1>17, <1>18, <1>19, <1>20, <1>21, <1>22 DEF Next, PrepareStep, ApplyStep

\* The invariant holds of every behaviour of the update path.
THEOREM Invariant == Spec => []IInv
<1>1. Init => IInv
  BY InitBase, InitSerial DEF IInv
<1>2. IInv /\ [Next]_vars => IInv'
  BY Step
<1> QED  BY <1>1, <1>2, PTL DEF Spec

\* Every variable keeps its type: a timer finds a prepared update, and the node only
\* ever runs a release.
THEOREM TypeCorrect == Spec => []TypeOK
<1>1. IInv => TypeOK
  BY DEF IInv, BaseInv
<1> QED  BY <1>1, Invariant, PTL

\* For any number of installers at most one is past the lock of install-release.sh.
THEOREM InstallersExclude == Spec => []OneInstaller
<1>1. IInv => OneInstaller
  BY DEF IInv, BaseInv, AppliesPart, OneInstaller
<1> QED  BY <1>1, Invariant, PTL

\* However prepares and applies overlap, an installer is given an update that a prepare
\* of the same connection has verified.
THEOREM InstallsOnlyPrepared == Spec => []OnlyPrepared
<1>1. IInv => OnlyPrepared
  BY DEF IInv
<1> QED  BY <1>1, Invariant, PTL

\* Requests that do not overlap install the acknowledged update's verified artifact.
THEOREM SerialServerCorrect == Spec => []SerialServerSafe
<1>1. IInv => SerialServerSafe
  BY DEF IInv, SerialPart, SerialApplies, SerialServerSafe
<1> QED  BY <1>1, Invariant, PTL
=============================================================================
