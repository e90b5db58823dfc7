---------------------------- MODULE SetupProofs -----------------------------
(***************************************************************************)
(* Proofs about Setup, for any number of requests, sessions and terminal   *)
(* runs at once and any directories, addresses and wallets.                *)
(***************************************************************************)
EXTENDS Setup, TLAPS

\* An evaluation is on record only after an installed version and a directory.
Ordered(p) == p.evalPassedAt => p.installedVersion /\ p.installDir # None

\* What a job carries is enough for the stage it is in: what it will write back cannot break the
\* order, however old it is.
JobOrdered(j) ==
  /\ Ordered(j.next)
  /\ j.stage = "start" /\ j.phase = "write" /\ j.op = "cli" => j.next.installDir # None
  /\ j.stage = "install" => j.next.installDir # None
  /\ j.stage = "install" /\ j.phase = "write" => j.next.installedVersion
  /\ j.stage \in {"ipv4", "ipv6", "region", "eval"} => j.next.installDir # None /\ j.next.installedVersion

Inv ==
  /\ TypeOK
  /\ Ordered(file.progress)
  /\ \A a \in Actors : JobOrdered(jobs[a]) /\ (jobs[a].stage \in {"config", "pm2"} => joined)
  /\ (node_id => joined)

Job == [op : Ops \cup {"none"}, stage : Stages, phase : {"work", "write"}, next : Progress]
-----------------------------------------------------------------------------
\* Progress without any step, as readJson returns it for a missing or unreadable file, is in order.
LEMMA NothingOrdered == NoProgress \in Progress /\ Ordered(NoProgress) /\ Idle \in Job /\ JobOrdered(Idle)
BY DEF NoProgress, Progress, Ordered, Idle, Job, JobOrdered, Ops, Stages

\* The stage after a completed save is a stage (main of setup.ts).
LEMMA AfterStage == ASSUME NEW op, NEW stage \in Stages, NEW p PROVE After(op, stage, p) \in Stages
BY DEF After, Stages

\* A job that goes on from a completed stage is in order at the next one.
LEMMA AfterOrdered ==
  ASSUME NEW j \in Job, JobOrdered(j),
         j.phase = "write" \/ (j.stage = "install" /\ j.next.installedVersion) \/ j.stage \in {"eval", "email"}
  PROVE  LET k == Goto(j, After(j.op, j.stage, j.next))
         IN  k \in Job /\ JobOrdered(k) /\ k.stage \notin {"config", "pm2"}
<1> DEFINE st == After(j.op, j.stage, j.next)
<1>1. st \in Stages BY AfterStage DEF Job
<1>2. CASE st = "end"
  BY <1>2, NothingOrdered DEF Goto, Idle
<1>3. CASE st # "end"
  <2> DEFINE k == [j EXCEPT !.stage = st, !.phase = "work"]
  <2>1. Goto(j, st) = k BY <1>3 DEF Goto
  <2>2. k \in Job /\ k.stage = st /\ k.phase = "work" /\ k.next = j.next /\ k.op = j.op
    BY <1>1 DEF Job
  <2>3. st \notin {"config", "pm2"} /\ st # "start" BY <1>3 DEF After
  <2>4. st = "install" => j.op = "cli" /\ j.stage = "start" BY <1>3 DEF After
  <2>5. st = "ipv4" => j.op = "cli" /\ j.stage = "install" BY <1>3 DEF After
  <2>6. st \in {"ipv6", "region", "eval"} => j.stage \in {"ipv4", "ipv6", "region"} BY <1>3 DEF After
  <2>7. JobOrdered(k)
    BY <2>2, <2>3, <2>4, <2>5, <2>6 DEF JobOrdered, Job
  <2> QED BY <2>1, <2>2, <2>3, <2>7
<1> QED BY <1>2, <1>3
-----------------------------------------------------------------------------
\* A step that only saves: the file is truncated, the actor's job holds what is in order for its stage.
LEMMA SavePreserves ==
  ASSUME Inv, NEW a \in Actors, NEW p \in Progress, Save(a, p), jobs[a].stage \notin {"config", "pm2"},
         JobOrdered([jobs[a] EXCEPT !.next = p, !.phase = "write"])
  PROVE  /\ file' \in [text : {"empty", "corrupt", "whole"}, progress : Progress] /\ Ordered(file'.progress)
         /\ jobs' \in [Actors -> Job]
         /\ \A b \in Actors : JobOrdered(jobs'[b]) /\ (jobs'[b].stage \in {"config", "pm2"} => joined)
<1> DEFINE k == [jobs[a] EXCEPT !.next = p, !.phase = "write"]
<1>1. jobs \in [Actors -> Job] BY DEF Inv, TypeOK, Job
<1>2. k \in Job /\ k.stage = jobs[a].stage BY <1>1 DEF Job
<1>3. jobs' = [jobs EXCEPT ![a] = k] BY <1>1 DEF Save, Job
<1>4. file'.progress = NoProgress /\ file' \in [text : {"empty", "corrupt", "whole"}, progress : Progress]
  BY NothingOrdered DEF Save, Unread
<1>5. \A b \in Actors : jobs'[b] = IF b = a THEN k ELSE jobs[b] BY <1>1, <1>3
<1> HIDE DEF k
<1>6. jobs' \in [Actors -> Job] BY <1>1, <1>2, <1>3
<1>7. \A b \in Actors : JobOrdered(jobs'[b]) /\ (jobs'[b].stage \in {"config", "pm2"} => joined)
  BY <1>2, <1>5 DEF Inv, k
<1> QED BY <1>4, <1>6, <1>7, NothingOrdered

\* A step that only changes one job, to one in order.
LEMMA JobPreserves ==
  ASSUME Inv, NEW a \in Actors, NEW k \in Job, JobOrdered(k), jobs' = [jobs EXCEPT ![a] = k],
         k.stage \in {"config", "pm2"} => joined'
  PROVE  /\ jobs' \in [Actors -> Job]
         /\ \A b \in Actors : JobOrdered(jobs'[b]) /\ (b # a => jobs'[b] = jobs[b])
         /\ (joined => joined') => \A b \in Actors : jobs'[b].stage \in {"config", "pm2"} => joined'
<1>1. jobs \in [Actors -> Job] BY DEF Inv, TypeOK, Job
<1>2. \A b \in Actors : jobs'[b] = IF b = a THEN k ELSE jobs[b] BY <1>1
<1>3. jobs' \in [Actors -> Job] BY <1>1
<1> QED BY <1>2, <1>3 DEF Inv
-----------------------------------------------------------------------------
\* What the environment's variables are.
World ==
  /\ runtime \subseteq Dirs /\ fresh \subseteq Contacts
  /\ joinAuth \in BOOLEAN /\ joined \in BOOLEAN /\ node_id \in BOOLEAN

\* The invariant after a step, from its parts.
LEMMA Assemble ==
  ASSUME Inv, World', joined => joined', node_id' => joined',
         file' \in [text : {"empty", "corrupt", "whole"}, progress : Progress], Ordered(file'.progress),
         jobs' \in [Actors -> Job],
         \A b \in Actors : JobOrdered(jobs'[b]) /\ (jobs'[b].stage \in {"config", "pm2"} => joined')
  PROVE  Inv'
BY DEF Inv, TypeOK, World, Job, JobOrdered, Ordered

\* Every initial state is in order: nothing is recorded and nothing under way.
LEMMA InitOrdered == Init => Inv
<1> SUFFICES ASSUME Init PROVE Inv OBVIOUS
<1>1. file \in [text : {"empty", "corrupt", "whole"}, progress : Progress] /\ file.progress = NoProgress
  BY NothingOrdered DEF Init, Unread
<1>2. jobs \in [Actors -> Job] /\ \A a \in Actors : jobs[a] = Idle
  BY NothingOrdered DEF Init
<1>3. TypeOK BY <1>1, <1>2 DEF Init, TypeOK, Job
<1>4. \A a \in Actors : JobOrdered(jobs[a]) /\ (jobs[a].stage \in {"config", "pm2"} => joined)
  BY <1>2, NothingOrdered DEF Idle
<1> QED BY <1>1, <1>3, <1>4, NothingOrdered DEF Inv, Init

\* A save that leaves the rest of the world alone, or only adds to it.
LEMMA SaveStep ==
  ASSUME Inv, World', UNCHANGED <<joined, node_id>>,
         NEW a \in Actors, NEW p \in Progress, Save(a, p), jobs[a].stage \notin {"config", "pm2"}, Ordered(p),
         jobs[a].stage = "start" /\ jobs[a].op = "cli" => p.installDir # None,
         jobs[a].stage \in {"install", "ipv4", "ipv6", "region", "eval"} => p.installDir # None /\ p.installedVersion
  PROVE  Inv'
<1> DEFINE k == [jobs[a] EXCEPT !.next = p, !.phase = "write"]
<1>1. (node_id' => joined') BY DEF Inv
<1>2. k.stage = jobs[a].stage /\ k.op = jobs[a].op /\ k.phase = "write" /\ k.next = p
  BY DEF Inv, TypeOK
<1>3. JobOrdered(k) BY <1>2 DEF JobOrdered
<1> QED BY <1>1, <1>3, SavePreserves, Assemble

\* A step that changes one job and no file.
LEMMA JobStep ==
  ASSUME Inv, World', UNCHANGED file, joined => joined', node_id' => joined',
         NEW a \in Actors, NEW k \in Job, JobOrdered(k), jobs' = [jobs EXCEPT ![a] = k],
         k.stage \in {"config", "pm2"} => joined'
  PROVE  Inv'
<1>1. file' \in [text : {"empty", "corrupt", "whole"}, progress : Progress] /\ Ordered(file'.progress)
  BY DEF Inv, TypeOK
<1> QED BY <1>1, JobPreserves, Assemble
-----------------------------------------------------------------------------
\* Every request and every step of a job keeps the order: what a job read at its start was enough for
\* its stage then, and stays enough whatever others have written since.
LEMMA StepOrdered == ASSUME Inv, NEW a \in Actors, Step(a) PROVE Inv'
<1> DEFINE j == jobs[a]
<1>1. World BY DEF Inv, TypeOK, World
<1>2. /\ jobs \in [Actors -> Job] /\ j \in Job /\ j.next \in Progress /\ Ordered(j.next)
      /\ JobOrdered(j) /\ (j.stage \in {"config", "pm2"} => joined)
      /\ file.progress \in Progress /\ Ordered(file.progress) /\ (node_id => joined)
  BY DEF Inv, TypeOK, Job, JobOrdered
<1>3. ASSUME UNCHANGED world PROVE World' /\ UNCHANGED <<joined, node_id>> /\ (node_id' => joined')
  BY <1>1, <1>2, <1>3 DEF World, world
<1>4. ASSUME NEW op \in Ops, NEW stage \in Stages, Start(a, op, stage), UNCHANGED world,
             stage = "install" => op = "install", stage = "ipv4" => op = "network",
             stage \notin {"ipv6", "region", "eval"}, stage \in {"config", "pm2"} => joined
      PROVE  Inv'
  <2> DEFINE k == [op |-> op, stage |-> stage, phase |-> "work", next |-> Loaded]
  <2>1. k \in Job BY <1>2 DEF Job, Loaded
  <2>2. JobOrdered(k)
    BY <1>2, <1>4 DEF JobOrdered, Start, Gate, InstallReady, ConnectionReady, Loaded
  <2>3. jobs' = [jobs EXCEPT ![a] = k] /\ UNCHANGED file BY <1>4 DEF Start
  <2> QED BY <1>3, <1>4, <2>1, <2>2, <2>3, JobStep
<1>5. ASSUME Answer(a), UNCHANGED <<joined, node_id>>, World' PROVE Inv'
  BY <1>2, <1>5, NothingOrdered, JobStep DEF Answer, Idle
<1>6. ASSUME Skip(a), UNCHANGED world,
             (j.stage = "install" /\ j.next.installedVersion) \/ j.stage \in {"eval", "email"}
      PROVE  Inv'
  <2> DEFINE k == Goto(j, After(j.op, j.stage, j.next))
  <2>1. k \in Job /\ JobOrdered(k) /\ k.stage \notin {"config", "pm2"} BY <1>2, <1>6, AfterOrdered
  <2>2. jobs' = [jobs EXCEPT ![a] = k] /\ UNCHANGED file BY <1>2, <1>6 DEF Skip
  <2> HIDE DEF k
  <2>3. World' /\ UNCHANGED <<joined, node_id>> /\ (node_id' => joined') BY <1>3, <1>6
  <2> QED BY <2>1, <2>2, <2>3, JobStep
<1>10. CASE Request(a)
  <2>1. UNCHANGED world BY <1>10 DEF Request
  <2>2. CASE Start(a, "agreement", "start") BY <2>1, <2>2, <1>4 DEF Ops, Stages
  <2>3. CASE Start(a, "connection", "start") BY <2>1, <2>3, <1>4 DEF Ops, Stages
  <2>4. CASE Start(a, "install", "install") BY <2>1, <2>4, <1>4 DEF Ops, Stages
  <2>5. CASE Start(a, "network", "ipv4") BY <2>1, <2>5, <1>4 DEF Ops, Stages
  <2>6. CASE Start(a, "email", "email") BY <2>1, <2>6, <1>4 DEF Ops, Stages
  <2>7. CASE Start(a, "wallet", "session") BY <2>1, <2>7, <1>4 DEF Ops, Stages
  <2>8. CASE Start(a, "register", "port") BY <2>1, <2>8, <1>4 DEF Ops, Stages
  <2>9. CASE node_id /\ Start(a, "pm2", "pm2") BY <1>2, <2>1, <2>9, <1>4 DEF Ops, Stages
  <2> QED BY <1>10, <2>2, <2>3, <2>4, <2>5, <2>6, <2>7, <2>8, <2>9 DEF Request
<1>11. CASE RunTerminal(a)
  BY <1>11, <1>4 DEF RunTerminal, Ops, Stages
<1>12. CASE EndWrite(a)
  <2> DEFINE k == Goto(j, After(j.op, j.stage, j.next))
  <2>1. k \in Job /\ JobOrdered(k) /\ k.stage \notin {"config", "pm2"} BY <1>2, <1>12, AfterOrdered DEF EndWrite
  <2>2. jobs' = [jobs EXCEPT ![a] = k] BY <1>2, <1>12 DEF EndWrite
  <2>3. World' /\ UNCHANGED <<joined, node_id>> /\ (node_id' => joined') BY <1>3, <1>12 DEF EndWrite
  <2>4. file' \in [text : {"empty", "corrupt", "whole"}, progress : Progress] /\ Ordered(file'.progress)
    BY <1>2, <1>12, NothingOrdered DEF EndWrite, Unread
  <2> HIDE DEF k
  <2> QED BY <2>1, <2>2, <2>3, <2>4, JobPreserves, Assemble
<1>13. CASE Fail(a)
  BY <1>3, <1>5, <1>13 DEF Fail
<1>14. CASE RecordOperatorAgreement(a)
  <2> DEFINE p == [j.next EXCEPT !.agreed = TRUE]
  <2>1. /\ p \in Progress /\ Ordered(p)
        /\ j.stage = "start" /\ j.op = "cli" => p.installDir # None
        /\ j.stage \in {"install", "ipv4", "ipv6", "region", "eval"} => p.installDir # None /\ p.installedVersion
        /\ j.stage \notin {"config", "pm2"}
    BY <1>2, <1>14 DEF RecordOperatorAgreement, At, Progress, Ordered, JobOrdered
  <2>2. World' /\ UNCHANGED <<joined, node_id>> BY <1>3, <1>14 DEF RecordOperatorAgreement
  <2>3. Save(a, p) BY <1>14 DEF RecordOperatorAgreement
  <2> HIDE DEF p
  <2> QED BY <2>1, <2>2, <2>3, SaveStep
<1>15. ASSUME NEW d \in Dirs, RecordConnection(a, d) PROVE Inv'
  <2> DEFINE p == [j.next EXCEPT !.installDir = d]
  <2>1. /\ p \in Progress /\ Ordered(p)
        /\ j.stage = "start" /\ j.op = "cli" => p.installDir # None
        /\ j.stage \in {"install", "ipv4", "ipv6", "region", "eval"} => p.installDir # None /\ p.installedVersion
        /\ j.stage \notin {"config", "pm2"}
    BY <1>2, <1>15, SetupAssumption DEF RecordConnection, At, Progress, Ordered, JobOrdered
  <2>2. World' /\ UNCHANGED <<joined, node_id>> BY <1>3, <1>15 DEF RecordConnection
  <2>3. Save(a, p) BY <1>15 DEF RecordConnection
  <2> HIDE DEF p
  <2> QED BY <2>1, <2>2, <2>3, SaveStep
<1>16. CASE RecordPort(a)
  <2> DEFINE p == j.next
  <2>1. /\ p \in Progress /\ Ordered(p)
        /\ j.stage = "start" /\ j.op = "cli" => p.installDir # None
        /\ j.stage \in {"install", "ipv4", "ipv6", "region", "eval"} => p.installDir # None /\ p.installedVersion
        /\ j.stage \notin {"config", "pm2"}
    BY <1>2, <1>16 DEF RecordPort, At, Progress, Ordered, JobOrdered
  <2>2. World' /\ UNCHANGED <<joined, node_id>> BY <1>3, <1>16 DEF RecordPort
  <2>3. Save(a, p) BY <1>16 DEF RecordPort
  <2> HIDE DEF p
  <2> QED BY <2>1, <2>2, <2>3, SaveStep
<1>17. CASE ReuseRuntime(a)
  <2>1. j.stage = "install" /\ j.next.installedVersion /\ j.next.installDir # None /\ UNCHANGED world
    BY <1>2, <1>17 DEF ReuseRuntime, At, JobOrdered
  <2>2. CASE j.op = "cli" BY <1>6, <1>17, <2>1, <2>2 DEF ReuseRuntime
  <2>3. CASE j.op # "cli" BY <1>2, <1>3, <1>17, <2>1, <2>3, SaveStep DEF ReuseRuntime
  <2> QED BY <2>2, <2>3
<1>18. CASE Install(a)
  <2> DEFINE p == [j.next EXCEPT !.installedVersion = TRUE]
  <2>1. /\ p \in Progress /\ Ordered(p)
        /\ j.stage = "start" /\ j.op = "cli" => p.installDir # None
        /\ j.stage \in {"install", "ipv4", "ipv6", "region", "eval"} => p.installDir # None /\ p.installedVersion
        /\ j.stage \notin {"config", "pm2"}
    BY <1>2, <1>18 DEF Install, At, Progress, Ordered, JobOrdered
  <2>2. World' /\ UNCHANGED <<joined, node_id>> BY <1>1, <1>2, <1>18, <2>1 DEF Install, World, At, Job, JobOrdered, Progress
  <2>3. Save(a, p) BY <1>18 DEF Install
  <2> HIDE DEF p
  <2> QED BY <2>1, <2>2, <2>3, SaveStep
<1>19. CASE Detect(a)
  <2> DEFINE p == [j.next EXCEPT !.publicIpv4 = TRUE]
  <2>1. /\ p \in Progress /\ Ordered(p)
        /\ j.stage = "start" /\ j.op = "cli" => p.installDir # None
        /\ j.stage \in {"install", "ipv4", "ipv6", "region", "eval"} => p.installDir # None /\ p.installedVersion
        /\ j.stage \notin {"config", "pm2"}
    BY <1>2, <1>19 DEF Detect, At, Progress, Ordered, JobOrdered
  <2>2. World' /\ UNCHANGED <<joined, node_id>> BY <1>3, <1>19 DEF Detect
  <2>3. Save(a, p) BY <1>19 DEF Detect
  <2> HIDE DEF p
  <2> QED BY <2>1, <2>2, <2>3, SaveStep
<1>20. CASE ReuseJoinAuth(a)
  <2> DEFINE p == [j.next EXCEPT !.evalPassedAt = TRUE]
  <2>1. j.stage = "eval" /\ UNCHANGED world /\ j.next.installDir # None /\ j.next.installedVersion
    BY <1>2, <1>20 DEF ReuseJoinAuth, At, JobOrdered
  <2>2. CASE j.op = "cli" BY <1>6, <1>20, <2>1, <2>2 DEF ReuseJoinAuth
  <2>3. CASE j.op # "cli"
    <3>1. p \in Progress /\ Ordered(p) /\ p.installDir # None /\ p.installedVersion
      BY <1>2, <2>1 DEF Progress, Ordered
    <3>2. Save(a, p) BY <1>20, <2>3 DEF ReuseJoinAuth
    <3> HIDE DEF p
    <3> QED BY <1>3, <2>1, <3>1, <3>2, SaveStep
  <2> QED BY <2>2, <2>3
<1>21. CASE Evaluate(a)
  <2> DEFINE p == [j.next EXCEPT !.evalPassedAt = TRUE]
  <2>1. /\ p \in Progress /\ Ordered(p)
        /\ j.stage = "start" /\ j.op = "cli" => p.installDir # None
        /\ j.stage \in {"install", "ipv4", "ipv6", "region", "eval"} => p.installDir # None /\ p.installedVersion
        /\ j.stage \notin {"config", "pm2"}
    BY <1>2, <1>21 DEF Evaluate, At, Progress, Ordered, JobOrdered
  <2>2. World' /\ UNCHANGED <<joined, node_id>> BY <1>1, <1>2, <1>21, <2>1 DEF Evaluate, World, At, Job, JobOrdered, Progress
  <2>3. Save(a, p) BY <1>21 DEF Evaluate
  <2> HIDE DEF p
  <2> QED BY <2>1, <2>2, <2>3, SaveStep
<1>22. ASSUME NEW c \in Contacts, Contact(a, c) PROVE Inv'
  <2> DEFINE p == [j.next EXCEPT !.contact = c]
  <2>1. /\ p \in Progress /\ Ordered(p)
        /\ j.stage = "start" /\ j.op = "cli" => p.installDir # None
        /\ j.stage \in {"install", "ipv4", "ipv6", "region", "eval"} => p.installDir # None /\ p.installedVersion
        /\ j.stage \notin {"config", "pm2"}
    BY <1>2, <1>22 DEF Contact, At, Progress, Ordered, JobOrdered
  <2>2. World' /\ UNCHANGED <<joined, node_id>> BY <1>3, <1>22 DEF Contact
  <2>3. Save(a, p) BY <1>22 DEF Contact
  <2> HIDE DEF p
  <2> QED BY <2>1, <2>2, <2>3, SaveStep
<1>23. CASE ReuseEmailToken(a)
  BY <1>6, <1>23 DEF ReuseEmailToken, At
<1>24. ASSUME NEW c \in Contacts, VerifyEmail(a, c) PROVE Inv'
  <2> DEFINE p == [j.next EXCEPT !.contact = c, !.token = c]
  <2>1. /\ p \in Progress /\ Ordered(p)
        /\ j.stage = "start" /\ j.op = "cli" => p.installDir # None
        /\ j.stage \in {"install", "ipv4", "ipv6", "region", "eval"} => p.installDir # None /\ p.installedVersion
        /\ j.stage \notin {"config", "pm2"}
    BY <1>2, <1>24 DEF VerifyEmail, At, Progress, Ordered, JobOrdered
  <2>2. World' /\ UNCHANGED <<joined, node_id>> BY <1>1, <1>2, <1>24, <2>1 DEF VerifyEmail, World, At, Job, JobOrdered, Progress
  <2>3. Save(a, p) BY <1>24 DEF VerifyEmail
  <2> HIDE DEF p
  <2> QED BY <2>1, <2>2, <2>3, SaveStep
<1>25. ASSUME NEW ws \in SUBSET Wallets, CollectWalletAddresses(a, ws) PROVE Inv'
  <2> DEFINE p == [j.next EXCEPT !.wallets = @ \cup ws]
  <2>1. /\ p \in Progress /\ Ordered(p)
        /\ j.stage = "start" /\ j.op = "cli" => p.installDir # None
        /\ j.stage \in {"install", "ipv4", "ipv6", "region", "eval"} => p.installDir # None /\ p.installedVersion
        /\ j.stage \notin {"config", "pm2"}
    BY <1>2, <1>25 DEF CollectWalletAddresses, At, Progress, Ordered, JobOrdered
  <2>2. World' /\ UNCHANGED <<joined, node_id>> BY <1>3, <1>25 DEF CollectWalletAddresses
  <2>3. Save(a, p) BY <1>25 DEF CollectWalletAddresses
  <2> HIDE DEF p
  <2> QED BY <2>1, <2>2, <2>3, SaveStep
<1>26. ASSUME NEW ws \in SUBSET Wallets, Capture(a, ws) PROVE Inv'
  <2> DEFINE k == [j EXCEPT !.stage = "wallets", !.next = [NoProgress EXCEPT !.wallets = ws]]
  <2>1. jobs' = [jobs EXCEPT ![a] = k] /\ UNCHANGED file BY <1>2, <1>26 DEF Capture
  <2>2. World' /\ joined' = joined /\ (node_id' => joined') BY <1>1, <1>2, <1>26 DEF Capture, World
  <2>3. [NoProgress EXCEPT !.wallets = ws] \in Progress /\ Ordered([NoProgress EXCEPT !.wallets = ws])
    BY <1>26, NothingOrdered DEF Progress, Ordered, NoProgress
  <2>4. k \in Job /\ k.stage = "wallets" /\ k.next = [NoProgress EXCEPT !.wallets = ws]
    BY <1>2, <2>3 DEF Job, Stages
  <2> HIDE DEF k
  <2>5. JobOrdered(k) BY <2>3, <2>4 DEF JobOrdered
  <2> QED BY <2>1, <2>2, <2>4, <2>5, JobStep
<1>27. CASE MergeCaptured(a)
  <2> DEFINE p == [Loaded EXCEPT !.wallets = @ \cup j.next.wallets]
             k == [j EXCEPT !.stage = "merge", !.next = p]
  <2>1. jobs' = [jobs EXCEPT ![a] = k] /\ UNCHANGED file BY <1>2, <1>27 DEF MergeCaptured
  <2>2. p \in Progress /\ Ordered(p) BY <1>2 DEF Progress, Ordered, Loaded
  <2>3. k \in Job /\ k.stage = "merge" /\ k.next = p BY <1>2, <2>2 DEF Job, Stages
  <2>4. World' /\ joined' = joined /\ (node_id' => joined') BY <1>3, <1>27 DEF MergeCaptured
  <2> HIDE DEF k, p
  <2>5. JobOrdered(k) BY <2>2, <2>3 DEF JobOrdered
  <2> QED BY <2>1, <2>3, <2>4, <2>5, JobStep
<1>28. CASE SaveCaptured(a)
  <2> DEFINE p == j.next
  <2>1. /\ p \in Progress /\ Ordered(p)
        /\ j.stage = "start" /\ j.op = "cli" => p.installDir # None
        /\ j.stage \in {"install", "ipv4", "ipv6", "region", "eval"} => p.installDir # None /\ p.installedVersion
        /\ j.stage \notin {"config", "pm2"}
    BY <1>2, <1>28 DEF SaveCaptured, At, Progress, Ordered, JobOrdered
  <2>2. World' /\ UNCHANGED <<joined, node_id>> BY <1>3, <1>28 DEF SaveCaptured
  <2>3. Save(a, p) BY <1>28 DEF SaveCaptured
  <2> HIDE DEF p
  <2> QED BY <2>1, <2>2, <2>3, SaveStep
<1>29. ASSUME NEW st \in {"config", "pm2"}, jobs' = [jobs EXCEPT ![a].stage = st],
              j.stage \in {"register", "config"}, UNCHANGED file, joined', World'
       PROVE  Inv'
  <2> DEFINE k == [j EXCEPT !.stage = st]
  <2>1. k \in Job /\ k.stage = st /\ k.next = j.next /\ k.op = j.op /\ k.phase = j.phase
    BY <1>2, <1>29 DEF Job, Stages
  <2>2. jobs' = [jobs EXCEPT ![a] = k] BY <1>2, <1>29
  <2> HIDE DEF k
  <2>3. JobOrdered(k) BY <1>2, <1>29, <2>1 DEF JobOrdered
  <2> QED BY <1>29, <2>1, <2>2, <2>3, JobStep
<1>30. CASE Register(a)
  <2>1. World' /\ joined' /\ UNCHANGED file /\ j.stage = "register"
    BY <1>1, <1>30 DEF Register, World, At
  <2> QED BY <1>29, <1>30, <2>1 DEF Register
<1>31. CASE SaveConfig(a)
  <2>1. World' /\ joined' /\ UNCHANGED file /\ j.stage = "config"
    BY <1>1, <1>2, <1>31 DEF SaveConfig, World, At
  <2>2. CASE jobs' = [jobs EXCEPT ![a].stage = "pm2"] BY <1>29, <2>1, <2>2
  <2>3. CASE jobs' = [jobs EXCEPT ![a] = Idle]
    BY <2>1, <2>3, NothingOrdered, JobStep
  <2> QED BY <1>31, <2>2, <2>3 DEF SaveConfig
<1>32. CASE AlreadyRegistered(a)
  BY <1>2, <1>3, <1>29, <1>32 DEF AlreadyRegistered, At
<1>33. CASE StartPm2(a)
  BY <1>3, <1>5, <1>33 DEF StartPm2
<1>34. CASE NoPm2(a)
  BY <1>3, <1>5, <1>34 DEF NoPm2
<1> QED
  BY <1>10, <1>11, <1>12, <1>13, <1>14, <1>15, <1>16, <1>17, <1>18, <1>19, <1>20, <1>21, <1>22, <1>23,
     <1>24, <1>25, <1>26, <1>27, <1>28, <1>30, <1>31, <1>32, <1>33, <1>34 DEF Step

\* So does the end of a process, and the aging of tokens.
LEMMA OtherOrdered == ASSUME Inv, (\E cli \in BOOLEAN : Crash(cli)) \/ Expire PROVE Inv'
<1>1. CASE \E cli \in BOOLEAN : Crash(cli)
  <2>1. /\ UNCHANGED <<file, runtime, joinAuth, fresh, joined, node_id>>
        /\ jobs' \in [Actors -> Job]
        /\ \A b \in Actors : jobs'[b] \in {Idle, jobs[b]}
    BY <1>1, NothingOrdered DEF Crash, Inv, TypeOK, Job
  <2>2. \A b \in Actors : JobOrdered(jobs'[b]) /\ (jobs'[b].stage \in {"config", "pm2"} => joined')
    BY <2>1, NothingOrdered DEF Inv, Idle
  <2>3. World' /\ (node_id' => joined') BY <2>1 DEF Inv, TypeOK, World
  <2>4. file' \in [text : {"empty", "corrupt", "whole"}, progress : Progress] /\ Ordered(file'.progress)
    BY <2>1 DEF Inv, TypeOK
  <2> QED BY <2>1, <2>2, <2>3, <2>4, Assemble
<1>2. CASE Expire
  BY <1>2 DEF Expire, Inv, TypeOK, JobOrdered, Ordered
<1> QED BY <1>1, <1>2

\* The inductive invariant of setup, however many requests, sessions and terminal runs overlap, fail
\* or are cut short.
THEOREM Invariant == Spec => []Inv
<1>1. Inv /\ UNCHANGED vars => Inv' BY DEF Inv, TypeOK, vars, JobOrdered, Ordered
<1>2. Inv /\ [Next]_vars => Inv'
  <2> SUFFICES ASSUME Inv, [Next]_vars PROVE Inv' OBVIOUS
  <2>1. CASE UNCHANGED vars BY <1>1, <2>1
  <2>2. CASE \E a \in Actors : Step(a) BY <2>2, StepOrdered
  <2>3. CASE (\E cli \in BOOLEAN : Crash(cli)) \/ Expire BY <2>3, OtherOrdered
  <2> QED BY <2>1, <2>2, <2>3 DEF Next
<1> QED BY <1>2, InitOrdered, PTL DEF Spec

\* The progress file and every job keep their types, also what is read from a file cut short
\* (readJson, loadSetupProgress).
THEOREM TypeCorrect == Spec => []TypeOK
BY Invariant, PTL DEF Inv

\* A page that is shown can be used (handleWizardRequest, installReady, registrationReady).
THEOREM PagesServe == Spec => []PageServes
<1>1. Inv => PageServes
  BY DEF Inv, TypeOK, Progress, Ordered, PageServes, Pages, Shown, Usable, Gate, ConnectionReady, InstallReady,
         RegistrationReady, Loaded
<1> QED BY <1>1, Invariant, PTL

\* PM2 is told to run the control tunnel only for a registered node (registerNodeFromWizard,
\* offerStartPm2).
THEOREM OnlyRegisteredUnderPm2 == Spec => Pm2OnlyRegistered
<1>1. Inv => [\A a \in Actors : StartPm2(a) => joined]_vars BY DEF Inv, StartPm2, At
<1> QED BY <1>1, Invariant, PTL DEF Pm2OnlyRegistered
=============================================================================
