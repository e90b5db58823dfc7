------------------------------- MODULE Setup -------------------------------
(***************************************************************************)
(* Setting a node up: the requests of the setup wizard's local server      *)
(* (src/src/setup-wizard.ts), the wallet page it opens                     *)
(* (src/src/registration/wallet-capture.ts), and the terminal version      *)
(* (src/src/setup.ts), all of which keep their progress in one file.       *)
(*                                                                         *)
(* Every handler reads the progress once, waits (for an installer, a       *)
(* benchmark, an HTTP answer, the operator), and writes back what it read  *)
(* with its own step added.  Requests overlap, and the file is written in  *)
(* place: it is truncated first, and readJson takes what it cannot parse   *)
(* for no progress at all.  The register command writes config.json the    *)
(* same way.  The server's local test flow is left out.                    *)
(***************************************************************************)
EXTENDS Naturals, FiniteSets

CONSTANTS
  Actors,    \* what may be under way at once: requests, wallet sessions, terminal runs
  Dirs,      \* install directories
  Contacts,  \* email addresses; a token carries the name of the address it was issued for
  Wallets,   \* kinds of payout address
  Terminal,  \* the operator may use the terminal version as well
  None

ASSUME SetupAssumption ==
  /\ None \notin Dirs /\ None \notin Contacts
  /\ Wallets # {} /\ Terminal \in BOOLEAN

VARIABLES
  file,        \* setup-progress.json: what it reads as, and whether it is "empty" (new or
               \* truncated), "corrupt" or "whole"
  jobs,        \* per actor, what it is doing
  runtime,     \* directories with an installed release under `current`
  joinAuth,    \* a join authorization is stored that is good for another minute
  fresh,       \* addresses whose token is good for another minute
  joined,      \* the server has registered the node
  node_id      \* config.json, as it can be read now, names the node

vars == <<file, jobs, runtime, joinAuth, fresh, joined, node_id>>
world == <<runtime, joinAuth, fresh, joined, node_id>>

\* SetupProgress.  ipv6, region and port are saved too, but nothing depends on them.
Progress == [agreed : BOOLEAN, installDir : Dirs \cup {None}, installedVersion : BOOLEAN,
             publicIpv4 : BOOLEAN, evalPassedAt : BOOLEAN,
             contact : Contacts \cup {None}, token : Contacts \cup {None},
             wallets : SUBSET Wallets]

NoProgress == [agreed |-> FALSE, installDir |-> None, installedVersion |-> FALSE,
               publicIpv4 |-> FALSE, evalPassedAt |-> FALSE,
               contact |-> None, token |-> None, wallets |-> {}]

Ops == {"agreement", "connection", "install", "network", "email", "wallet", "register", "pm2", "cli"}
Stages == {"start", "install", "ipv4", "ipv6", "region", "eval", "contact", "email",
           "session", "wallets", "merge", "port", "register", "config", "pm2", "end"}

\* Mutant of Unread: the fallback is no object.
UnreadAsNull(text) == [text |-> text, progress |-> None]

\* readJson reads a file that does not parse as no progress.
Unread(text) == [text |-> text, progress |-> NoProgress]

Idle == [op |-> "none", stage |-> "end", phase |-> "work", next |-> NoProgress]

TypeOK ==
  /\ file \in [text : {"empty", "corrupt", "whole"}, progress : Progress]
  /\ jobs \in [Actors -> [op : Ops \cup {"none"}, stage : Stages,
                          phase : {"work", "write"}, next : Progress]]
  /\ runtime \subseteq Dirs /\ fresh \subseteq Contacts
  /\ joinAuth \in BOOLEAN /\ joined \in BOOLEAN /\ node_id \in BOOLEAN
-----------------------------------------------------------------------------
\* The gates.  A request that does not pass is answered with an error and changes nothing.

\* loadSetupProgress
Loaded == file.progress

ConnectionReady(p) == p.agreed /\ p.installDir # None
InstallReady(p) == ConnectionReady(p) /\ p.installedVersion
RegistrationReady(p) == InstallReady(p) /\ p.evalPassedAt

\* Mutant of Gate: the evaluation asks for a directory only.
LooseGate(op, p) ==
  /\ op = "connection" => p.agreed
  /\ op \in {"install", "network"} => ConnectionReady(p)
  /\ op \in {"email", "wallet", "register", "pm2"} => RegistrationReady(p)

Gate(op, p) ==
  /\ op = "connection" => p.agreed
  /\ op = "install" => ConnectionReady(p)
  /\ op = "network" => InstallReady(p)
  /\ op \in {"email", "wallet", "register", "pm2"} => RegistrationReady(p)

\* registrationValidationErrors finds nothing.
Registrable(p) ==
  /\ p.contact # None /\ p.token \in fresh
  /\ p.publicIpv4 /\ p.evalPassedAt
  /\ p.wallets = Wallets

Pages == {"welcome", "connection", "install", "network", "registration", "success"}

\* GET page shows the page; otherwise it redirects to an earlier one.
Shown(page, p) ==
  /\ page # "welcome" => p.agreed
  /\ page \in {"install", "network"} => p.installDir # None
  /\ page = "network" => p.installedVersion
  /\ page \in {"registration", "success"} => p.evalPassedAt
  /\ page = "success" => node_id

\* The requests that a page makes pass their gate.
Usable(page, p) ==
  /\ page = "connection" => Gate("connection", p)
  /\ page = "install" => Gate("install", p)
  /\ page = "network" => Gate("network", p)
  /\ page = "registration" => Gate("email", p) /\ Gate("wallet", p) /\ Gate("register", p)
  /\ page = "success" => Gate("pm2", p)
-----------------------------------------------------------------------------
\* What a job does next once the save of a stage is complete.  The terminal asks for wallets until
\* it has all of them.
After(op, stage, p) ==
  CASE stage = "ipv4" -> "ipv6"
    [] stage = "ipv6" -> "region"
    [] stage = "region" -> "eval"
    [] stage = "port" -> "register"
    [] op = "cli" /\ stage = "start" -> "install"
    [] op = "cli" /\ stage = "install" -> "ipv4"
    [] op = "cli" /\ stage = "eval" -> "contact"
    [] op = "cli" /\ stage = "contact" -> "email"
    [] op = "cli" /\ stage = "email" -> "wallets"
    [] op = "cli" /\ stage = "wallets" -> IF p.wallets = Wallets THEN "port" ELSE "wallets"
    [] OTHER -> "end"

Goto(j, stage) == IF stage = "end" THEN Idle ELSE [j EXCEPT !.stage = stage, !.phase = "work"]

At(a, stage) == jobs[a].stage = stage /\ jobs[a].phase = "work"

\* saveSetupProgress(p): fs.writeFile truncates the file and then writes it.
Save(a, p) ==
  /\ file' = Unread("empty")
  /\ jobs' = [jobs EXCEPT ![a].next = p, ![a].phase = "write"]

\* The job skips the save of this stage.
Skip(a) ==
  /\ jobs' = [jobs EXCEPT ![a] = Goto(@, After(@.op, @.stage, @.next))]
  /\ file' = file

\* The request is answered, or the terminal run ends.
Answer(a) == jobs' = [jobs EXCEPT ![a] = Idle] /\ file' = file

\* A request reads the progress once, here.
Start(a, op, stage) ==
  /\ jobs[a] = Idle
  /\ Gate(op, Loaded)
  /\ jobs' = [jobs EXCEPT ![a] = [op |-> op, stage |-> stage, phase |-> "work", next |-> Loaded]]
  /\ UNCHANGED file

Init ==
  /\ file = Unread("empty") /\ jobs = [a \in Actors |-> Idle]
  /\ runtime = {} /\ joinAuth = FALSE /\ fresh = {}
  /\ joined = FALSE /\ node_id = FALSE
-----------------------------------------------------------------------------
\* Where another write came in between, the longer text may show behind the shorter one.
EndWrite(a) ==
  /\ jobs[a].phase = "write"
  /\ \/ file' = [text |-> "whole", progress |-> jobs[a].next]
     \/ file.text # "empty" /\ file' = Unread("corrupt")
  /\ jobs' = [jobs EXCEPT ![a] = Goto(@, After(@.op, @.stage, @.next))]
  /\ UNCHANGED world

Request(a) ==
  /\ \/ Start(a, "agreement", "start") \/ Start(a, "connection", "start")
     \/ Start(a, "install", "install") \/ Start(a, "network", "ipv4")
     \/ Start(a, "email", "email") \/ Start(a, "wallet", "session")
     \/ Registrable(Loaded) /\ Start(a, "register", "port")
     \/ node_id /\ Start(a, "pm2", "pm2")
  /\ UNCHANGED world

\* setup.ts; the operator has one terminal.
RunTerminal(a) ==
  /\ Terminal
  /\ \A b \in Actors : jobs[b].op # "cli"
  /\ Start(a, "cli", "start")
  /\ UNCHANGED world

RecordOperatorAgreement(a) ==
  /\ At(a, "start") /\ jobs[a].op = "agreement"
  /\ Save(a, [jobs[a].next EXCEPT !.agreed = TRUE])
  /\ UNCHANGED world

\* recordConnection, and the terminal, which does not ask for the agreement.
RecordConnection(a, d) ==
  /\ At(a, "start") /\ jobs[a].op # "agreement"
  /\ Save(a, [jobs[a].next EXCEPT !.installDir = d])
  /\ UNCHANGED world

RecordPort(a) ==
  /\ At(a, "port")
  /\ Save(a, jobs[a].next)
  /\ UNCHANGED world

\* One stage fails: the request is answered with an error, the terminal run ends.
Fail(a) ==
  /\ jobs[a].phase = "work"
  /\ jobs[a].stage \in {"install", "ipv4", "eval", "email", "register", "config", "pm2"}
  /\ Answer(a)
  /\ UNCHANGED world
-----------------------------------------------------------------------------
\* canReuseRuntime: the version is on record and there is a release.  The terminal saves nothing.
ReuseRuntime(a) ==
  /\ At(a, "install")
  /\ jobs[a].next.installedVersion /\ jobs[a].next.installDir \in runtime
  /\ IF jobs[a].op = "cli" THEN Skip(a) ELSE Save(a, jobs[a].next)
  /\ UNCHANGED world

\* downloadAndVerify and install-release.sh, into the directory read at the start.
Install(a) ==
  /\ At(a, "install")
  /\ runtime' = runtime \cup {jobs[a].next.installDir}
  /\ Save(a, [jobs[a].next EXCEPT !.installedVersion = TRUE])
  /\ UNCHANGED <<joinAuth, fresh, joined, node_id>>

\* detectPublicIpv4, then detectPublicIpv6 and fetchRegion, which may find nothing.  Each is saved.
Detect(a) ==
  /\ \E stage \in {"ipv4", "ipv6", "region"} : At(a, stage)
  /\ Save(a, [jobs[a].next EXCEPT !.publicIpv4 = TRUE])
  /\ UNCHANGED world

\* A stored join authorization saves the benchmark.  The terminal then records no evaluation.
ReuseJoinAuth(a) ==
  /\ At(a, "eval") /\ joinAuth
  /\ IF jobs[a].op = "cli" THEN Skip(a) ELSE Save(a, [jobs[a].next EXCEPT !.evalPassedAt = TRUE])
  /\ UNCHANGED world

\* `bun run eval`, which stores a join authorization.
Evaluate(a) ==
  /\ At(a, "eval") /\ jobs[a].next.installDir \in runtime
  /\ (jobs[a].op = "cli" \/ ~joinAuth)
  /\ joinAuth' = TRUE
  /\ Save(a, [jobs[a].next EXCEPT !.evalPassedAt = TRUE])
  /\ UNCHANGED <<runtime, fresh, joined, node_id>>

\* The terminal takes a contact, and keeps the token it has.
Contact(a, c) ==
  /\ At(a, "contact")
  /\ Save(a, [jobs[a].next EXCEPT !.contact = c])
  /\ UNCHANGED world

ReuseEmailToken(a) ==
  /\ At(a, "email") /\ jobs[a].op = "cli" /\ jobs[a].next.token \in fresh
  /\ Skip(a)
  /\ UNCHANGED world

\* verifyEmailCode, and verifyEmail of the terminal, whose contact is settled by then.
VerifyEmail(a, c) ==
  /\ At(a, "email")
  /\ jobs[a].op = "cli" => c = jobs[a].next.contact
  /\ fresh' = fresh \cup {c}
  /\ Save(a, [jobs[a].next EXCEPT !.contact = c, !.token = c])
  /\ UNCHANGED <<runtime, joinAuth, joined, node_id>>

\* The terminal: an address typed in, or the addresses of the browser page.
CollectWalletAddresses(a, ws) ==
  /\ At(a, "wallets") /\ jobs[a].op = "cli"
  /\ Save(a, [jobs[a].next EXCEPT !.wallets = @ \cup ws])
  /\ UNCHANGED world

\* POST /capture: the page answers that the wallets are saved and settles session.done.
Capture(a, ws) ==
  /\ At(a, "session")
  /\ jobs' = [jobs EXCEPT ![a].stage = "wallets", ![a].next = [NoProgress EXCEPT !.wallets = ws]]
  /\ UNCHANGED <<file, runtime, joinAuth, fresh, joined, node_id>>

\* session.done: the addresses are merged into the progress of this moment, whatever it is.
MergeCaptured(a) ==
  /\ At(a, "wallets") /\ jobs[a].op = "wallet"
  /\ jobs' = [jobs EXCEPT ![a].stage = "merge",
                          ![a].next = [Loaded EXCEPT !.wallets = @ \cup jobs[a].next.wallets]]
  /\ UNCHANGED <<file, world>>

SaveCaptured(a) ==
  /\ At(a, "merge")
  /\ Save(a, jobs[a].next)
  /\ UNCHANGED world

\* The register command: the server answers the join, and writeJson truncates config.json.  The
\* wizard runs it for a node whose config names no id; the terminal may run it again.
Register(a) ==
  /\ At(a, "register")
  /\ jobs[a].next.installDir \in runtime /\ (jobs[a].op = "cli" \/ ~node_id)
  /\ joined' = TRUE /\ node_id' = FALSE
  /\ jobs' = [jobs EXCEPT ![a].stage = "config"]
  /\ UNCHANGED <<file, runtime, joinAuth, fresh>>

\* The config is written; where another write came in between, what is left may not parse.  Then
\* claimMachineNode, which may fail.
SaveConfig(a) ==
  /\ At(a, "config")
  /\ node_id' \in {TRUE, ~node_id}
  /\ jobs' \in {[jobs EXCEPT ![a].stage = "pm2"], [jobs EXCEPT ![a] = Idle]}
  /\ UNCHANGED <<file, runtime, joinAuth, fresh, joined>>

\* Mutant of AlreadyRegistered: the id is not looked at.
TakenForRegistered(a) ==
  /\ At(a, "register")
  /\ jobs' = [jobs EXCEPT ![a].stage = "pm2"]
  /\ UNCHANGED <<file, world>>

AlreadyRegistered(a) ==
  /\ At(a, "register") /\ node_id
  /\ jobs' = [jobs EXCEPT ![a].stage = "pm2"]
  /\ UNCHANGED <<file, world>>

\* startPm2Control, offerStartPm2: startOrReload.  PM2 keeps what it runs itself; the answer depends
\* on whether it is online then and could be saved, which changes nothing more.
StartPm2(a) ==
  /\ At(a, "pm2") /\ jobs[a].next.installDir \in runtime
  /\ Answer(a)
  /\ UNCHANGED world

\* The operator does not want PM2 now.
NoPm2(a) ==
  /\ At(a, "pm2") /\ jobs[a].op # "pm2"
  /\ Answer(a)
  /\ UNCHANGED world

\* A process ends: the wizard with all requests and sessions, or a terminal run.
Crash(cli) ==
  LET gone == {a \in Actors : jobs[a].op \in IF cli THEN {"cli"} ELSE Ops \ {"cli"}}
  IN  /\ gone # {}
      /\ jobs' = [a \in Actors |-> IF a \in gone THEN Idle ELSE jobs[a]]
      /\ UNCHANGED <<file, runtime, joinAuth, fresh, joined, node_id>>

\* Tokens and authorizations grow old.
Expire ==
  /\ \/ joinAuth /\ joinAuth' = FALSE /\ fresh' = fresh
     \/ fresh # {} /\ fresh' = {} /\ joinAuth' = joinAuth
  /\ UNCHANGED <<file, jobs, runtime, joined, node_id>>

Step(a) ==
  \/ Request(a) \/ RunTerminal(a) \/ EndWrite(a) \/ Fail(a)
  \/ RecordOperatorAgreement(a) \/ \E d \in Dirs : RecordConnection(a, d)
  \/ ReuseRuntime(a) \/ Install(a) \/ Detect(a) \/ ReuseJoinAuth(a) \/ Evaluate(a)
  \/ \E c \in Contacts : Contact(a, c) \/ VerifyEmail(a, c)
  \/ ReuseEmailToken(a)
  \/ \E ws \in SUBSET Wallets \ {{}} : CollectWalletAddresses(a, ws) \/ Capture(a, ws)
  \/ MergeCaptured(a) \/ SaveCaptured(a) \/ RecordPort(a)
  \/ Register(a) \/ SaveConfig(a) \/ AlreadyRegistered(a)
  \/ StartPm2(a) \/ NoPm2(a)

Next ==
  \/ \E a \in Actors : Step(a)
  \/ \E cli \in BOOLEAN : Crash(cli)
  \/ Expire

Spec == Init /\ [][Next]_vars
-----------------------------------------------------------------------------
\* A page that the wizard shows can be used: the requests it makes pass their gate.  The pages ask
\* for less than the requests do, so this needs the steps on record to stay in order whatever
\* stale or cut-short progress the overlapping handlers write back (handleWizardRequest,
\* installReady, registrationReady).
PageServes == \A page \in Pages : Shown(page, Loaded) => Usable(page, Loaded)

\* The control tunnel is put under PM2 only for a node that the server has registered, also where
\* requests overlap, one of them fails, or a crash or a second registration leaves config.json
\* without the id that says so (registerNodeFromWizard, startPm2FromWizard, offerStartPm2).
Pm2OnlyRegistered == [][\A a \in Actors : StartPm2(a) => joined]_vars
=============================================================================
