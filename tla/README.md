# A TLA+ verification of consensus-node

consensus-node is the program a node operator runs: it keeps one encrypted
WebSocket tunnel (the *control tunnel*) to the orchestrator's gateway, serves
proxied HTTP requests, public tunnels and a ticketed data plane over it, reports
its load in heartbeats, and lets the server update it. This directory holds TLA+
models of that program and of the tools that set it up, the TLC runs that check them on small instances,
and TLAPS proofs of what matters most for all instances. Paths are relative to
the parent directory (`src/src/...` is the program, `src/scripts/...` its
scripts).

## 1. Inventory

| Component | State | Operations | Hard behaviour |
|---|---|---|---|
| Control client, `clients/control-client.ts` | `activeStreams`, `activeRequests`, `rawStreams`, `publicTunnelOwners`, `publicTunnelStreams`, `dataPlaneStreams`, `preparedUpdate` | one handler per gateway message and stream kind, callbacks of sockets, sessions and timers, `onClose` | handlers that wait overlap; socket events, gateway messages and connection loss in any order |
| Data-plane session, `clients/data-plane-stream.ts`, `tunnel/data-plane.ts` | inbox, waiters, `failure`, `closed` | `push`, `fail`, `recv`, `run` | fails while waiting or serving |
| Tickets, `tickets/` | `JtiReplayCache`: `seen`, `lastSweep` | `issueTicket`, `verifyTicket`, `verifyRequestTicket`, `consume`, `sweep` | limits, expiry boundaries, restart |
| Updates, `update.ts`, update handlers, `scripts/install-release.sh` | artifact files, `preparedUpdate`, lock directory, releases directory, `current` symlink | prepare, apply, install, prune, restart | overlapping prepares, timer reading late state, crashes, killed installers |
| Tunnel client, `tunnel/tunnel-client.ts`, `connect.ts`; control loop, `control.ts` | socket, `lastReceiveSequence`, `attempt` | open, handshake, `connect`, frames, `close`, reconnect with backoff | events and frames lost between two listeners, sockets nobody closes |
| Handshakes, `tunnel/handshake.ts`, `data-handshake.ts`, `responder-auth.ts`; `crypto/secure-channel.ts` | session keys and ids | init, accept, derive, seal, open | answers to another attempt, replay |
| Supervisor, `supervise.ts` | two children, `signalled`, two calls of `shutdown` | start, signal, first exit, shut down | a child that ignores signals or exits at the wrong moment; overlapping shutdowns |
| Proxy runtime, `runtime/proxy-*.ts`, `ssrf.ts`, `dedupe.ts`, `profile-v1.ts` | `profileCache`, `DNS_CACHE` | check, look up, fetch, store, answer | caches read before and written after a wait; what a key leaves out |
| Node state, `node/state.ts`, `secret-store.ts`, `machine.ts`, `crypto/identity.ts` | data key, `node.key`, `node.pub`, `join-auth.json`, `config.json`, `machine.json` | load or create, seal, save, claim | files written in several steps, crashes, two processes |
| Registration and evaluation, `registration/join.ts`, `clients/eval-client.ts` | join authorization, node id | sign, register | one step of several failing |
| Setup, `setup.ts`, `setup-wizard.ts`, `registration/wallet-capture.ts` | `setup-progress.json`, wallet sessions | one request per step, the terminal version | stale reads written back, a file cut short |
| Benchmarks, release build, service scripts | none to speak of | | |

The gateway opens *streams* on the control tunnel; a stream's target decides
which part serves it. A `data-plane` stream runs a session, which verifies a
routing ticket against the process-wide replay cache. A heartbeat reports
`active_streams` and `active_requests`, and the server sends `update_apply` only
to a node that it takes to be idle by these counts, so the correctness of updates
leans on the correctness of the multiplexer's bookkeeping. An applied update
ends the process; its supervisor starts the release `current` leads to. The
control tunnel itself is opened by a loop that must never give up, with the
identity that setup created, sealed and registered.

What makes each part correct:

- *Multiplexer*: load counts with nothing unaccounted for; every socket and session is reached by a
  close; the maps of a public tunnel agree; no visitor gets another's payload;
  a stream is closed once and stays silent after.
- *Tickets*: a ticket is spent once; a refused request burns none; the cache
  stays bounded.
- *Updates*: what is installed is what was prepared, verified and acknowledged;
  installers exclude each other and end; the node comes
  back, to a complete release that no cleanup has touched.
- *Supervisor*: the unit ends when either child does, in bounded time, with that
  child's code, and leaves nothing running.
- *Tunnel*: one at a time; both ends hold the same session; frames are handled in
  order and once; the node goes on trying, but for two waits without a limit.
- *Data plane*: one ticket, one admission, one answer, to the client who asked, and
  no session that outlives its stream for ever.
- *Node state*: nothing sealed becomes unreadable, the registered identity is never
  replaced, and what two files both say agrees.
- *Setup*: whatever overlaps or is cut short, a page that is shown can be used, and
  no unregistered node is put in service.

The hazards behind these are listed in `PROJECT.json`, each at its line.

## 2. Modules

| Module | Models |
|---|---|
| `ControlStreams` | one control connection of `startControlClient`, but for its two update handlers |
| `ControlStreamsProofs` | proofs about it |
| `RoutingTickets` | tickets and the replay cache of one process |
| `RoutingTicketsProofs` | proofs about it |
| `NodeUpdate` | update handlers, download, installer, restart |
| `NodeUpdateProofs` | proofs about it |
| `Releases` | the releases directory under concurrent installers and a restarting node |
| `Supervisor` | the supervised unit |
| `SupervisorProofs` | proofs about it |
| `Tunnel` | the control loop, the connection with its handshake, and the tunnel client |
| `TunnelProofs` | proofs about it |
| `ProxyServe` | the serving of proxied requests, with the profile and DNS caches |
| `DataPlane` | data-plane sessions and their clients on one tunnel; extends `ProxyServe` |
| `DataPlaneProofs` | proofs about it and `ProxyServe`, and of the refinement |
| `TicketedService` | what the data plane promises; `DataPlane` is shown to implement it |
| `NodeState` | the files of a node and the processes that create them |
| `NodeStateProofs` | proofs about it |
| `Setup` | the setup wizard, the wallet page and the terminal version |
| `SetupProofs` | proofs about it |
| `MCControlStreams`, `MCRoutingTickets`, `MCNodeUpdate`, `MCReleases`, `MCSupervisor`, `MCTunnel`, `MCDataPlane`, `MCNodeState`, `MCSetup` | instances for TLC |

A definition whose name and comment begin with "Mutant of" is a plausible bug:
substituted for the definition it names, it makes one property fail, which shows
that the property depends on that part of the code.

### ControlStreams

The variables carry the names of the code's maps and counters. A map entry is
membership in a set, or a record; `socket` and `session` say what became of the
thing a map entry named. `out` holds the messages of the last step, and the
history variables record what the gateway did and what was agreed:
`opened`, `gwClosed`, `nodeClosed`, `granted` (which owner-side id was announced
for which visitor) and `replaced`.

There is one action per branch of the message handler, in the handler's own order
of lookups, and one per callback. JavaScript runs a handler to its first real
wait, and `TunnelClient.send` seals and sends without waiting, so a handler is
one step unless it waits for a fetch, a benchmark or a session; those are a call
(`calls`) and a later `CallDone`. A proxied request is counted before its `target_url`
is put into the log, and `sanitizeUrl` throws on one that is missing or no string, before the
`try` whose `finally` counts out (`control-client.ts:179-186`): `ProxyRequestDropped`
leaves such a request counted (`"dropped"`) for the life of the connection. `ActiveRequestsAccounted`
therefore says that the count is the requests being served and the dropped ones, and no other.
The gateway is external: it opens each stream
once and does not use a stream it has closed, but what it sends may have been
under way when the node closed the stream. `Lose` and `OnClose` are separate:
between them sends fail while events still arrive.

An owner that opens its tunnel again replaces the tunnel's record while visitors of the old one
are still linked (`replaced`), and owner-side ids start over: a later close of an old
visitor then edits the new record with an id that may be another visitor's. `RoutingInStep`, and the half
of `RightPeer` that is about owners, leave such tunnels out.

Payloads, base64 and logging are left out. `Message` keeps of a payload whose it is.

### RoutingTickets

`Issue` is the orchestrator, with a clock that may be off by `Drift`. Presenting
a ticket has four outcomes, `RefuseClaims`, `RefuseBinding`, `RefuseReplay` and
`Accept`, one for each way through `verifyRequestTicket`. The verification is
synchronous but reads the clock twice; `Readings` lets a second pass in between.
The cache's insertion order is the relation `older`; `Shed` says what the
eviction loop removes. `Restart` empties the cache. The code reads the wall clock; the
model's clock is never set back while the process runs, which `SingleUse` needs: an entry
swept at its expiry would be accepted again by a clock set back before it.

### NodeUpdate

A prepare is a record in `prepares` (downloading, then writing), an apply one in
`applies`, from its acknowledgement through the timer, the lock, unpacking and
the symlink to the exit. `downloads` says what the file of a version *may* hold:
two writers of one file may leave either content or a mixture (`Torn`).
`preparedUpdate` is per connection, because each connection has its own closure
and handlers of a lost connection go on. Installers survive the node's end (their
`conn` becomes 0) and may be killed, which leaves `lock = Torn`. A manifest is
`VersionOf` and `BuildOf`; manifests without `tarball_sha256`, which are not
verified at all, are left out. That the installer refuses an archive of another version is
a guard of `Unpack`; beyond that version nothing of the file is compared again, so that of two
overlapping prepares of one version the wrong artifact may be installed. `SerialServerSafe` is
claimed for requests that do not overlap. A release knows its own hash only where the
operator sets it, so `Prepare` may download what already runs.

### Releases

The same script seen from its disk: the directories under `releases/`, newest modification
first, which of them hold a complete release, and where `current` leads. An installer notes
the directory it is started in, takes the lock, moves a new release into place,
installs its dependencies there, switches `current` and removes what the retention does not
cover; each is a step, `rm -rf` two, and it may fail or be killed at any of them, which leaves
half releases in the directory that the next cleanup counts like the others. Installers
outlive the process that started them. `RunningWhole` has one exemption, which is the script's:
`running_release` is the release of the process that started the installer, so one that is
overtaken by a restart (`overtaken`) may remove the release the next process runs.
The node's own exit after an update is `NodeEnds`, which may come at any time. Names of new directories hold a time stamp and a process id and are taken to be new.

### Supervisor

`shutdowns` holds the two calls of `shutdown`, by `main` and by `onSignal`, each with
the exits it waits for and its timer. `tree` is a child's process group: the `bun run`
wrapper and its script, taken to end together (the wrapper waits for its script);
`exitKnown` and `killed` are what the `ChildProcess` object says of it, which is all
that `stillRunning` looks at. `ChildEnds` and `ExitEvent` are separate, so a child may
be dead before the unit knows. A child that cannot be spawned emits `error` and never
`exit`; whether its `exitCode` is set then is left open. `listening` is the set of
signals whose `process.once` handler is still there; any other signal has its default
effect (`DefaultSignal`). Ticks pass only during a teardown and only when no event is
due (`Urgent`): the model is about the order of events and timers, and takes the event
loop and the kernel to be quick against a grace period of ten seconds.

`GroupKill` says whether `process.kill(-pid)` works. Where it does not, `proc.kill`
sets `killed`, which `stillRunning` takes for the child's end: a child that ignores
SIGTERM is then never sent SIGKILL, and TLC refutes `NoneLeftBehind` and `UnitEnds`
for `GroupKill = FALSE`. Both are claimed for platforms that have process groups,
the ones the node is installed on.

### Tunnel

One variable, `phase`, says where `main` of `control.ts` waits: for the socket to open,
for the answer to the handshake, for the derivation of keys, in `waitForOpen`, for the
close of a connected client, or for the delay. What follows an event without another
wait is part of that event's step. Between the handshake and `connect` there is no
listener on the socket: `Unheard` loses the frames that arrive then, and `Closed` the
close event, unless `Heard` says that somebody listens. `connect` then finds a socket that is
not open and waits for an event that is past. If nothing else keeps the event loop
alive, the process ends and the supervisor starts it again (`Restarted`, external).

A handshake that is refused or does not fit throws and leaves its socket open:
`Failed` puts it into `abandoned`, told apart by whether `main` had come as far as HELLO on it (`phase`). Key pairs and nonces are named by the attempt they were made for;
two names suffice, the attempt's own and the one before. `DeriveSecureSession` builds
the keys from what the code hashes, so that sessions agree exactly if all
those inputs do. `accept` may answer the earlier attempt. A frame on the wire may come a
second time behind any later one (`GatewayRepeats`), so an older frame does follow a newer one.

`TunnelClient.request` and its table of pending requests have no caller in the
repository and are left out. Sequence numbers are `bigint` in the code and
natural numbers here.

### ProxyServe and DataPlane

`ProxyServe` follows `serveProxyRequest` from the profile cache to the stored answer.
A call waits in two places, for DNS and for the fetch, and both caches may change
meanwhile. A request is a target, a method, a profile and `cred`, which stands for the
forwarded headers that are no part of the dedupe key. Whether an address is private
(`ssrf.ts`) and whether a profile allows a request (`profile-v1.ts`) is given with the
request. Entries age one at a time in place of a clock.

`DataPlane` puts a session in front of each call: the mailbox of
`startDataPlaneStream` with `failed` and `closed`, `serveDataConnection` with its two
`recv`s, and the client's `runDataRequest` at the other end. The stream is the
call's name. The gateway in between may deliver a client's message twice or on another
stream, and end either side. Tickets are spent at once and for good (`owner`);
expiry, eviction and restart of the replay cache are the subject of `RoutingTickets`,
so `DataPlane` is a connection within the life of its tickets. A request whose body or method is no
string throws outside every `try` (`data-plane.ts:154-155`): `RequestThrows` ends the session without an answer and
without spending the ticket. `TunnelDrops` loses the socket, after which sends fail;
`fail` reaches the sessions later, with `OnClose`.

`TicketedService` is the abstract specification: a stream is admitted at most once with a
ticket that admits no other, answered once and only if admitted. The refinement maps a
session's place and reply to `phase` (`Phase`) and keeps `owner` as it is.

### NodeState

Each file has the content a reader would get: `Torn` where it was truncated and not yet
written. The code replaces secrets and `machine.json` by a rename, and writes the
data key, `node.pub` and `config.json` in place, so these three have two steps each.
A process is at one of the places where it waits (`at`) and holds what it has read
(`key`, `cached`, `signer`, `machine`, `id`). `Exit` ends it anywhere, as a crash or an
uncaught error. `overlap` records that a file was written while another process was
under way: most properties are claimed without that, since nothing in the code
excludes a second process. The orchestrator (`server`) is external; it checks a join
request's signature and assigns any id. `Init` includes a node that was registered before
secrets were sealed, which is migrated.

Files change only by the program and by crashes in it. A `node.pub` that somebody removes,
or a `node.key` that somebody empties, makes `loadOrCreateIdentity` create a new
identity (`identity.ts:13-34`), also for a registered node: `IdentityKept` is about the program's own
steps. `JoinConsistent` leaves out a `node.pub` cut short by a crash, with which every join is refused.

### Setup

An actor is whatever is under way: a wizard request, a wallet session or a terminal run.
Every handler loads the progress once, at `Start`, and goes through `Stages`; each stage
waits, then saves what was loaded with its own step added (`Save`, `EndWrite`). `Save`
truncates the file, and `readJson` takes an unreadable file for no progress. Two saves
at once may leave either text, or one with the tail of the other (`"corrupt"`). `config.json` is
written the same way: `Register` is the server's registration and the truncation, `SaveConfig` the
text, and a crash between the two leaves a node that the server knows (`joined`) and that has no
`node_id`, which the wizard takes for unregistered.
`Shown` says when a GET page is not redirected, `Gate` is the check each request begins
with. The local test flow, the installers of bun and PM2, the directory
chooser and the headless status, none of which touch the progress, are left out.

Saves do get lost: TLC finds runs in which the wallets an operator saved are gone,
because a handler that read earlier wrote later. No text in the repository promises
otherwise and the wizard asks again, so no property is stated about it.

## 3. Runs

| Run | Shows | Bounds |
|---|---|---|
| `control_streams` | load counts accounted for, no leak, routing in step, right peer, one close, silence after it | 3 streams, 2 tunnels, 2 waiting calls, 2 owner-side ids |
| `routing_tickets` | cache bounded, nothing burnt, how far single use goes | 3 tickets, 2 requests, cache of 2, TTL 4, tolerance 1, sweep every 2, drift 1, 9 seconds |
| `node_update` | a serial server gets what it verified; only prepared updates are installed | 2 updates to one version, 2 prepares, 1 apply, 2 connections, no `mv -T` |
| `releases` | installers exclude each other and end, `current` leads to complete releases only, the running release is spared, the node returns | 2 installers, 4 directory names, retention 1, no `mv -T` |
| `update_acked` | *violation*: the update that is installed is not the acknowledged one | 2 prepares |
| `supervisor` | nothing left behind, gone in one grace period, a whole grace period for each child, the first child's code, the unit ends | 2 children, 2 signals, grace of 3 ticks |
| `supervisor_signals` | *violation*: a second SIGTERM kills the unit and leaves a wedged child | same |
| `tunnel` | one tunnel, one session at both ends, frames in order and once, the node goes on trying but for two named waits | 2 key generations, 2 frames per session, no pinned server key |
| `data_plane` | answers reach who asked, told sessions end, the sessions implement `TicketedService` | 2 streams, 4 tickets, 1 host, 2 callers, cache of 1, 6 pairs of requests |
| `node_state` | secrets open, registered identity kept, join consistent | 2 processes, 2 identities, 2 data keys, 2 node ids |
| `data_key_race` | *violation*: a secret is sealed under a data key that is not the stored one | same |
| `setup` | a page that is shown can be used, PM2 only for a registered node | 2 actors, 1 directory, 1 address, 1 wallet |

Why the bounds suffice to see the interesting cases: three streams are a tunnel's
owner, its successor and a visitor, or an owner and two visitors; two owner-side
ids let an id be reused after a replacement; two calls overlap. A cache of two with three tickets is
full with one to spare, and nine seconds cover issue, expiry, tolerance and two
sweeps. Two prepares and an apply are the smallest overlap in each direction;
two installers are the smallest contention for the lock. A retention of 1 is the least the script
accepts, with four names for the running, the current, a failed and a new release. Three ticks let a second
shutdown begin strictly inside the first one's grace period. In `tunnel` an attempt can
only be confused with another one, which two generations give; without a pinned key the
session id is all that tells them apart, so the weaker configuration is the one
checked; two frames can be lost, and come again behind each other. The six
pairs of `data_plane` are: one ticket presented twice, two
callers of one resource, the same caller twice, a ticket for something else beside a
forbidden request, a private address beside a method that is not cached, a malformed
request beside a good one with the ticket it brought. A cache of
one entry is at its limit with the first answer. In `node_state` a second identity and a second data
key are what a wrong replacement needs; in `setup` two actors are a stale writer and the
one it overwrites. Where a set's elements are
interchangeable and only safety is checked, the runs use symmetry.

Deadlock is checked in `node_state`, `setup` and `tunnel`, where there is always a process to
start or end or a connection to try. It is not checked elsewhere: a closed connection, a clock at its horizon, an
answered client and a node without work are legitimate ends.

The three violations state what a comment or the README says, and the trace shows
the sequence in which the code does something else. They are disagreements
between text and code at the edges described; `PROJECT.json` quotes the lines. Each has a
positive counterpart that says how far the text holds: `SerialServerSafe` holds for a server
that waits for each request to be settled, which is how the README describes the server;
`NoneLeftBehind` holds for a unit that ends by its own `process.exit`; `SecretsOpen` holds for
processes that do not provision at the same time.

`SingleUse` has two exemptions that the code makes: a ticket shed from a full cache, and a ticket
past its expiry, which is still accepted for the clock tolerance but no longer tracked.

### Fairness

`releases`, `supervisor`, `tunnel` and `data_plane` need it. `Releases!Fairness` assumes that an
installer that was started goes on: it gets the lock or gives up after 300 seconds, and its other steps
end one way or the other; and that PM2 restarts a stopped unit. It does not assume that an
installer succeeds or that anybody removes a lock, and it gives starts, crashes and kills no
fairness at all. `bun install` and `tar` have no time limit of their own; that they end is assumed.
`Supervisor!Fairness` assumes that events are delivered, timers fire, time passes and
SIGKILL kills; it does not assume that a child ever ends by itself or for SIGTERM.
`NodeReturns` is checked without `mv -T`, where the script removes `current` before it renames
the new link: it says that the node comes back, or that `current` is gone for good, which is
what an installer killed between the two leaves. With `mv -T` (GNU) the second never happens.
`Tunnel!Fairness` assumes that a delay and a key derivation end, that a socket that is closing
closes, and that a process with nothing to wait for is started again. It assumes nothing of the
gateway, neither that a socket opens nor that a handshake is answered. `KeepsTrying` says that the
node holds a tunnel or is opening one infinitely often, or is for ever in one of two waits
to which the code sets no limit: for the answer of a gateway that stays silent (`Silent`), or for
a socket that closed while keys were derived, while an open socket of an earlier refused
handshake keeps the process alive (`Stranded`).
`DataPlane!Spec` assumes that a session takes its next step when it can: deps resolve or fail, DNS
answers, a fetch ends within its `AbortSignal.timeout`. Clients, the gateway
and the tunnel have no fairness: `SessionsEnd` starts from the moment `fail` is called.

## 4. Proofs

All proofs hold for every value of the constants under the named assumptions of
the modules, which only say that tags and ids are distinct, that manifests are
functions, and that bounds are numbers.

**ControlStreamsProofs.** The properties are not inductive by themselves: that
cleaning up one visitor leaves the others' ids alone depends on both maps of an owner
record pointing at links that point back. `IInv` adds `Kinds` (every map entry is
of a stream opened for it and closed by neither side, so a stream has one role),
`OwnersDistinct`, `RecordsBacked` (what a record says, the links say; this holds
even after an owner was replaced) and `LinksBacked` (the converse, where it was
not). From it follow `ActiveStreamsExact`, `NoLeak` and `RoutingInStep`, and the
action properties `RightPeer`, `CloseOnce` and `DataAfterCloseOnlyAnswers`, by
one case per action. `ActiveRequestsAccounted` is proved with the cardinality
theorems of finite sets, dropped requests included.

**RoutingTicketsProofs.** `TypeOK` includes the cache's limit (`Bounded`), which is inductive with the types. `SingleUse` rests on
`IInv`, which says of each accepted ticket that it is held, was shed, or has
expired; the sweep's comparison with `exp` is what preserves it.

**NodeUpdateProofs.** `BaseInv` holds however requests overlap: what is prepared is
verified, future connections have prepared nothing, a scheduled apply has
something to install, an installer past the lock holds it and has a path.
`SerialPart` holds while `overlapped` is false: one request at a time; a file
being written, prepared or installed holds the verified artifact or is torn; and
the latest connection with something prepared is the one whose file that is.
Together they give `SerialServerSafe`, `OnlyPrepared` (prepared on this connection, be it by a
download or by a prepare that found nothing to do) and `OneInstaller`.

**SupervisorProofs.** `OwnCode` needs only that, until a signal is taken, nobody but
main sends SIGTERM and not to the first child (`Unsignalled`), and holds on every
platform. The rest is proved for `GroupKill`, from `Inv`: a waiting shutdown waits for
every end not yet known (`Waits`), which gives `NoneLeftBehind`; a running child has
had SIGTERM for as long as any timer has run (`Aged`), which gives `FullGrace`.
`EndsInTime` is the hard one, because main's timer may be younger than the teardown:
`OnTime` says that some timer is as old as the teardown, or that all that is left is
the news of deaths already decided. Only a child that was never spawned could hold main
up beyond that, and its error comes before any tick, so main's timer is then old
enough (`Timers`).

**SetupProofs.** A request writes back the progress it read before it waited, so the
file may go back to any earlier state of any job. What saves `PageServes` is an order
that no write breaks: `Ordered` says that an evaluation is on record only with an
installed version and a directory, and `JobOrdered` that what a job holds is enough for
the stage it is in, however old it is. `Pm2OnlyRegistered` rests on the server's
having registered the node (`joined`) for every job that has reached the config or PM2 and
whenever the config names an id, since the config itself may be lost to a truncation.

**TunnelProofs.** `Agree` is the handshake's own theorem: since the session id depends on
both nonces and keys, an accept whose id fits answers this very attempt, and the two ends
hold the same keys with the roles exchanged. `Shaken` carries that from the accept to the
connected phase. `OneTunnel` needs that `main` reaches no failure with HELLO said and the socket
open: after HELLO the loop waits for the close. `InOrder` says that what was handled opened under the session and lies
below the last sequence number, which is what a repeated frame is compared with.
`TypeOK` includes the bound on the reconnect delay, which needs `Counted`: a delay
follows a failure that was counted, so its exponent is never negative. The six delays are
then compared one by one.

**NodeStateProofs.** Processes act on what they read before they waited, and nothing locks
the files. The types, and that a process on its way to the data key returns to the step it
needed the key for (`Aimed`), hold whatever overlaps. The rest of `Inv` holds until the first
overlapping write (`~overlap => Calm`): `FilesFit` says what files agree on, also where
one of them is torn (a public key exists only beside its private key, an authorization is by
the key on disk, a registered key was completed by its `node.pub`, nothing is sealed under any
data key but the stored one), and `Holds` that what a process has read is still so at
every place where it uses it. The two go together: that `Seal` destroys nothing needs to know that
the process which generated the key still finds no other one there, and a data key is
provisioned only while nothing is sealed. A write by one process keeps `Holds` of
another because it would otherwise have been an overlap. `SecretsOpen` and `JoinConsistent` follow
at once, `IdentityKept` from the cases of `Seal`. The proof needs the tags to be
distinct, `Torn` included, which `NodeState` assumes.

**DataPlaneProofs.** The argument for `AnswersOwnRequest` follows an answer backwards. What
a client opens is under its own key (`ClientFits`); a message under a client's key fits that
client's request (`Messages`), because a session answers under the key of the client whose init it
accepted and serves only a request that opened under it (`SessionFits`, `Frames`); what is
served was fetched from a public address or comes from a cache entry with the same key
(`CallFits`); and an entry holds a good answer under the key of the request it
answers (`Entries`), however entries were purged, displaced or overwritten while the call
waited. None of these is inductive without the next. `TypeOK` adds that the cache
stays within `MaxCache`, and that a stream is closed once, for which a
session that is not closed has sent no close. The refinement (`Implements`) has one lemma per kind
of step: a session that ends before its request is `End`; an authorized request is
`Admit` with its ticket; the response is `Answer`, or `End` if it is a refusal or the
tunnel is gone; and everything else, the serving and the client's and the gateway's steps
included, changes no phase. It needs of `Inv` that a finished call has an answer or an
error, that neither is a refusal, and that only a session that is done has replied.

All safety properties of the passing runs are theorems, but for those of `Releases`. Only
model-checked: `Releases`, the liveness properties (`InstallersSettle`, `NodeReturns`, `UnitEnds`,
`KeepsTrying`, `SessionsEnd`), which the prover does not cover, and the three
refutations.

## 5. Not modelled

Cryptography (signatures, key agreement, AEAD) is taken as what it promises:
a token that fails verification changes nothing, and keys are equal only if all they
were derived from is. Formatting, logging, HTTP bodies
and pages of the wizard carry no state that the properties are about. Benchmarks
measure time. Service scripts and the release build are straight-line
administration. State files removed or edited by hand are not modelled.
`data-route.ts` serves the same session over a WebSocket of its own, and
`proxy-session.ts`, `proxy-command.ts` and `proxy-worker.ts` call `serveProxyRequest`
one request at a time: they add a transport and no state. Address classification
(`ssrf.ts`) and canonical dedupe keys (`dedupe.ts`) are pure functions of strings with
tests of their own. A public key cut short by a crash (`node.pub`) makes
every later join fail until it is deleted: the model has that state, and
`JoinConsistent` excludes it because the code has no recovery to claim.

## 6. Plan

1. `DataPlane` with the replay cache of `RoutingTickets` in place of `owner`, and what is left of
   the refinement when tickets are shed or expire.
