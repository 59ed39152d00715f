# droidpool in TLA+

droidpool lends redroid (Android in a container) devices of one node to coding
agents. `droidpoold` keeps the pool in SQLite, serves leases over HTTP, watches
idle leases and sick devices, rebuilds devices between tenants and shows them
on a web page. This directory holds its specification: TLA+ modules translated
from the Go code, TLC configurations that check them on small instances, and
proofs that hold for any pool size.

`tlc -config X.cfg M` checks a run, `tlapm M.tla` checks the proofs of a module.
`PROJECT.json` lists components, runs, the lines each definition stands for,
the disagreements found, and the hazards the properties are for.

## The system and its parts

| Part | Code | State it keeps | Hard behaviour |
|---|---|---|---|
| Lease and device tables | `internal/store` | `devices`, `leases` (SQLite, one connection) | only `Claim` and `Release` are transactions; every other writer reads a row and writes it back later |
| Lease handlers | `internal/api/api.go` | none: clock and row values held across an ssh call | claims that retry and race, late heartbeats and renewals |
| Watchdog | `internal/pool/reaper.go` | the leases of one scan | acts on rows and a clock read earlier; waits for each reset |
| Device life cycle | `internal/pool/manager.go` | a `Device` value per goroutine | rebuilds of tens of seconds with no lock; every node call may fail |
| Health checker | `internal/pool/health.go` | the rows of one round | writes whole rows back after slow probes |
| Start-up | `cmd/droidpoold` | container set and rows read at start | runs beside the HTTP server; picks up what a crash left |
| Node driver | `internal/node` | containers, sidecars, data directories, the base image | partial failure, orphans, names and ports that are taken |
| Live sessions | `internal/api/h264.go`, `ws.go`, `internal/scrcpy` | table of sessions, tunnels, device processes | takeover while starting or closing, exit without clean-up |
| Screenshots, MJPEG, input | `internal/api/wall.go`, `internal/adb` | screenshot cache, capture locks, a counter | invalidation against captures under way, four kinds of lock |
| UI hierarchy | `internal/api/ui.go`, `internal/uiagent` | one session per device | a failed dump drops somebody else's session |
| Events | `internal/api/events.go`, `wall.html` | bounded channels, the page | dropped events, streams nobody reads |
| CLI, MCP server and their record | `cmd/droidpool`, `cmd/droidpool-mcp`, `internal/localstate` | `.droidpool` file, the agent's memory | lost answers, leases reaped behind its back, two writers of one file |
| Certificates, configuration, device page, scripts | see "Not modelled" | – | – |

The parts meet in two places: the two tables, and the node. An API release
closes a lease and starts a reset in a goroutine of its own; the watchdog does
both itself; the health checker and `SetIdentity` rebuild devices that may be
leased; start-up reconciles rows with containers while requests are served;
settings requests run docker commands beside all of them. No lock orders these
writers. What keeps them apart is the `state` column, the `NOT EXISTS` in the
claim query, two partial unique indexes and the names of containers. The device
page and the wall only read the tables; between themselves they share adb, the
devices and the locks of the HTTP server. The clients see nothing but answers.

## Modules

| Module | Models | Correspondence |
|---|---|---|
| `Allocator` | what the pool promises: leases with fresh ids, one per worktree and one per device, ended for good | abstract; `held` is the set of (lease, key, device) bindings, `spent` the ids used |
| `LeaseTable` | the two tables as every part sees them | `GrantLease` is the write half of `Store.Claim`, `CloseLease` is `Store.Release`; the refinement mapping to `Allocator` is here |
| `LeaseStore` | lease rows with their times, the lease handlers and the watchdog | a handler is cut where other goroutines run: round the ssh call of the admission check, between two statements, round `Reset` |
| `PoolManager` | every goroutine that rebuilds devices, with node faults and crashes | one action per node call of `rebuild` / `createOne`, `SetDeviceState` as its two statements, one action per probe of a health round, the start-up goroutine step by step |
| `DeviceSettings` | one device with its sidecars and the base: settings requests, the rebuild that replays them, `Reconcile` and `MakeGolden` | one action per docker command or statement of the store |
| `ScrcpySessions` | the live sessions of the device wall and their scrcpy clients | a session is its generation; its handler is cut at every adb command whose effect another session can see |
| `DevicePage` | screenshots, inputs, streams and UI dumps over the adb client | a request is cut at every lock it waits for and at every adb command |
| `EventHub` | the hub, the handlers of event streams, the wall in the browser | `Publish` is cut at every send, a handler at every read and write; the database is its version |
| `AgentCli` | the agents' side of a lease: commands, MCP tools, the record | a command is its request, the answer, and what it does with the answer |
| `MC…` | symmetry, values and bounds for TLC, one for each of the seven concrete modules | |
| `…Proofs` | theorems, one module for `LeaseTable` and one for each concrete module | |

`LeaseStore`, `PoolManager` and `AgentCli` extend `LeaseTable` and implement
`Allocator` (`Alloc!Spec` as a theorem, for the first two as a property of a run
as well). `LeaseStore`
replaces all other writers of `devices.state` by one action that stores any state
at any time; `PoolManager` has those writers one by one and leaves time out: there
the watchdog may take any lease at any time. `AgentCli` has the same tables with
handlers in one step, because its subject is what the network and the client do
to their answers. `DeviceSettings` opens the node calls that are one step each in
`PoolManager`. It does not take from it that one goroutine at a time rebuilds a
device: `ExclusiveRebuild` fails across restarts and with the health checker, and
both are in `DeviceSettings`, so there a rebuild may begin at any time. So each
module over-approximates the part another has in detail.

### LeaseStore

`lease[l]` is a row of `leases` (`released_at = 0` is status `active`; `created`,
`expires`, `lastSeen`, `human` are its columns), `state[d]` the column of
`devices`, `now` the clock, `req[c]` a claim or renewal in progress with the
values its handler holds in local variables, `reap` the round of the watchdog.
`ClaimArrives` reads the clock and draws the id, `ClaimAdmitted` and
`ClaimTurnedAway` are the answer of `Health`, `ClaimReused`, `ClaimGranted` and
`ClaimExhausted` the transaction, `ClaimAnswered` the `Touch` after it. Devices
are numbers because the claim takes the first in `ORDER BY d.id`.

### PoolManager

`cont[d]` is the container on the node with the identity it was created with,
`data[d]` the set of leases whose files are in the device's data directory,
`job[w]` the rebuild of goroutine `w` with the fields of the `Device` value it
holds (`Upsert` writes exactly `state` and `health_fails`, as `UpsertDevice`
does on conflict; the identity column is written by `SetDeviceIdentity` only).
`Crash` drops all goroutines and keeps tables, containers and data.

### ScrcpySessions

`live` and `ctrl` are the table `h264Sessions.live` (the generation and the
controller of each entry), `ses[g]` the handler of generation `g`: the step it
is at, its context (`cancelled`), how far `Session.Close` has come and who
called it, and the server its sockets lead to (`video`). `servers` are the
scrcpy servers running on devices, `tunnel` the `adb forward`s. `Acquire` is
`acquireCapped`; `KillAndPush`, `Forward`, `Launch`, `Connect`, `ConnectFails` and
`Handshake` are `scrcpy.Start`; `Register` is `setController`; `StreamStops`,
`StreamEnds` and `InputFails` are the ways a stream loop or its session ends;
`CloseKill` and `CloseRemove` are `Close`; `Release` the last deferred call.
`CloseAll` and `Exit` are the shutdown: the process returns from `run` whatever
the handlers are doing, and the next one starts with an empty table and the
servers that were left. The pkill of `Start` does not look whose servers it
kills, that of `Close` does; both are modelled so. `stuck` (`Stall`, `Unstall`) is a
session in a call that neither a deadline nor its context ends: the reads of
`handshake`, and the writes of the multipart stream.

### DeviceSettings

`row` is the row of the device with its `egress`, `camera` and `location`
columns, `device`, `tun`, `relay` and `feed` are the containers of the device on
the node, `base` the directory all devices mount and the stamp in it, `golden`
the container that fills it, `boot` the start-up goroutine and `cfg` the
configuration of this start. `act[c]` is a settings request, `act["job"]` a
rebuild that finds no other one under way, and `act[r]`, with `r` a rival, one that
does (`RebuildOf`); each holds the settings it read (`want`) and those it has still to put
in force (`todo`), and both use the same actions for that, as the code uses the
same functions of `Node`. `RemoveDevice` … `DeviceReady` are `Remove`, `Create`,
`WaitBoot`, `FinishEgress` and `applyDeviceSettings`; `RelayRemoved` … `SetLocation`
are `SetEgress`, `SetCamera` and `SetLocation`; `GoldenCheck` … `GoldenStop` are
`MakeGolden`. Joining the network namespace of a container that is removed later
is `net = "lost"`. `disturbed` and `met` are history: settings whose last change
failed, or overlapped another change of the same setting, and `"network"`, which
only rebuilds that overlap disturb. `base.beside` is history as well: the golden
container a crash left running has written into the base after the wipe, since
`MakeGolden` wipes before it removes that container (`GoldenWipe`, `GoldenRun`).

### DevicePage

`items` is the screenshot cache, a picture being the number of inputs it shows;
`cmu`, `emu`, `cap` and `umu` are who holds the lock of the cache, of an entry, of
the captures of a device and of the UI sessions; `streams` is the atomic counter;
`live`, `tunnel`, `agent` and `online` are what a UI session needs. `FindEntry` …
`AnswerShot` are `shotCache.get` with the capture inside it; `InjectADB` and
`InjectScrcpy` the two ways of an input, followed by `invalidate` (`Purge`,
`EmptyEntry`); `EnterStream` … `LeaveStream` are `handleStream`; `GetSession` …
`Close` are `handleUIDump` with `uiagent.Start` step by step. `Rebuild` replaces the
container of a device between any two steps, and `Hang` lets a `screencap` or an
`input` get no answer of its device: both run with the context of the request
(`wall.go:95`, `wall.go:143`), and `execRunner` sets no time limit (`adb.go:28`).

### EventHub

`writer[w]` is a goroutine between its write and the end of `Publish`, `left` the
subscribers it has still to send to; `subs`, `chan` and `closed` are the hub;
`stream[s]` is a handler and the version its next snapshot shows, `page` what the
wall shows, its connection and a poll under way. Kinds of events are those the
page listens to and the others; a silent write announces nothing.

### AgentCli

`rec[p]` is `.droidpool` in a worktree, `mcp[p]` what the MCP server's agent
remembers, `cmd[p]` the command in progress, `late` the requests whose client has
given up. `Execute`, `Misroute`, `GiveUp`, `ExecuteLate` and `Lose` are what the
network can do to a request: `Misroute` is an answer of something else, an error or
any status below 400, which `doWithTimeout` takes for a success whatever the body
(`droidpool/main.go:74`). `FinishClaim` and `FinishRelease` are what the commands do
with an answer (`reuseWarning`, `saveState`, `releaseOutcome`), `FinishMcp` what the
tools do. `McpRun` and `McpRunWrites` are the read and the write of `writeADBAddr`,
with commands of the other program in between; `edit[p]` is what is about to be
written. `told`, `warned` and `astray` are history: `astray` are the places that took
a stranger's success for the control plane's, or whose lease id the other program
wrote over, until a claim tells them of a lease again.

## Runs

Passing runs:

| Run | Question | Bounds |
|---|---|---|
| `leases` | Do leases stay exclusive and final, implement the allocator, and never end before some gate allows it, with another writer of `devices.state`? | 2 devices, 2 worktrees, 2 lease ids, 2 concurrent requests, clock to 4, ttl 2, 3 and default, all three gates on |
| `liveness` | Does every lease end, whatever its agent does? | fair clock and watchdog; 2 devices, 3 lease ids, 1 request at a time, lifetime 2, clock to 3 |
| `core` | Start-up, claims, releases and watchdog under every node fault: clean handover, one rebuild at a time, never under a lease, tables agree, state machine kept | 2 devices, 2 worktrees, 4 leases |
| `everyone` | Does the pool implement the allocator with the health checker and identity changes as well? | 1 contended device, 2 worktrees, 2 leases |
| `restart` | After a crash at any point, does every device come back into service, and is none left leased out to nobody? | 2 devices, 1 crash, no node fault |
| `sessions` | Do sessions that overlap on a device, and across a restart, keep to their own generation, server and picture, leave nothing behind, and end when taken over unless stuck for ever? | 2 devices, 3 connections (the second chooses its device, the first may get stuck), 3 ports, 1 restart |
| `settings` | Is what is stored for a device in force after rebuilds, a restart and failures; does nobody lose the network but to rebuilds that overlap, no rebuild trip over leftovers, and no half-made base pass for a finished one? | 1 device, 2 requests, 1 rebuild beside another, 1 restart, 2 images, 1 value per setting; faults `run`, `exec`, `boot`, `exit`, `golden`; egress kept or switched on by the restart |
| `hub` | Does nobody send on a closed channel, does a dropped event lose nothing, do streams nobody reads end, does the wall catch up? | 1 writer with 2 writes, 2 streams, buffer of 1 |
| `page` | No stale screenshot after an input, no stream above the cap, an answer to every request through four kinds of lock while no command hangs for ever, and dumps that work again? | 1 device, 2 sizes, 1 agent that asks for ever and 2 other requests at a time, 3 in all, 2 inputs, 1 stream, 2 rebuilds or commands that hang; screenshots meet inputs or streams, dumps meet dumps |
| `client` | Is no lease forgotten, no record mixed, sharing warned of, and does an agent that keeps releasing come to an end? | 2 devices, 2 leases, 2 places whose names collide, with two CLIs or a CLI and an MCP server in one place; 1 request that goes astray or is given up |

Two devices are enough for the order of the claim query and for the order of
loops over devices to matter; two worktrees for contention; two leases per
device for a device to change hands, which is what `CleanHandover` and
`ReleasedForGood` need; two requests for a request to be overtaken by another.
`MaxTime`, `ClaimHorizon` and `MaxCrashes` bound the clock, the time of the last
claim and the crashes; they are guards of `Tick`, `ClaimArrives` and `Crash`.
Three sessions are one that is taken over, the one that takes over, and a third
that meets what either left, on the same device or on the other; `MaxSessions`
and `MaxExits` are guards of `Acquire` and `CloseAll`, and `ChoicesBound` fixes
the device of the first and third connection, and lets only the first get stuck,
the one the others take over. Taking fewer connections in does not weaken
`TakenOverEnds`: no connection is fair. With three ports, ports come round by the
restart only; that they may come round within a daemon is `OwnPictureHolds`.

Settings of different devices share nothing but the base, so one device is
enough; two requests are one that overlaps the rebuild and one that overlaps the
request; one rival is a second rebuild, by the start-up beside a release or by the
health checker beside the start-up. `CalmStart` and
`CalmBase` let requests come when `MakeGolden` is through and its base is finished
(its steps and theirs share no variable), `RivalsAlone` follows rebuilds
that overlap only on a finished base and before the first request (they leave every
setting disturbed, so what requests do meanwhile is nobody's claim), `BaseBound`
follows a half-made base into the next restart only, and 2 images let that restart
change the image. The run has 1.8 million states; the theorems have none of these
bounds.

A buffer of one overflows as one of 16 does, and is the smallest that does not lose the first
event. One device shows every deadlock of `DevicePage` but those through the two
locks all devices share; `NoQueueAcrossDevices` (below) is about those, and the
theorems about the page hold for any number of devices. Two upsets are a rebuild
and a hang, or two hangs, one behind the other. One fault is a request that is lost,
carried out late, or answered by something else. Any number of faults is left to the
theorems, and so to safety: `LeavingEnds` is checked with one.
Deadlock checking is off: the bounded clock, the finite stock of lease ids and
the bounded requests stop the systems by construction.

Runs that refute a statement of the repository, each listed with the quoted
line in `PROJECT.json`:

| Run | Statement refuted by |
|---|---|
| `leak` | a health round writes `leased` over a device that was released and reset since; it stays leased to nobody |
| `unwiped` | a device broken because its wipe failed is put back unwiped at the next start |

## Deviations

Eleven more properties the code does not keep. Each stands at the end of its module
under "What the code does not keep", and TLC refutes it at once with the constants
given here (those of the passing run named, but for what is listed):

| Property | What happens | Constants |
|---|---|---|
| `PoolManager.HeldNotReady` | a claim between the check and the write of `SetDeviceState` (`store.go:243`) loses its device to an identity rebuild, which ends in `ready`; the comment at `manager.go:239` expects the lease to go on | `everyone`, `Actors = {"identity"}` |
| `PoolManager.IdentityInForce` | an identity stored during a rebuild is not applied by it: the rebuild read the row before (`manager.go:235`, against `manager.go:213`) | `leak`, `Spec`, `Actors = {"identity"}` |
| `ScrcpySessions.DeadServerNoticed` | the adb process of a server that died is a zombie until `Close`, and answers signal 0 (`scrcpy.go:279`, against `scrcpy.go:267`) | `sessions`, 1 device, 2 ports, `Faults = {"die"}`, `MaxSessions = 1`, `MaxExits = 0` |
| `ScrcpySessions.CleanExit` | the daemon returns from `run` while a cancelled session still has its server (`droidpoold/main.go:195`, against `main.go:188`) | as above, `Spec`, `Faults = {}`, `MaxExits = 1` |
| `ScrcpySessions.TakeoverSuffices` | a session that is taken over may never end: the multipart loop writes without a deadline (`h264.go:190`; the server sets only `ReadHeaderTimeout`, `droidpoold/main.go:166`), and `handshake` reads after its deadline was cleared (`scrcpy.go:192`, `scrcpy.go:208`), with no context and before `stopPoke` is there (`ws.go:187`) | `sessions`, 1 device, 2 ports, `Faults = {}`, `MaxSessions = 2`, `MaxExits = 0` |
| `DeviceSettings.NetworkStaysAnyway` | the start-up resets a device that a release of this run is already resetting (`manager.go:324`); the `rm -f` of one `startTun` (`egress.go:91`) takes away the tun the device of the other has joined, and that device ends ready without a network | `settings`, 1 image, `MaxRequests = 0`, `Faults = {}` |
| `DeviceSettings.TakenBaseIsPure` | the golden container a crash left running, which `Reconcile` keeps (`node.go:477`), writes into the base between the wipe (`node.go:346`) and its `rm -f` (`node.go:351`): two images are mixed and stamped, which `node.go:345` wants to rule out | `settings`, `MaxRequests = 0`, `Faults = {}` |
| `DeviceSettings.BaseAtRest` | a crash between the stamp and the stop of `MakeGolden` leaves its container writing; the next start finds the stamp and fills the pool on the base (`node.go:323`, `node.go:340`, against `droidpoold/main.go:77`) | `settings`, 1 image, `MaxRequests = 0`, `Faults = {}` |
| `DevicePage.NoQueueAcrossDevices` | an input waits for a capture of its device with the lock of the whole cache held (`wall.go:159`); screenshots of the other devices wait with it | `page`, 2 devices, 1 size, 3 requests, no agent, `MaxUpsets = 0` |
| `DevicePage.AnsweredDespiteHangs` | a `screencap` or `input` that hangs keeps its locks for as long as its client waits, and an input that waits for one keeps that of the whole cache: nobody else is answered (`wall.go:95`, `wall.go:143`, `adb.go:28`; `Alive` has 20 s for this reason, `adb.go:232`) | `page`, 1 size, 2 requests, no agent, `MaxUpsets = 1` |
| `AgentCli.RecordOutlivesStrangers` | any status below 400 is a success to the client (`droidpool/main.go:74`): after a login page, or from a wrong `DROIDPOOL_URL`, `release` clears the record and `claim` overwrites it with no lease, while the lease is active (`main.go:219`, `main.go:723`, against `main.go:736`); and `writeADBAddr` puts back the lease id it read before a claim saved a new one (`droidpool-mcp/main.go:231`) | `client` |

Met while modelling, in the modules or just outside what they cover, without a
property of their own:

* Leases. A heartbeat after the scan of a round does not save a lease
  (`reaper.go:66`); a slow repeated claim sets `last_seen_at` back (`api.go:294`);
  a claim admitted as a reuse may be granted a new device (`api.go:266`); a reset
  that hangs stops the watchdog (`main.go:131`); start-up may reset a device that
  a release is resetting (`manager.go:327`, so `core` checks `ExclusiveRebuild`
  without crashes; `NetworkStaysAnyway` above is one thing that comes of it); a device left in an intermediate state stays there when the
  container list fails at start (`main.go:98`), and a broken device is not tried
  again before the next start (`health.go:55`, so `restart` checks `PoolRecovers`
  without node faults).
* Sessions. `CloseAll` gives its sessions the reason `taken_over`, upon which a
  page does not reconnect at once (`ws.go:157`); a start that is taken over half
  way is reported as `scrcpy_failed` (`ws.go:169`).
* Settings. A location stored after the rebuild read the row is never applied,
  though the request was answered 200 (`manager.go:198`); a daemon that dies in the
  identity rebuild of a leased device leaves the new container in service without
  the replayed settings; two overlapping setters may leave stored and running
  apart; a relay that is set after `FinishEgress` failed is stored, with the rules
  of the namespace missing; egress switched on in the configuration leaves kept
  devices direct, switched off it leaves the tun on the port, so that `createOne`
  fails at every start (the run and `NoCollisionHolds` leave this out);
  `createOne` keeps a feed nobody stored; a new image wipes the base under running
  devices, and so does one ssh failure at the check of the stamp. These are the
  exceptions `disturbed` and `met` record.
* Wall. It has no listener for device, egress, camera, identity and location
  events (`wall.html`), and only the snapshot of every 3 s makes up for it; a
  claim whose `GetDevice` fails is silent; the toast of a reclaim reads
  `ev.data.reason` (`wall.html:128`), which `handleEvents` has replaced by the snapshot
  (`events.go:118`).
* Device page. Inputs through scrcpy may be followed by a picture from before
  them, since the device acts after the answer; two agents that repeat dumps can
  close each other's newer sessions for as long as they are unlucky.
* Clients. The record survives a reclaim, so `run`, `camera` and `identity` act on
  somebody else's device, a failed heartbeat being only printed (`main.go:263`);
  sessions in one checkout share the record, so the warning of reuse never
  appears; the MCP server ignores `DROIDPOOL_SESSION` (`mcp/main.go:114`) and
  takes every 404 for the end of a lease (`mcp/main.go:140`), unlike the command
  (`main.go:740`).

## Fairness

Agents, people and faults owe nothing, unless said otherwise.

* `LeaseStore`: time passes, the watchdog's loop runs (`Run` is a ticker) and a
  claim past its `Health` call finishes (the call has a timeout of 10 s, the rest
  are local statements).
* `PoolManager`: weak fairness of every rebuild under way and of the start-up
  goroutine, because node calls return, and of the health checker's ticker. For
  API releases, health resets and identity changes the code gives each rebuild a
  deadline; for the watchdog and for start-up it does not, and the liveness
  results that use the assumption are to be read with it. Fairness of a rebuild
  is that of the disjunction of its steps: it goes on, but it may fail.
* `ScrcpySessions`: a handler that is not stuck goes on. The commands of `Start` end
  with their context, `connect` gives up after 15 s, the reads of a stream time out
  after 5 s or are woken by the cancellation, `Close` has 8 s. `Stall` and `Unstall`
  have no fairness: a handshake read or a write to a multipart browser may last for
  ever, and `TakenOverEnds` is about sessions that do not (`<>[](~ses[g].stuck)`).
  Browsers, errors on a socket, failing writes, dying servers and the signal to stop
  owe nothing.
* `DevicePage`: weak fairness of the steps a request takes by itself, strong fairness
  of those that wait for a lock, since a mutex of Go hands itself over to a waiter
  that has starved for 1 ms. Dumps have time limits; screenshots and inputs have none,
  so a request in `hung` takes no step and nothing makes it leave (`Revive` is not
  fair). `EveryRequestAnswered` is therefore stated for behaviours in which from some
  moment on nothing hangs (`<>[](hung = {})`): it is about locks, and about what a
  command that hung leaves behind. An agent
  that was started comes up, the health checker's probe connects adb again, and
  the agents that `DumpsRecover` is about ask again.
* `EventHub`: weak fairness of `Publish`, of the handlers, of their ticker and of
  the page's polling and reconnecting; strong fairness of the case of the `select`
  that is the end of the context, because `select` picks at random.
* `AgentCli`: a request that is not lost is answered; an agent that leaves repeats
  `droidpool release` (strong fairness, since commands of its own come between).
* `DeviceSettings` states no fairness and no liveness.

## Proofs

TLAPS checks, for any number of devices, worktrees, leases, sessions and requests:

* `LeaseTableProofs` – lemmas about the tables alone: a grant or a close keeps
  both unique indexes and is a step of the allocator, under three small facts
  (leases are typed, ids are fresh, a granted device is free). Everything that
  does not touch leases is a stutter.
* `LeaseStoreProofs` – `TypeCorrect`, `ExclusiveHolds`, `RefinesAllocator`,
  `ReleasedStays` and `NeverReapedEarly`. The first four rest on the type
  invariant. `NeverReapedEarly` needs more: a due lease of a round may have been
  renewed or touched since the scan, so the invariant `AgesInv` bounds how old
  a lease must be for each value its columns can hold: the expiry is never
  earlier than its base plus a grantable ttl, `lastSeen` never earlier than the
  creation less `AdmitTimeout`, because a claim in progress carries a clock
  that is at most that old (the guard of `Tick`), and every lease in `due` has
  passed the floor.
* `PoolManagerProofs` – `ExclusiveHolds` and `RefinesAllocator` for the whole
  daemon, with every actor, fault and any number of crashes: no step of any
  goroutine but claim, release and reap touches the lease table, so the
  invariant is typed leases and the two indexes, and the lemmas apply.
  `LeasedMeansHeldHolds` is for a daemon without the health checker and the
  identity handler, the two that write a state back as they read it (`leak`
  shows the first of them breaking it): every other writer gives a device up, a
  claim leases out the device of its own lease, a release takes it back.
  `ManagerTypeCorrect` is again for everything. That a counter of missed probes
  stays within the threshold is not a shape: it rests on `BelowThreshold` (a device
  in service has missed fewer), which has to hold of the rows a health round has
  read too, since it counts on from them. `CleanHandoverHolds`,
  `ExclusiveRebuildHolds`, `TablesAgreeHolds` and `LegalTransitionsHold` assume
  `SameDaemon` (no crash, no health checker, no identity handler) and allow every
  fault of the node: `leak` and `unwiped` show two ways the others break them. The
  four are one induction, `CoreInv`: whoever rebuilds a device has it in `creating`
  or `resetting`, and nobody else does (`OneRebuilder`), so the state column is the
  lock that no mutex is; the start-up that is not through yet found no rows
  (`FirstStart`), so it resets nothing;
  and a device past its wipe, or one that can be claimed, has no data (`Wiped`).
  The four theorems `...ThroughRestarts` say the same of a daemon that dies any
  number of times between any two calls. TLC shows that without conditions each of
  them fails, and the conditions are what it takes. `StartUpGoesFirst`: no lease
  ends while the start-up is yet to list the rows or has its device to rebuild;
  else the release and the start-up both rebuild it (`ReconcileStore` says nobody
  else does, `manager.go:328`). For `CleanHandover` wipes do not fail (`unwiped`);
  for the other three no container exits, since the start-up then gives up a device
  that somebody holds, and makes it again under its tenant. The induction is
  `TurnInv`: who rebuilds a device holds it in `resetting`, or is the start-up and
  holds it in `creating` (`InTurn`); what the start-up's snapshot tells it to touch
  is still so (`SnapTrue`); nobody holds a device that waits for its reset
  (`ResettingFree`). `CleanWhere` adds that only such a device has files of somebody
  who left, `InService` that a device in service has its container.
* `ScrcpySessionsProofs` – `TypeCorrect`, `OwnerServedHolds`, `SoleServerHolds` and
  `NothingLeftHolds`. Types and ownership hold together (`TableInv`): that
  `acquireCapped` and `CloseAll` cancel running sessions only follows from the
  table naming running sessions only, and that from `Close` being entered once:
  a handler that closes its session waits for that (`HandlerCloses`), one whose
  controller closes it does not. The two theorems about servers add
  `ServerInv`: a server belongs to a session whose close has not reached it, and
  from its pkill on the owner has its device to itself, since a session that
  was taken over cannot start a server any more. They assume that a pkill works
  (`"kill" \notin Faults`); the code ignores whether it does. `OwnPictureHolds` is
  about ports, which come round after `Ports` sessions: it assumes `StartsAreClose`
  at every moment (no session is still between its forward and its connection when
  the one `Ports` later is), and needs no working pkill. `PictureInv` says how the
  sessions of the running daemon are numbered (`Numbered`), so that two that are
  starting have different ports, that a tunnel somebody waits for leads to him or
  nowhere (`OwnTunnel`), and that a connection keeps its end (`OwnVideo`).
  `OwnPictureOfFew` has no condition on time: `MaxSessions <= Ports`.
* `DeviceSettingsProofs` – `SettingsTypeCorrect`, and theorems that say on which
  commands and requests a property rests. In all of them rebuilds overlap: the invariants say what holds
  while one runs that met no other (`Beside`, `Solo`), and after that of what is not
  disturbed; once two have met (`Crowds`) everything is disturbed, until a rebuild that
  met nobody has put the device into service. `TakenBaseHolds` has no assumption: the
  stamp is written only on a base that has all its settings, and a wipe takes both
  (`BaseInv`); what a golden container beside the wipe has written is recorded, not
  excluded. `NetworkStaysHolds`: between the removal of a device
  and its next `docker run` there is no device (`Between`, `NetInv`), so whoever
  takes the tun away then cuts nobody off, if `docker rm` of a device works
  (`"rm" \notin Faults`): with `rm` failing, a daemon that dies in an identity
  rebuild leaves a device in service without a network. `NoCollisionHolds` adds
  `PortInv` (strangers are gone before anything is built, a tun means egress is
  configured) and `NameInv` (whoever may hold the name of the relay has met the
  rebuild), and assumes besides that the containers can be listed and that egress
  is not switched off between two starts. `SettingsInForceHolds` allows every fault,
  crash and request but identity rebuilds (`"identity" \notin Reasons`), which
  leave a leased device in service while it is replaced: a restart in one breaks the
  property. Its invariant `ForceInv` says that a device being rebuilt is not in
  service (`Shapes`); that who changes the same setting at a time knows of it
  (`Overlaps`), so that what met nobody can be accounted for step by step: a
  request has done what it says (`RequestAccounts`), a rebuild has done what it
  wants, and wants what the row says (`JobAccounts`), the device is in the network
  that was made for it (`NetAccounts`), a feed that runs is the one stored
  (`FeedStored`); and a device in service has all of it (`Served`). The
  same invariant gives `NetworkStaysThroughFaults`, which trades the assumption on
  `docker rm` for the one on identity rebuilds.
* `DevicePageProofs` – `PageTypeCorrect`, `StreamCapHolds` and
  `FreshAfterInputHolds`. The counter of streams is the number of handlers between
  `Add(1)` and `Add(-1)`, refused ones included (`Counts`), so a handler that got
  in counted itself below the cap. That no screenshot is stale rests on who holds
  the lock of an entry (`Holders`: from its `e.mu` to the store), on what captures
  have seen (`Seen`), and on three facts about an input that was answered: no
  cached picture is older (`FreshCache`), none will be stored (`FreshStores`), and
  none is on its way to a request that came after it (`FreshAnswers`).
* `EventHubProofs` – `HubTypeCorrect`, `HubNeverSendsOnClosed`, `HubNothingMissed`.
  A publisher sends under the read lock to subscribers only, and a channel is
  closed under the write lock as it leaves `subs` (`HubInv`). For the second,
  `MissInv`: whatever was announced is covered (`Covers`) by the snapshot that was
  sent, by a read still to come, or by an event in a channel; a drop leaves a full
  channel.
* `AgentCliProofs` – `AgentTypeCorrect`, `AgentNoForgottenLease`,
  `AgentRecordNotMixed`, `AgentSharedIsSeen`. `PlaceInv` says of every place what
  its answer under way, its record and an edit of it under way may carry: a lease of
  its own key on the device the tables say, or no lease at all, which is what a
  stranger's success and a file read half-written amount to; `OneUnwarned` that a lease nobody was warned of is held in, or on its way to,
  one place only. `AgentRefinesAllocator` shows that the control plane of this module
  keeps the promise of `Allocator` too, so the agents are checked against the service
  the other modules prove, not a simpler one.

Assumptions: the named `ASSUME`s of the modules (naturals, subsets, model values
that differ from data, a finite set of requests, at least one port) and the sets of
faults named above. For every property of a passing run a mutant of the code, named
`X_What` beside the definition `X` it replaces, makes it fail.

Only model-checked: liveness (`EveryLeaseEnds`, `PoolRecovers`, `TakenOverEnds`,
`GoneStreamsEnd`, `PageCatchesUp`, `EveryRequestAnswered`, `DumpsRecover`,
`LeavingEnds`), which is beyond TLAPS. Every safety property of a passing run is
stated by a theorem.

## Abstractions

* A worktree with its host is a key; owner, branch and head are left out.
* `newID` never repeats an id. Identifiers are finite in number: a bound.
* `SetIdentity` reads the row and stores the identity in one step, and `Reset`
  reads its row in the step that starts it; for the health checker's reset that
  is the step of the write before it.
* At most one identity request at a time, one health reset in flight per
  device, one API reset per lease: bounds, or true of the code.
* A wipe that reports success is complete. The command throws errors of `rm`
  away (`internal/node/node.go:178`), so this trusts it.
* A live session: the push of the jar is one step with the pkill before it,
  since no other session sees it; how far a handshake has read is left out; a
  failed `forward` has done its work, a part of it, or nothing. A pkill that
  fails is in the model (fault `"kill"`) and in no run: the code ignores its
  result, and `SoleServer` and `NothingLeft` hold only if it works.
* What is sent to the browser, the reason of a close included, is left out.
* `DeviceSettings`: a container is there or not, and what a command line contains
  is its upstream, source, image or network. A new tun has no rules until
  `FinishEgress`. Faults `"rm"` and `"list"` and the reason `"identity"` are in the
  model and in no run; the theorems say what needs them absent. Rebuilds that overlap
  are not told apart by what each left: everything counts as disturbed.
* `DevicePage`: a picture is the number of inputs its device had taken; a picture may expire at any time, so the clock of the cache is left
  out. `FreshAfterInput` is about inputs through adb, the only ones that are
  answered when the device has taken them.
* `EventHub`: a snapshot is as old as its first read. The page takes what it is
  sent at once; that it can fall behind is the buffer of the handler.
* `AgentCli`: a handler is one step; how handlers race is `LeaseStore`'s subject. So
  are heartbeats and renewals: here a lease may be reclaimed at any time. What a
  stranger says is one of three codes and never names a lease; another pool, which
  would answer a claim with a lease of its own, is left out.

## Not modelled

* `internal/certfile`: one function under one mutex. What could go wrong is that
  another program replaces two files one after the other, and a pair that does not
  match is refused by the loader and the old one kept.
* `internal/config`: read once at the start; defaults and validation of strings.
* `internal/api/web/device.html`: browser code; the daemon sees it as connections,
  inputs and screenshots at any time, which is what the models allow.
* Scripts and images under `deploy/` and `device/`: run by hand.
* Pure functions of strings and numbers (identity and location parsing, slugs, the
  fixed-point conversions and framing of scrcpy, the close reason): no state, and
  the tests of the repository enumerate their cases.
* Of the parts that are modelled: the commands `run`, `watch`, `camera`, `identity`,
  `location`, `battery` and `seed-edge`, which read the record and drive adb; MCP
  tools that pass one request on; list handlers, `Health` and `CurrentApp`, which
  only read; `closeAll` of UI sessions at shutdown; flags and logging.

What could follow: the health checker and the identity handler in the theorems of
`PoolManager`, with the conditions under which their snapshots are still true when
written; and the identity rebuild of a leased device together with settings requests
in a run of its own.
