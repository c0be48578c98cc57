# Verification of the databox container manager

The container manager is a Go process that runs as a docker swarm service. It builds a databox (networks, keys,
core-network, arbiter), starts its own services, and then installs, restarts, uninstalls and reloads apps and drivers,
each a swarm service with a private network, a token the arbiter knows, and often a store. The repository has no tests;
what the code promises is in its comments.

The hard part is that nothing serialises the work. `processAPICommands` starts a goroutine for each command,
`reloadApps` one for each saved SLA, `Start` one for each builtin component, and each of these makes a dozen calls to
docker, the arbiter, the core-network and the store, any of which may fail and between any two of which the process may
die. This directory models that work call by call, and around it the rest of the program: how the manager starts and
restarts itself, who gets in, how it forwards a websocket, and what it makes of an SLA. TLC checks the models on small
instances, and TLAPS proves the safety properties for all components, commands, faults and crashes.

## 1. Inventory

| Part (source) | State | Operations | Hard behaviour | What makes it correct |
|---|---|---|---|---|
| Component lifecycle (`containerManager.go`: `LaunchFromSLA`, `Uninstall`, `launchStore`, `genorateSecrets`, `addPermissionsFromSLA`, `reloadApps`) | `InstalledComponents`; in docker: networks, services, secrets; in the arbiter: tokens and grants | install, uninstall, reload | jobs interleave between calls; calls fail; the process dies; errors are logged and dropped | no component runs without permissions, token, store, peers or DNS; books agree with docker; saved components come back |
| API command loop (`cmZestAPI.go`: `processAPICommands`) | none | one goroutine per command | nothing stops two commands on one component | as above |
| SLA and password store (`cmStoreClient.go`) | SLAs, password | save, list, delete | entries that cannot be read are passed over | what runs is saved, what is uninstalled is not |
| Core-network client (`coreNetworkClient.go`) | none; the core-network keeps connections and addresses | `PreConfig`, `ConnectEndpoints`, `PostUninstall`, `ServiceRestart`, `RegisterPrivileged` | several calls put together what the core-network believes | it knows each running component's address |
| Crash detector and restarts (`containerManager.go`: `crashDetectore`, `Restart`, `WaitForService`) | two maps of flags; docker's event stream | read an event, restart | events are read late, while API commands restart and uninstall | only crashes are restarted; flags do not pile up; the detector is never stuck |
| `Start` (`containerManager.go`) | password, the store client | register, settle the password, launch builtin components, reload, start servers and detector | order of goroutines against first commands; the store may fail | commands are safe from the start; the password lasts |
| Bootstrap (`app.go`, `databoxLoader.go`, `dockerHelpers.go`) | docker networks, secrets, the manager's own service | clean up, start core-network, make keys, update itself, start arbiter | it restarts itself halfway; a crash leaves old services, networks, keys and unfinished files | it gets through; keys match; names are resolved; it does not remove itself |
| SLA compiler (`convertManifestToSLA`, `getAppConfig`, `getDriverConfig`, `calculateImageNameFromSLA`, `addPermissionsFromSLA`) | none; permissions in the arbiter, peers in the core-network | environment, peers, permissions of an SLA | three functions read the same URLs at different times; a bad URL ends the process | an app can use what it is told of, and no more; no saved SLA ends the process |
| HTTPS server and proxy (`secureServer.go`) | session tokens | authenticate, forward, copy a websocket | sessions die with the process; two copy goroutines and one reader of errors | who knows the password gets in; messages in order; both sides told; no goroutine left behind |
| HTTP server (`insecureServer.go`), certificates (`certificateGenerator.go`), status API (`cmZestAPI.go`) | files | serve, generate, answer | none | none of interest here |

How they interact: the command loop and `Start` call the lifecycle; the lifecycle calls the core-network client and the
SLA store; the detector sees the lifecycle only through docker's events and calls `Restart`; the proxy asks
`IsInstalled`. The only memory shared by goroutines is `InstalledComponents`.

`PROJECT.json` lists the hazards of this code line by line, with the properties that cover each.

## 2. Plan

In the order of what matters most; all of it is done.

1. `ComponentLifecycle` - install, uninstall, reload, boot, death of the process - with its proofs.
2. `CrashDetector` - events, flags, restarts, addresses - with the proof that it spares what ended on purpose.
3. `ComponentRegistry` - the abstract specification of what the lifecycle promises - and the proof that
   `ComponentLifecycle` implements it.
4. `Bootstrap` - `main` and `Databox.Start` across the restart they cause - with proofs of its safety.
5. `Access` - password, QR code and sessions - with proofs of its safety.
6. `WebSocketProxy` - the two copy loops, their channels and the handler that returns on the first error.
7. `SlaCompiler` - environment, peers and permissions from an SLA - with proofs of its safety.
8. `WebSocketRelay` - the abstract specification of what the proxy promises - and proofs of the rest of the safety of
   detector and proxy.

Few runs are kept: each asks one question, and the runs of new modules have taken the place of violation runs that
only showed what section 6 says.

## 3. Modules

| Module | What it is |
|---|---|
| `ComponentLifecycle` | the lifecycle, its properties, its fairness |
| `ComponentRegistry` | what the lifecycle promises: services, saved SLAs and `InstalledComponents` change in one order |
| `ComponentRefinement` | the refinement mapping from the lifecycle to the registry |
| `ComponentInvariant` | the inductive invariant `IInv` |
| `ComponentLifecycle_proofs` | type correctness |
| `ComponentSafety_proofs` | which jobs there are, how far `Start` is, secrets and permissions |
| `ComponentBooks_proofs` | components as they are built, booked and taken apart; the safety theorems; the lifecycle implements the registry |
| `MCComponentLifecycle` | instances: a driver with a store, an app that reads it, core-ui |
| `CrashDetector` | detector, restarts, and uninstalls as far as containers and addresses go |
| `CrashClaims` | what a comment says of crashes and the code does not keep |
| `CrashInvariant`, `CrashDetector_proofs` | why the detector spares what ended on purpose, leaves no flags and has addresses right, and the proofs |
| `MCCrashDetector` | instances: a driver and its store |
| `Bootstrap`, `Bootstrap_proofs`, `MCBootstrap` | how a databox is built, deaths and reboots included |
| `BootstrapClaims` | what a comment says of the clean-up and the code does not keep |
| `Access`, `Access_proofs`, `MCAccess` | password, QR code and sessions |
| `WebSocketProxy`, `MCWebSocketProxy` | one websocket through the proxy |
| `WebSocketRelay` | what the proxy promises: each side gets what the other sent, then one close message |
| `ProxyInvariant`, `WebSocketProxy_proofs` | the inductive invariant of the proxy, and the proofs that it is one and that the proxy implements the relay |
| `SlaCompiler`, `SlaCompiler_proofs`, `MCSlaCompiler` | what a launch makes of an SLA |

How they fit together: `Bootstrap` ends where `Access` begins (the password) and leaves what `Boot` of
`ComponentLifecycle` assumes - no services of an earlier life, a core-network that resolves names (`CoreNetworkReady`), an
arbiter with the right key (`KeysMatch`). `SlaCompiler` opens up two calls of `ComponentLifecycle`, `ConnectEndpoints` and
`AddPermissions`, for one component at a time. `CrashDetector` begins where a launch has ended. `Access` and
`WebSocketProxy` stand behind `IsInstalled`.

### ComponentLifecycle

A *job* is a goroutine: one per API command (`Request`), one per component launched by `reloadApps` or `Start`
(the job is named like the component). Its `pc` names the next remote call; its other fields are the locals kept between
calls: the DNS address found by `PreConfig`, the service `Uninstall` found and its ID, and the services it listed for
their secrets. Each remote call is one action, so that any two jobs interleave between calls:

| Code | Actions |
|---|---|
| `PreConfig` | `PreConfig` (list), `CreateNetwork`, `AttachNetwork` |
| `genorateSecrets`, `createSecret` | `RemoveSecret`, `CreateSecret`, `RegisterComponent`, for the component and for its store |
| `ConnectEndpoints`, `launchStore`, `addPermissionsFromSLA` | `ConnectEndpoints`, `CheckStore`, `CreateStore`, `AddPermissions` |
| end of `LaunchFromSLA` | `CreateService`, `SaveSLA` (API installs only), `TrackInstalled` |
| `Uninstall` | `FindService`, `RemoveService`, `ListSecrets`, `DropSecrets`, `DisconnectEndpoints`, `DeleteSLA`, `UntrackInstalled` |
| `Start`, `reloadApps` | `Boot`, `ReloadDrivers`, `ReloadApps`, `FinishReload` |
| the Go runtime, the kernel | `ConcurrentMapWrites`, `Crash` |

`Uninstall` reads the address of the service before it removes it and posts it afterwards; the read has no effect here and
is part of `CrashDetector`. `AddPermissions` stands for a series of posts to the arbiter, of which any may fail: some
subset of the grants is then made. A service or a secret is identified by the job that made it, which is what makes
"docker refuses to remove a secret in use" and "ServiceRemove goes by ID" expressible. Docker's name filter is modelled
by what it returns (`Listed`): the names that begin with the one asked for. `BeginsWith` says which those are; `NAME-core-store`
always is one, other components and their stores may be. `FindService` takes the first of them: the exact name if it is
there, otherwise any, so that an uninstall may remove the service of another component, which thereby becomes `contended`.
`RemoveService` may fail on a service that is there; as in the code the uninstall then goes on, forgets the SLA and the entry in
`InstalledComponents`, and the service runs.

Two history variables record what the properties have to except: `failed`, the components for which a call failed in
this life, and `contended`, those on which two jobs met, which were installed while they ran, or whose service an uninstall of
another name took. `Undisturbed(c)` is neither. What happens to an excepted component is wrong in most cases; section 6
says how, and no property here catches it. Properties say what holds *without* an exception where the code manages that:
`PermissionsBeforeRun` and the first conjunct of `TokenAgreement` hold under any interleaving, `ResolverReachable` (whoever is given a
DNS server is given one that is there) under any interleaving and whichever calls fail, networks left by an earlier life included, and
the first half of `BooksAgreeAtRest` (what is listed runs) whichever calls fail. Its second half, that what runs is listed, needs
that no call failed, since a removal that fails breaks it.

Assumptions about the surroundings, each visible in an action:

- An API install never names a builtin component (`InstallCommand`); the UI offers none.
- Each command is served once (`Request` bounds the number of commands of a life; after a crash they are new again).
- The clean-up of a start removes all services and secrets of an earlier life and may leave networks behind
  (`Boot`, fault `clean`); the core-network and the arbiter start empty. `Bootstrap` has the details.
- The core-network container is there whenever a launch looks for it: `PreConfig` indexes the list without checking
  its length, and an absent core-network would end the process.
- `PreConfig` looks networks up by a part of their name. The network it finds is taken to be the component's own.
- Which calls fail is the constant `Faults`; a call that fails changes nothing, but for `AddPermissions`.

### CrashDetector

A container is a service and the number of its task, which stands for its address too: swarm gives each new container
a new one and none is used again. `events` is docker's stream from the moment the detector subscribes. `worker` holds the
detector and the goroutines of restart and uninstall commands:

| Code | Actions |
|---|---|
| `Restart` | `List`, `Stop` and `Stopped` (`ContainerRemove` begins and returns), `WaitForService` (one poll a step), `ServiceRestart` |
| `Uninstall` | `Find`, `NetworkOfService` (the address), `RemoveService`, `DisconnectEndpoints` |
| `crashDetectore` | `Watch`, then one action per case: `NoteUninstall`, `NoteRestart`, `EndOfRestart`, `EndOfUninstall`, `EndOfCrash` |
| swarm and docker (external) | `StartTask`, `StopTask`, `CrashTask` |

`EndOfCrash` makes the detector itself run `Restart`; until it returns no event is read. Docker's order is assumed:
`kill` before `die` of a container, and `remove` of a service before its container ends. `Labelled` are the services whose
containers carry `databox.type`, `Network` those that have a docker network of their own name, which stores do not. `MaxCrashes`
bounds the crashes, `Timeout` the polls (20 in the code). Services are not created here: what creates them is `ComponentLifecycle`.

`Find` takes the first service whose name begins with the one asked for (`BeginsWith`), the exact name if it is there. So the
uninstall of `NAME` may remove another service (`victim`), and then posts the name `NAME` with the address of that one.
The address is read before the removal and posted after it, and may be old by then. What the core-network does with the post is outside the
repository; it is assumed to forget the address of a name if it is the one posted, and to replace an old address by a new
one if it has the old one. `ended` (containers ended on purpose), `taken` (services removed by an uninstall of another name)
and `disturbed` (crashed, a call failed or timed out, or two goroutines met) are history variables. `AddressKnown` says for the
services that are not `disturbed` which addresses the core-network has, those that it ought not to have included: the
address of a store stays known after its removal, and so does that of a service taken by another's uninstall.

### ComponentRegistry

The registry is what an operator may rely on: three records that change one component at a time and in one order
(created, saved, listed; removed, forgotten, no longer listed), so that a death at any instant leaves a state from which the next life
makes what was last asked for, or what was there before. It knows no goroutines, calls, secrets or networks. The mapping
(`ComponentRefinement`) takes `service`, `sla` and `installed`, and for "nothing is promised of" the components in `failed` or
`contended`. Its next-state relation is checked as the PROPERTY `KeepsRegistry` of run `lifecycle_builtin`, where it exercises saved
and builtin components, and proved in general.

### Bootstrap

`pc` is the step of the main goroutine, from the certificates through `checkForAndFixBadRestarts`, core-network, secrets,
keys, `updateContainerManager` and arbiter to the servers:

| Code | Actions |
|---|---|
| `generateDataboxCertificates`, `generateArbiterTokens` | `Generate` (look, create, write: `os.Create` and the writing are two steps), `GenCertPanics` |
| `checkForAndFixBadRestarts` | `CheckForAndFixBadRestarts`, `RemoveService`, `RemoveCoreNetwork`, `DropSecrets` |
| `startCoreNetwork`, `startCoreNetworkRelay` | `StartCoreNetwork`, `StartCoreNetworkRelay` |
| `Databox.Start`: secrets and keys | `CreateFileSecrets`, `CreatePublicKey`, `CreateSecretKey` |
| `updateContainerManager` | `WriteResolver`, `UpdateContainerManager`, `UpdateRefused`, `Rebooted`, `NotRebooted` (1000 seconds have passed) and then `RebootedLate` |
| `startArbiter`, waiting for it in `main`, `startExportService`, `launchCMStore`, `ServeSecure` | `StartArbiter`, `ArbiterRuns`, `ArbiterLate` (the tenth poll), `StartExportService`, `LaunchCMStore`, `Serve`, and their refusals |
| swarm, the host, the user (external) | `TaskStarts`, `TaskStops`, `Crash`, `HostReboots`, `UserStarts` |

`files`, docker's objects and `own`, the state of the manager's own service, outlive the process; everything else is lost
with it (`Dies`). A reboot of the host also ends the two containers swarm does not look after. Four files stand for the
public part of the CA, the CA, the certificates and the tokens. Two secrets stand for those made from files. The overlay
networks come and go with the databox-network container. `labelled` says whether whoever installed databox put
`databox.type` on the manager's service: the repository does not tell, so both are checked. Docker's rules are assumed to be: a
secret in use cannot be removed, an empty secret and a second service of a name are refused, and so is an update that
attaches a secret twice.

There are three copies of the core-network's address. `own` is what the manager's service was updated with; a task of that service
gets it as DNS server (`resolver`) and in `DATABOX_DNS_IP` (`env`). `WriteResolver` repairs the first copy only, and `LaunchCMStore`
gives the second to the store (`storeDNS`). `CoreNetworkReady` is about what the manager itself resolves, `StoreResolves` about its store:
the latter has the right server if the databox-network has not moved since the update, which needs that no store is left from
a life that did not know the address yet. A manager that outlived its update (`outlived`) has neither copy.

`spoilt` records which of the few states that no start repairs a death or a refused call has left: a file
created and not filled (`file`), a public key without its private key (`keys`), a core-network without its relay (`relay`), a
single old service next to an unlabelled manager (`alone`), a service the clean-up could not remove (`remove`).

### Access

`Start` takes the password from the options, from the store, or makes one (`UseOverride`, `LoadPassword`,
`GeneratePassword`); `PublishQrCode` loads it again for the code; `auth` is `OpenSession` and `CheckSession`, `proxy` is `Proxy`. A
client knows what it scanned, asks for a page, and logs in when it is refused. `LaunchUI` is the one attempt of a life to launch core-ui:
when it fails, `proxy` answers "not found" until the process dies (`Bare`), and `ScannedGetsIn` says that this is the only way in
which a client whose password is right never gets in. `opened` and `spoilt` are history variables. Passwords are never made twice
(`Fresh`).

### WebSocketProxy

One connection: the handler (`NotInstalled` ... `Select`, `CloseBackend`) and the goroutines `copy`, one per direction, whose
`Read`, `Write`, `Report` and `SayBye` are steps of their own. Each direction of each connection is a queue of bounded
length, so that writing blocks. `From` and `To` say which goroutine copies what. The library answers a close message by itself
(`ReadClose`), and refuses to write after one was sent.

### WebSocketRelay

The relay is what the browser and the component may rely on. It knows what each has sent and received and whether it has
ended the conversation, and neither handler, goroutines, queues nor channels. A peer gets the next message (`Deliver`) or a close message
(`Tell`), once, as the last thing, never before somebody has ended the conversation, and, when the other side waits for the
answer to its close message, not before all that it sent. The mapping is the identity on `sent`, `received` and `peer`: `Send` is `Send`,
`SendClose` and `HangUp` are `End`, `Receive` is `Deliver` or `Tell`, and no step of the handler or a goroutine shows. It is
the PROPERTY `KeepsRelay` of run `websocket`.

### SlaCompiler

`LaunchFromSLA` again, with the SLA looked into: `Configure` (`getAppConfig`, `getDriverConfig`), `ConnectEndpoints`, then
`addPermissionsFromSLA` as `GrantExport`, `ConnectExternal`, `GrantSource`, `GrantOwnStore`, one post or group of posts each, and
`CreateService`, `SaveSLA`. A URL is its host, or `Bad`, which `url.Parse` turns into nil; `AtNilURL` says where nil is
used, and `Panic` what it does. A permission is a target, an area of paths, what it is about, and a method. One component is
installed, uninstalled and reloaded with changing SLAs. Interleavings are left to `ComponentLifecycle`. Nothing revokes a
permission while the arbiter lives: `granted` only grows until the process dies and the next start replaces the arbiter. Any call may
fail (`MayFail`); `spoilt` says that one did in the launch of what runs or in an uninstall since. `SlaHonoured` is what a component may
count on however many SLAs were launched under its name: all rights of its own SLA, and a connection to whatever they are about.

## 4. Runs

| Run | Instance | Shows |
|---|---|---|
| `lifecycle` | driver with store, app that reads it; two commands, crashes, no failing call | permissions, tokens, completeness, books and saved components |
| `lifecycle_faults` | driver with store; two commands, crashes; network, register, create, remove, save and clean may fail | no DNS server that is not there, what is listed runs; `IInv`, on which the proofs rest |
| `lifecycle_builtin` | core-ui and a driver whose name begins all other names; two commands, crashes; secret and grant may fail | what `Start` launches itself is never saved, tokens agree, the lifecycle implements the registry, all this when an uninstall takes another's service |
| `lifecycle_live` | driver with store, app; one command, crashes; image, connect, forget, read and clean may fail | `reloadApps` returns; what was saved at a death runs in a later life that got through |
| `detector` | driver and store, whose name begins with the driver's; two commands, one crash, removals and posts may fail | only crashes are restarted, addresses, flags |
| `detector_live` | driver and an unlabelled store; one command, two crashes, removals and posts may fail | every event is read in the end, those of one service while the detector restarts the other included |
| `bootstrap` | two addresses, two key pairs, label or not; removals and secrets may fail, swarm and the arbiter be late, any number of deaths and reboots | keys match, manager and store resolve names, the update is not taken for a bad restart, files are made in order; the manager serves in the end |
| `access` | two clients, five passwords, with and without `OverridePasword`, any number of deaths; each call to the store fails at most once, the launch of core-ui until failures come to an end | the password lasts, the QR code opens, who scanned it gets in unless core-ui is not there |
| `websocket` | two messages each way, connections that hold one, either side may close or go | order, no loss before a close, the browser is told, no goroutine is left; the proxy implements the relay |
| `sla` | six SLAs with a sensor, an actuator, a function, whitelists and a bad URL; any call may fail, deaths | datasources are usable as their kind allows; a saved SLA never ends the process; what its SLA asks a component has |
| `claim_registration` | driver; one crash | violated: the address of a crashed component is never updated |
| `claim_self` | the manager's service has the label, nothing fails | violated: the clean-up removes the manager's own service |

Why the bounds are enough: every race the code has is between two jobs on one component, or between one job and a
component it depends on. Two commands and the reload give three jobs on one component; a driver, its store and an
app give every dependency the code makes (own store, other store, builtin). A third command only repeats a pair. A
crash may happen any number of times in `lifecycle*`, since a life that begins again has no more states than
the first. In the detector one or two crashes and a restart that takes one or two polls suffice for events to wait behind a
restart, for a crash to meet a restart or uninstall, and for a restart to time out; two commands on the driver are what it takes for the
second uninstall to find the store. Commands are symmetric in the runs
without liveness. Faults are spread over the runs, since all twelve at once exceed what TLC does in minutes; the proofs
take any set. In `bootstrap` a second address is what makes a resolver stale and a second key pair is what makes keys
differ; deaths and reboots are not bounded. In `access` two clients show that one's session does not end another's, and five
passwords are more than a behaviour with one failed load can use up before the next is needed. In `websocket` two messages on a
connection that holds one make each side wait. In `sla` every kind of datasource, of URL and of SLA occurs, and any number of them
follow each other.

Fairness. `lifecycle_live` asks weak fairness of each goroutine and of the steps of `Start`: the Go scheduler runs every
goroutine, and remote calls answer or fail. `<>[][~Crash]_vars` says that the process is not killed for ever. Nothing is
asked of users' commands. `detector_live` asks weak fairness of the detector's goroutine only (`Watch`, `Detect` and its
own `Restart`): swarm need not ever start a container, since `WaitForService` gives up. `bootstrap` and `access` ask weak
fairness of the goroutines and of swarm, that the user starts databox again when its service is gone, and that deaths,
failures and delays come to an end (`CalmsDown`): from then on swarm restarts an updated service within 1000 seconds and the
arbiter runs at the tenth poll; and of `bootstrap`'s `RemoveService` strong fairness, since swarm may stop the
process just before it removes the next service, but not for ever. `websocket` asks weak fairness of the handler and of each goroutine, and
that peers read and go when they are told.

## 5. Proofs

All theorems hold for every value of the constants that meets the `ASSUME`s of their module (`NamesAssumption` and
`OptionsAssumption`, `WorkersAssumption`, `BootstrapAssumption`, `AccessAssumption`, `ProxyAssumption`, `SlaAssumption`): distinct
names, one store per component, more than one key pair, good URLs that differ from the bad one, connections that hold at
least one message, and no more.

- `TypeCorrect`: `TypeOK` is an invariant of `ComponentLifecycle`.
- `PermissionsHold`: `PermissionsBeforeRun`, from `GrantsHeld`: a launch about to create the service has the grants. No step
  takes a grant back while the process lives, whatever other jobs do, so no exception for contention is needed.
- `InvariantHolds`: `IInv`. The safety properties speak of components at rest or running; none is inductive, since each
  is made true by a sequence of calls. `IInv` follows a job from call to call: `Ready` says what the calls made so far
  leave for the next, `Knows` what a job alone with its component knows, `Solo` that it is alone, `Booked`, `Whole` and `Saved`
  what is left when it is done. `Booked` is weaker than equality where a removal failed; that an uninstall of another name may take
  a service is why a component's parts are followed only until it is `contended`. `JobsNamed` and `BootOK` tie the jobs of
  `reloadApps` to how far `Start` is. From it follow `TokensAgree`, `NothingHalfBuilt`, `BooksAgree` and `SavedRun`.
- `ResolversReachable`: `ResolverReachable`, from `ResolversHeld`: a job that has a DNS address found the network attached, and
  nothing detaches a network while the process lives.
- `DetectorTypeCorrect`: `TypeOK` of `CrashDetector`, `WaitForService`'s timeout included.
- `DetectorSparesEnded`: `SparesEnded`. `SparesInv` says of each container that ended on purpose where its mark is when
  its `die` event is read: already in `restartDetected`, or a `kill` before it in the queue, or its service in
  `uninstallDetected` or a `remove` before it, and then it is the last container of that service, so that the one
  flag of the service is not used up by another. `EndsOnce` keeps flags from being used twice.
- `DetectorFlagsCleared`: `FlagsCleared`, from `FlagsInv`. A flag is set when the `kill` of a container is read, and a `kill` in the
  queue is of a container that still runs or has its `die` behind it (`KillsEnd`): the event that clears the flag is
  still to come, even if the restart itself fails halfway.
- `DetectorAddressKnown`: `AddressKnown`, from `AddressInv`. On a service that is not `disturbed` one goroutine works at a time, as
  its own (`name`) or as what its uninstall found (`victim`), which is what `Followed` says; `RestartStage` and `RemoveStage` say what it
  knows at each call: in `WaitForService` the core-network still has the old address it read, when it reports it holds that one and
  the address of what runs, and from `NetworkOfService` to `DisconnectEndpoints` it holds the address that is known, or none where
  there is no network. `Settled` says what holds when nobody is at work; `IdleNameless`, that a goroutine at rest is on
  no service, makes "one" countable.
- `ImplementsRegistry`: `Spec => KeepsRegistry`. `Effect` says of each call what it may do to the three records and at
  which `pc`; `IInv` then says that an undisturbed job is at that `pc` only with the records in the order the registry
  asks for. Steps of disturbed components need nothing but that `loose` holds them.
- Of `Bootstrap`, from `BootInv`: `BootTypeCorrect`; `KeysAlwaysMatch` (`KeysHeld`: the public key is made first, neither half
  ever goes, and between the two the process holds the pair); `NetworkReady` (`NetworkHeld`); `StoreAddressRight` (`StoreHeld`:
  before the update there is no store, and from then on the environment has the address of the update); `UpdateNoBadRestart` (`CleanHeld`:
  what there can be of old services at each step after the clean-up); `PublicFirst` (`FilesHeld`).
- Of `Access`: `AccessTypeCorrect`, `PasswordsLast`, `QrCodeRight` and the action property `PasswordsKept`, from what `Start` has
  settled at each step (`Settled`), what opened sessions (`Opened`) and what the code shows (`Published`).
- Of `WebSocketProxy`, from `ProxyInv`: `ProxyTypeCorrect`; `ProxyInOrder` (`WrittenTo`, `WaitingFrom`: the messages of one direction are
  numbered without a gap from what a peer received, through its queue and what a goroutine holds, to what the other sent, for as
  long as that goroutine copies); `ProxyLosesNothing` (`Ending`: while one side has ended the conversation and the other waits, nothing
  fails (`Calm`) until the close message is read, and that is read last; so the close message passed on comes after everything);
  `ImplementsRelay`: `Spec => KeepsRelay`, where the invariant is needed only for what `Receive` takes off a queue. `RelayPromises` is
  about the relay alone: `KeepsRelay` implies both properties, so the abstract specification does not promise too little.
- Of `SlaCompiler`, from `SlaInv`: `SlaTypeCorrect`; `ReloadsSurvive` (`SoundHeld`: a saved SLA has been launched before, so its
  URLs have been met); `DatasourcesAreUsable` (`OnlyRights`, `LaunchHeld`, `RunningHeld`: all rights ever granted are those of a kind, a launch collects those of its
  own SLA, and nothing takes them back while the service runs); `SlasHonoured`, from the same two.

Only model-checked: the liveness properties (`ReloadCompletes`, `SavedComponentsReturn`, `EventsRead`, `ServesAgain`,
`ScannedGetsIn`, `ClientIsTold`, `Ends`), which are out of TLAPS's reach here. Every safety property, action property and refinement
that a passing run checks is proved.

## 6. Disagreements between code and comments

Each of these is a violation run; `PROJECT.json` has the lines. After a crash the core-network is not told of the new
address, the one thing the detector is for, unless swarm was faster than the detector, which then kills the healthy
replacement (`claim_registration`). After a bad restart the manager compares service IDs with its container ID, and so
removes its own service (`claim_self`).

Seen while modelling, and part of the models without a run of their own:

- An install of a running component registers a new token with the arbiter (`containerManager.go:918`) before docker refuses the service:
  the running one keeps a token the arbiter no longer knows.
- When docker does not remove a service (`containerManager.go:415`), the error is logged and the uninstall goes on: the component
  runs, is not in `InstalledComponents`, and its SLA is gone, so that the proxy does not serve it and no second uninstall is offered.
- Two installs of one component register two tokens and only one service comes of it; two jobs on one component in general leave whatever
  their last calls make of it. Nothing is proved of such components (`contended`) but permissions, secrets and DNS servers.
- An uninstall that overtakes an install leaves an entry in `InstalledComponents` without a service (line 308), and one that
  overtakes a reload leaves a component running unsaved (line 301). One that arrives before `reloadApps` launched the component does
  nothing.
- `Uninstall` lists the secrets to remove after it removed the service, so they stay (line 418).
- A second uninstall of a component finds its store by name prefix and removes it (line 404), or a component whose name begins with
  that name; the other's SLA and entry in `InstalledComponents` stay, and the core-network goes on to know its address.
- The address of a store stays known to the core-network after its removal, since it is looked for on a network that a store
  does not have (line 412).
- `InstalledComponents` is written without a lock, which the Go runtime may punish with the end of the process
  (`ConcurrentMapWrites`, on in run `lifecycle`).
- A certificate, CA or token whose file was created and not filled is never made again: the process ends at each start
  (`ServesAgain` excepts it, `file`). A public key without its private key is never completed (`keys`), because each start makes a new pair.
- `crashDetectore` subscribes only after `reloadApps` returned (`containerManager.go:158`): what crashes before is never handled.
- `WaitForService` returns the list it read before it slept (line 463), and a container that swarm had to kill sends a `die` event
  that uses up the flag of its uninstall (line 180).
- `coreNetworkClient.post` returns a nil error when core-network answers with a status other than 2xx (`coreNetworkClient.go:213`).
- When the databox-network has moved since the manager was updated, the manager's own resolver is rewritten, and its store is given
  the old address from `DATABOX_DNS_IP` (`containerManager.go:712`). `StoreResolves` holds only if it has not moved.
- A manager that swarm does not restart within 1000 seconds after the update starts arbiter and components with neither a
  resolver nor `DATABOX_DNS_IP` (`databoxLoader.go:376`; `outlived`).
- One old service next to an unlabelled manager is no bad restart, and the arbiter, if it is that one, cannot be started again
  (`alone`).
- When the password cannot be loaded a new one is saved over it (`PasswordKept` says that this is the only way to lose it).
- `launchUI` logs that core-ui could not be launched (`containerManager.go:663`) and is called once: until the next start every page is
  "not found" (`Bare`).
- After a failed upgrade `webSocketProxy` does not return, and the process ends (`UpgradeFails`). Its second deferred call closes the
  backend again instead of the client, which is why the browser always gets its close message (`ClientIsTold`; the mutant `CloseBoth`).
- A manifest with a URL that cannot be parsed ends the process (`Panic`), though never twice for one install (`ReloadSurvives`).
- No code revokes a permission. A component that is installed again with another SLA keeps what an earlier one asked for, on
  hosts it is no longer connected to, until the manager starts again.
- A driver with an `ExportWhitelist` may use the export-service and is not connected to it.

## 7. Not modelled

- The contents of certificates, tokens and keys, the HTTP server and static pages: library calls and files without state of
  interest.
- `ServiceStatus` and `ListAllDatasources`, which read and answer; `populateServiceStatus` and `populateDataSources`, which are
  never called.
- `calculateImageNameFromSLA` and `convertManifestToSLA`: formatting and copying of fields.
- `RegisterPrivileged`, whose error `Start` drops, and `ClearSLADatabase`, which a start option asks for.
- Which overlay networks are attached to what during a bad restart, beyond the databox-network container that is the reason for them.
- The failure of docker's event stream, whose error channel `crashDetectore` drops.
- The manager's right to read the catalogue of each store (`/cat`), which only `ListAllDatasources` needs.
