--------------------------- MODULE ComponentLifecycle ---------------------------
(***************************************************************************)
(* How the container manager installs, uninstalls and reloads databox apps  *)
(* and drivers (containerManager.go, coreNetworkClient.go, cmStoreClient.go,*)
(* cmZestAPI.go).                                                           *)
(*                                                                         *)
(* LaunchFromSLA and Uninstall run as goroutines that nothing serialises:  *)
(* one for each API command and one for each SLA reloaded at boot.  A job   *)
(* is such a goroutine; its pc is the next remote call it makes.  Every     *)
(* call to the docker daemon, the arbiter, the core-network or the store is *)
(* one step, so any two jobs interleave between calls, and the process may  *)
(* die between any two of them.                                             *)
(***************************************************************************)
EXTENDS Naturals, FiniteSets

CONSTANTS
  Component,     \* names of the apps and drivers
  Driver,        \* those whose SLA has type driver; the others are apps
  Builtin,       \* those that Start launches itself: app-store, core-ui
  HasStore,      \* those whose SLA asks for a store of their own
  Store,         \* names of stores
  StoreOf,       \* the name of the store of a component: Name-core-store
  BeginsWith,    \* the names that begin with the name of a component
  Datasources,   \* the components whose stores an app's SLA reads from
  Request,       \* API commands, each served by one goroutine
  Nobody,        \* no job, no name
  Faults,        \* calls that may fail in this instance
  MapRaceFatal,  \* does the Go runtime notice overlapping map writes?
  MayCrash       \* may the process be killed?

Job == Request \cup Component    \* the job named c reloads the SLA of c
Name == Component \cup Store

ASSUME NamesAssumption ==
  /\ Driver \subseteq Component
  /\ Builtin \subseteq Component
  /\ HasStore \subseteq Component
  /\ Component \cap Store = {}
  /\ Component \cap Request = {}
  /\ StoreOf \in [Component -> Store]
  /\ \A c, d \in Component : StoreOf[c] = StoreOf[d] => c = d
  /\ BeginsWith \in [Component -> SUBSET Name]
  /\ \A c \in Component : {c, StoreOf[c]} \subseteq BeginsWith[c]
  /\ Datasources \in [Component -> SUBSET HasStore]
  /\ Nobody \notin Job \cup Name

ASSUME OptionsAssumption ==
  /\ MayCrash \in BOOLEAN
  /\ MapRaceFatal \in BOOLEAN
  /\ Faults \subseteq {"network", "image", "secret", "register", "connect",
                       "grant", "create", "remove", "save", "forget",
                       "read", "clean"}

VARIABLES
  phase,      \* of Start: down, serving, drivers, apps (reloading), ready
  reload,     \* the SLAs read at boot by reloadApps
  job,        \* per goroutine: pc, and the locals it keeps between calls
  net,        \* docker networks: none, bare, attached to the core-network
  service,    \* swarm services: the job that created it, which is its ID
  resolver,   \* components whose service was given a DNS server
  secret,     \* ARBITER_TOKEN secrets: the job that made the token
  arbiter,    \* tokens the arbiter knows
  grants,     \* per component: stores it may use, says the arbiter
  connected,  \* components connected to their peers by the core-network
  sla,        \* SLAs saved in the store of the container manager
  installed,  \* InstalledComponents
  failed,     \* history: components a call failed for, at boot or since
  contended   \* history: components two jobs met on, launched twice, or
              \* whose service an uninstall of another name took

swarm == <<net, service, resolver, secret>>
peers == <<arbiter, grants, connected>>
books == <<sla, installed>>
boot  == <<phase, reload>>
vars  == <<boot, job, swarm, peers, books, failed, contended>>

LaunchPC == {"preconfig", "netcreate", "netattach", "config", "unsecret",
             "secret", "register", "connect", "storecheck", "storeunsecret",
             "storesecret", "storeregister", "storecreate", "grant", "create",
             "save", "track"}
UninstallPC == {"find", "remove", "listsecrets", "dropsecrets",
                "disconnect", "forget", "untrack"}

PC == LaunchPC \cup UninstallPC \cup {"idle", "done"}

ServiceRef == Name \X Job   \* a service as listed: its name and its ID

JobRecord == [pc     : PC,
              name   : Component \cup {Nobody},
              dns    : BOOLEAN,
              victim : Name \cup {Nobody},
              id     : Job \cup {Nobody},
              listed : SUBSET ServiceRef]

NoJob == [pc |-> "idle", name |-> Nobody, dns |-> FALSE,
          victim |-> Nobody, id |-> Nobody, listed |-> {}]

TypeOK ==
  /\ phase \in {"down", "serving", "drivers", "apps", "ready"}
  /\ reload \subseteq Component
  /\ job \in [Job -> JobRecord]
  /\ net \in [Component -> {"none", "bare", "attached"}]
  /\ service \in [Name -> Job \cup {Nobody}]
  /\ resolver \subseteq Component
  /\ secret \in [Name -> Job \cup {Nobody}]
  /\ arbiter \in [Name -> Job \cup {Nobody}]
  /\ grants \in [Component -> SUBSET Store]
  /\ connected \subseteq Component
  /\ sla \subseteq Component
  /\ installed \subseteq Component
  /\ failed \subseteq Component
  /\ contended \subseteq Component

-----------------------------------------------------------------------------
(* Jobs *)

Active(j) == job[j].pc \notin {"idle", "done"}
On(j, c) == Active(j) /\ job[j].name = c
Pending(c) == phase = "drivers" /\ c \in reload \ Driver   \* reloadApps will launch it
Busy(c) == Pending(c) \/ \E j \in Job : On(j, c)
Started(l, c) == [NoJob EXCEPT !.pc = l, !.name = c]

At(j, l) == job[j].pc = l
Goto(j, l) == job' = [job EXCEPT ![j].pc = l]
Return(j) == job' = [job EXCEPT ![j] = [NoJob EXCEPT !.pc = "done"]]

\* A remote call failed; the code logs or drops the error and mostly goes on.
FailFor(c) == failed' = failed \cup {c}
MayFail(call) == call \in Faults

\* Mutant: the services that could be listed, there or not.
ListedAlways(c) == BeginsWith[c]

\* The docker name filter returns the services whose name begins with the
\* given one: NAME, but also NAME-core-store and those of other components.
Listed(c) == {n \in BeginsWith[c] : service[n] # Nobody}

-----------------------------------------------------------------------------
(* LaunchFromSLA *)

\* Mutant: a network that exists is attached to the core-network.
PreConfigTrusting(j) ==
  /\ At(j, "preconfig")
  /\ IF net[job[j].name] = "none"
       THEN Goto(j, "netcreate")
       ELSE job' = [job EXCEPT ![j].pc = "config", ![j].dns = TRUE]
  /\ UNCHANGED <<boot, swarm, peers, books, failed, contended>>

\* PreConfig lists the networks and looks up the core-network on the one it
\* finds, whose address there becomes the DNS server of the component.
PreConfig(j) ==
  LET c == job[j].name IN
  /\ At(j, "preconfig")
  /\ IF net[c] = "none"
       THEN Goto(j, "netcreate")
       ELSE job' = [job EXCEPT ![j].pc = "config",
                               ![j].dns = (net[c] = "attached")]
  /\ UNCHANGED <<boot, swarm, peers, books, failed, contended>>

CreateNetwork(j) ==
  LET c == job[j].name IN
  /\ At(j, "netcreate")
  /\ \/ /\ net[c] = "none"
        /\ net' = [net EXCEPT ![c] = "bare"]
        /\ Goto(j, "netattach")
        /\ UNCHANGED failed
     \/ /\ net[c] # "none" \/ MayFail("network")
        /\ Goto(j, "config")
        /\ FailFor(c)
        /\ UNCHANGED net
  /\ UNCHANGED <<boot, service, resolver, secret, peers, books, contended>>

\* Mutant: the network is not inspected again once it is attached.
AttachStale(j) ==
  LET c == job[j].name IN
  /\ At(j, "netattach")
  /\ net' = [net EXCEPT ![c] = "attached"]
  /\ Goto(j, "config")
  /\ UNCHANGED <<boot, service, resolver, secret, peers, books, failed, contended>>

AttachNetwork(j) ==
  LET c == job[j].name IN
  /\ At(j, "netattach")
  /\ \/ /\ net' = [net EXCEPT ![c] = "attached"]
        /\ job' = [job EXCEPT ![j].pc = "config", ![j].dns = TRUE]
        /\ UNCHANGED failed
     \/ /\ MayFail("network")
        /\ Goto(j, "config")
        /\ FailFor(c)
        /\ UNCHANGED net
  /\ UNCHANGED <<boot, service, resolver, secret, peers, books, contended>>

\* The SLA has an unknown type, its image cannot be pulled or its development
\* mount is missing: the launch gives up, whatever it made so far stays.
Configure(j) ==
  /\ At(j, "config")
  /\ \/ Goto(j, "unsecret") /\ UNCHANGED failed
     \/ MayFail("image") /\ Return(j) /\ FailFor(job[j].name)
  /\ UNCHANGED <<boot, swarm, peers, books, contended>>

\* createSecret removes the old secret of that name, if no service uses it,
RemoveSecret(j, n, next) ==
  /\ \/ secret' = [secret EXCEPT ![n] = IF service[n] = @ THEN @ ELSE Nobody]
     \/ MayFail("secret") /\ UNCHANGED secret
  /\ Goto(j, next)
  /\ UNCHANGED <<boot, net, service, resolver, peers, books, failed, contended>>

\* and makes a new one, which docker refuses while one of that name is there.
CreateSecret(j, n, next) ==
  /\ \/ /\ secret[n] = Nobody
        /\ secret' = [secret EXCEPT ![n] = j]
        /\ UNCHANGED failed
     \/ /\ secret[n] # Nobody \/ MayFail("secret")
        /\ FailFor(job[j].name)
        /\ UNCHANGED secret
  /\ Goto(j, next)
  /\ UNCHANGED <<boot, net, service, resolver, peers, books, contended>>

\* Mutant: a component the arbiter knows is not registered again.
RegisterOnce(j, n, next) ==
  /\ arbiter' = [arbiter EXCEPT ![n] = IF @ = Nobody THEN j ELSE @]
  /\ Goto(j, next)
  /\ UNCHANGED <<boot, swarm, grants, connected, books, failed, contended>>

\* The second half of genorateSecrets: tell the arbiter the new token.
RegisterComponent(j, n, next) ==
  /\ \/ arbiter' = [arbiter EXCEPT ![n] = j] /\ UNCHANGED failed
     \/ MayFail("register") /\ FailFor(job[j].name) /\ UNCHANGED arbiter
  /\ Goto(j, next)
  /\ UNCHANGED <<boot, swarm, grants, connected, books, contended>>

GenorateSecrets(j) ==
  LET c == job[j].name IN
  \/ At(j, "unsecret") /\ RemoveSecret(j, c, "secret")
  \/ At(j, "secret") /\ CreateSecret(j, c, "register")
  \/ At(j, "register") /\ RegisterComponent(j, c, "connect")
  \/ At(j, "storeunsecret") /\ RemoveSecret(j, StoreOf[c], "storesecret")
  \/ At(j, "storesecret") /\ CreateSecret(j, StoreOf[c], "storeregister")
  \/ At(j, "storeregister") /\ RegisterComponent(j, StoreOf[c], "storecreate")

\* Mutant: permissions are added on the way through launchStore only.
ConnectSkipsGrant(j) ==
  LET c == job[j].name IN
  /\ At(j, "connect")
  /\ connected' = connected \cup {c}
  /\ Goto(j, IF c \in HasStore THEN "storecheck" ELSE "create")
  /\ UNCHANGED <<boot, swarm, arbiter, grants, books, failed, contended>>

ConnectEndpoints(j) ==
  LET c == job[j].name IN
  /\ At(j, "connect")
  /\ \/ connected' = connected \cup {c} /\ UNCHANGED failed
     \/ MayFail("connect") /\ FailFor(c) /\ UNCHANGED connected
  /\ Goto(j, IF c \in HasStore THEN "storecheck" ELSE "grant")
  /\ UNCHANGED <<boot, swarm, arbiter, grants, books, contended>>

\* Mutant: a component whose store is there has its permissions.
CheckStoreSkipsGrant(j) ==
  /\ At(j, "storecheck")
  /\ Goto(j, IF service[StoreOf[job[j].name]] # Nobody
               THEN "create" ELSE "storeunsecret")
  /\ UNCHANGED <<boot, swarm, peers, books, failed, contended>>

\* launchStore makes the store unless it is there.
CheckStore(j) ==
  /\ At(j, "storecheck")
  /\ Goto(j, IF service[StoreOf[job[j].name]] # Nobody
               THEN "grant" ELSE "storeunsecret")
  /\ UNCHANGED <<boot, swarm, peers, books, failed, contended>>

\* ServiceCreate needs a free name and the secrets the job made.
CanCreate(j, n) == service[n] = Nobody /\ secret[n] = j

\* The error of a store that could not be made is logged; the launch goes on.
CreateStore(j) ==
  LET c == job[j].name
      s == StoreOf[c] IN
  /\ At(j, "storecreate")
  /\ \/ /\ CanCreate(j, s)
        /\ service' = [service EXCEPT ![s] = j]
        /\ UNCHANGED failed
     \/ /\ ~CanCreate(j, s) \/ MayFail("create")
        /\ FailFor(c)
        /\ UNCHANGED service
  /\ Goto(j, "grant")
  /\ UNCHANGED <<boot, net, resolver, secret, peers, books, contended>>

\* The stores that addPermissionsFromSLA lets a component use.
SlaStores(c) ==
  {StoreOf[d] : d \in IF c \in Driver THEN {} ELSE Datasources[c]}
    \cup (IF c \in HasStore THEN {StoreOf[c]} ELSE {})

AddPermissions(j) ==
  LET c == job[j].name IN
  /\ At(j, "grant")
  /\ \/ /\ grants' = [grants EXCEPT ![c] = @ \cup SlaStores(c)]
        /\ UNCHANGED failed
     \/ /\ MayFail("grant") /\ FailFor(c)
        /\ \E some \in SUBSET SlaStores(c) :
             grants' = [grants EXCEPT ![c] = @ \cup some]
  /\ Goto(j, "create")
  /\ UNCHANGED <<boot, swarm, arbiter, connected, books, contended>>

\* Mutant: every launch saves its SLA.
SavesAll(j) == TRUE

\* API installs save the SLA; reloads and the builtin components do not.
Saves(j) == j \in Request

\* Mutant: the error of a service that could not be made is logged.
CreateServiceLogs(j) ==
  LET c == job[j].name IN
  /\ At(j, "create")
  /\ \/ /\ CanCreate(j, c)
        /\ service' = [service EXCEPT ![c] = j]
        /\ resolver' = IF job[j].dns THEN resolver \cup {c} ELSE resolver \ {c}
        /\ UNCHANGED failed
     \/ /\ ~CanCreate(j, c) \/ MayFail("create")
        /\ FailFor(c)
        /\ UNCHANGED <<service, resolver>>
  /\ Goto(j, IF Saves(j) THEN "save" ELSE "track")
  /\ UNCHANGED <<boot, net, secret, peers, books, contended>>

\* The error of a service that could not be made ends the launch.
CreateService(j) ==
  LET c == job[j].name IN
  /\ At(j, "create")
  /\ \/ /\ CanCreate(j, c)
        /\ service' = [service EXCEPT ![c] = j]
        /\ resolver' = IF job[j].dns THEN resolver \cup {c} ELSE resolver \ {c}
        /\ Goto(j, IF Saves(j) THEN "save" ELSE "track")
        /\ UNCHANGED failed
     \/ /\ ~CanCreate(j, c) \/ MayFail("create")
        /\ FailFor(c)
        /\ Return(j)
        /\ UNCHANGED <<service, resolver>>
  /\ UNCHANGED <<boot, net, secret, peers, books, contended>>

SaveSLA(j) ==
  LET c == job[j].name IN
  /\ At(j, "save")
  /\ \/ sla' = sla \cup {c} /\ UNCHANGED failed
     \/ MayFail("save") /\ FailFor(c) /\ UNCHANGED sla
  /\ Goto(j, "track")
  /\ UNCHANGED <<boot, swarm, peers, installed, contended>>

TrackInstalled(j) ==
  /\ At(j, "track")
  /\ installed' = installed \cup {job[j].name}
  /\ Return(j)
  /\ UNCHANGED <<boot, swarm, peers, sla, failed, contended>>

Launch(j) ==
  \/ PreConfig(j) \/ CreateNetwork(j) \/ AttachNetwork(j) \/ Configure(j)
  \/ GenorateSecrets(j) \/ ConnectEndpoints(j)
  \/ CheckStore(j) \/ CreateStore(j) \/ AddPermissions(j)
  \/ CreateService(j) \/ SaveSLA(j) \/ TrackInstalled(j)

-----------------------------------------------------------------------------
(* Uninstall *)

\* Mutant: the exact name is listed last.
FindLastService(j) ==
  LET c == job[j].name IN
  /\ At(j, "find")
  /\ \/ Listed(c) = {} /\ Return(j)
     \/ \E n \in Listed(c) :
          /\ Listed(c) # {c} => n # c
          /\ job' = [job EXCEPT ![j].pc = "remove", ![j].victim = n,
                                ![j].id = service[n]]
  /\ UNCHANGED <<boot, swarm, peers, books, failed, contended>>

\* The first service listed under the name is the one to remove: the exact
\* name sorts first, the order of the others depends on their names.  Without
\* any, Uninstall returns an error that its caller drops.
FindService(j) ==
  LET c == job[j].name IN
  /\ At(j, "find")
  /\ \/ Listed(c) = {} /\ Return(j)
     \/ \E n \in Listed(c) :
          /\ c \in Listed(c) => n = c
          /\ job' = [job EXCEPT ![j].pc = "remove", ![j].victim = n,
                                ![j].id = service[n]]
  /\ UNCHANGED <<boot, swarm, peers, books, failed, contended>>

\* Whose service that is.
Owners(n) == {d \in Component : n \in {d, StoreOf[d]}}

\* ServiceRemove goes by the ID read before.  Its error is logged, and the
\* uninstall goes on although the service is still there.
RemoveService(j) ==
  LET c == job[j].name
      n == job[j].victim IN
  /\ At(j, "remove")
  /\ \/ /\ service[n] = job[j].id
        /\ service' = [service EXCEPT ![n] = Nobody]
        /\ contended' = contended \cup (Owners(n) \ {c})
        /\ UNCHANGED failed
     \/ /\ service[n] # job[j].id \/ MayFail("remove")
        /\ FailFor(c)
        /\ UNCHANGED <<service, contended>>
  /\ Goto(j, "listsecrets")
  /\ UNCHANGED <<boot, net, resolver, secret, peers, books>>

\* The secrets to remove are those of the services listed now.
ListSecrets(j) ==
  /\ At(j, "listsecrets")
  /\ job' = [job EXCEPT ![j].pc = "dropsecrets",
                        ![j].listed = {<<n, service[n]>> :
                                         n \in Listed(job[j].name)}]
  /\ UNCHANGED <<boot, swarm, peers, books, failed, contended>>

\* SecretRemove fails on a secret that a service uses; nobody looks.
DropSecrets(j) ==
  /\ At(j, "dropsecrets")
  /\ secret' = [n \in Name |->
                  IF <<n, secret[n]>> \in job[j].listed /\ service[n] # secret[n]
                    THEN Nobody ELSE secret[n]]
  /\ Goto(j, "disconnect")
  /\ UNCHANGED <<boot, net, service, resolver, peers, books, failed, contended>>

DisconnectEndpoints(j) ==
  LET c == job[j].name IN
  /\ At(j, "disconnect")
  /\ \/ connected' = connected \ {c} /\ UNCHANGED failed
     \/ MayFail("connect") /\ FailFor(c) /\ UNCHANGED connected
  /\ Goto(j, "forget")
  /\ UNCHANGED <<boot, swarm, arbiter, grants, books, contended>>

\* The error of the store's delete is not looked at.
DeleteSLA(j) ==
  LET c == job[j].name IN
  /\ At(j, "forget")
  /\ \/ sla' = sla \ {c} /\ UNCHANGED failed
     \/ MayFail("forget") /\ FailFor(c) /\ UNCHANGED sla
  /\ Goto(j, "untrack")
  /\ UNCHANGED <<boot, swarm, peers, installed, contended>>

\* Mutant: an uninstalled component stays in InstalledComponents.
UntrackNothing(j) ==
  /\ At(j, "untrack")
  /\ Return(j)
  /\ UNCHANGED <<boot, swarm, peers, books, failed, contended>>

UntrackInstalled(j) ==
  /\ At(j, "untrack")
  /\ installed' = installed \ {job[j].name}
  /\ Return(j)
  /\ UNCHANGED <<boot, swarm, peers, sla, failed, contended>>

Uninstall(j) ==
  \/ FindService(j) \/ RemoveService(j)
  \/ ListSecrets(j) \/ DropSecrets(j)
  \/ DisconnectEndpoints(j) \/ DeleteSLA(j) \/ UntrackInstalled(j)

-----------------------------------------------------------------------------
(* API commands, boot and death of the process *)

\* processAPICommands starts a goroutine for each command, whatever runs.
InstallCommand(r, c) ==
  /\ phase # "down" /\ At(r, "idle") /\ c \notin Builtin
  /\ job' = [job EXCEPT ![r] = Started("preconfig", c)]
  /\ contended' = IF Busy(c) \/ service[c] # Nobody
                    THEN contended \cup {c} ELSE contended
  /\ UNCHANGED <<boot, swarm, peers, books, failed>>

UninstallCommand(r, c) ==
  /\ phase # "down" /\ At(r, "idle")
  /\ job' = [job EXCEPT ![r] = Started("find", c)]
  /\ contended' = IF Busy(c) THEN contended \cup {c} ELSE contended
  /\ UNCHANGED <<boot, swarm, peers, books, failed>>

\* The process starts: checkForAndFixBadRestarts removes what an earlier life
\* left in docker, where a network it cannot remove stays without the
\* core-network.  The core-network and the arbiter start empty, commands are
\* accepted and the goroutines of the builtin components begin.
Boot ==
  /\ phase = "down"
  /\ phase' = "serving"
  /\ job' = [j \in Job |-> IF j \in Builtin THEN Started("preconfig", j) ELSE NoJob]
  /\ \E left \in SUBSET {c \in Component : net[c] # "none"} :
       /\ left = {} \/ MayFail("clean")
       /\ net' = [c \in Component |-> IF c \in left THEN "bare" ELSE "none"]
       /\ failed' = left
  /\ service' = [n \in Name |-> Nobody]
  /\ secret' = [n \in Name |-> Nobody]
  /\ arbiter' = [n \in Name |-> Nobody]
  /\ grants' = [c \in Component |-> {}]
  /\ resolver' = {} /\ connected' = {} /\ contended' = {}
  /\ UNCHANGED <<reload, books>>

\* Mutant: only components in InstalledComponents are launched again.
RelaunchInstalled(some) ==
  job' = [j \in Job |-> IF j \in some \cap installed
                           THEN Started("preconfig", j) ELSE job[j]]

\* Goroutines that launch the SLAs read for some components begin.
Relaunch(some) ==
  job' = [j \in Job |-> IF j \in some THEN Started("preconfig", j) ELSE job[j]]

\* reloadApps reads the saved SLAs, passes over those it cannot read, and
\* launches the drivers.
ReloadDrivers ==
  /\ phase = "serving"
  /\ phase' = "drivers"
  /\ reload' \in SUBSET sla
  /\ reload' = sla \/ MayFail("read")
  /\ failed' = failed \cup (sla \ reload')
  /\ Relaunch(reload' \cap Driver)
  /\ contended' = contended \cup {c \in reload' : Busy(c) \/ service[c] # Nobody}
  /\ UNCHANGED <<swarm, peers, books>>

\* Mutants: nobody waits; a launch that failed never counts as done.
ReloadedAtOnce(some) == TRUE
ReloadedInstalled(some) == \A c \in some : At(c, "done") /\ c \in installed

\* The wait group: every goroutine of these SLAs has returned.
Reloaded(some) == \A c \in some : At(c, "done")

\* It waits for the drivers, then launches the apps.
ReloadApps ==
  /\ phase = "drivers" /\ Reloaded(reload \cap Driver)
  /\ phase' = "apps"
  /\ Relaunch(reload \ Driver)
  /\ UNCHANGED <<reload, swarm, peers, books, failed, contended>>

FinishReload ==
  /\ phase = "apps" /\ Reloaded(reload \ Driver)
  /\ phase' = "ready"
  /\ UNCHANGED <<reload, job, swarm, peers, books, failed, contended>>

\* Goroutines, their locals and InstalledComponents die with the process.
ProcessDies ==
  /\ phase' = "down"
  /\ job' = [j \in Job |-> NoJob]
  /\ reload' = {} /\ installed' = {}
  /\ UNCHANGED <<swarm, peers, sla, failed, contended>>

Crash ==
  /\ phase # "down" /\ MayCrash
  /\ ProcessDies

\* InstalledComponents is a plain map that jobs write without a lock: the Go
\* runtime kills the process when it notices two writes at once.
ConcurrentMapWrites(j, k) ==
  /\ MapRaceFatal /\ j # k
  /\ job[j].pc \in {"track", "untrack"} /\ job[k].pc \in {"track", "untrack"}
  /\ ProcessDies

\* All commands are served: the process waits for ever in main.
Quiet ==
  /\ phase = "ready" /\ \A r \in Request : At(r, "done")
  /\ \A j \in Job : ~Active(j)
  /\ UNCHANGED vars

Init ==
  /\ phase = "down" /\ reload = {}
  /\ job = [j \in Job |-> NoJob]
  /\ net = [c \in Component |-> "none"]
  /\ service = [n \in Name |-> Nobody]
  /\ secret = [n \in Name |-> Nobody]
  /\ arbiter = [n \in Name |-> Nobody]
  /\ grants = [c \in Component |-> {}]
  /\ resolver = {} /\ connected = {}
  /\ sla \in SUBSET (Component \ Builtin)
  /\ installed = {} /\ failed = {} /\ contended = {}

Next ==
  \/ Boot \/ ReloadDrivers \/ ReloadApps \/ FinishReload \/ Crash \/ Quiet
  \/ \E r \in Request, c \in Component :
       InstallCommand(r, c) \/ UninstallCommand(r, c)
  \/ \E j \in Job : Launch(j) \/ Uninstall(j)
  \/ \E j, k \in Job : ConcurrentMapWrites(j, k)

Spec == Init /\ [][Next]_vars

-----------------------------------------------------------------------------
(* Properties *)

\* Nothing went wrong for c since boot and no two jobs met on it.
Undisturbed(c) == c \notin failed \cup contended
Running(n) == service[n] # Nobody

\* Whatever the interleaving, a service holds the secret of the job that made
\* it, and unless a call failed it may use every store its SLA asks for:
\* LaunchFromSLA grants before it creates, and nothing ever takes a grant back.
PermissionsBeforeRun ==
  \A c \in Component :
    Running(c) /\ c \notin failed => SlaStores(c) \subseteq grants[c]

\* A running service holds the token of the launch that made it, and unless
\* something went wrong the arbiter knows that token, of the component and of
\* its store: genorateSecrets makes and registers it, launchStore does so only
\* for a store that is not there.
TokenAgreement ==
  /\ \A n \in Name : Running(n) => secret[n] = service[n]
  /\ \A c \in Component : Undisturbed(c) =>
       \A n \in {c, StoreOf[c]} : Running(n) => arbiter[n] = service[n]

\* A running component has the store its SLA asks for, is connected to its
\* peers and finds them by name: launches build bottom up and uninstalls take
\* apart top down.
NeverHalfBuilt ==
  \A c \in Component : Undisturbed(c) /\ Running(c) =>
    /\ c \in HasStore => Running(StoreOf[c])
    /\ c \in connected
    /\ c \in resolver /\ net[c] = "attached"

\* Between jobs the three records of what is there agree, as long as no two
\* jobs met: what InstalledComponents lists runs, whichever calls failed, and
\* what runs is listed, and saved or builtin, never both, unless a call failed
\* (a service that could not be removed runs on, neither listed nor saved).
BooksAgreeAtRest ==
  \A c \in Component \ contended : phase # "down" /\ ~Busy(c) =>
    /\ c \in installed => Running(c)
    /\ Running(c) /\ c \notin failed =>
         c \in installed /\ (c \in sla) # (c \in Builtin)

\* A component is given a DNS server only where there is one: on a network of
\* its own that the core-network is attached to, whichever calls failed, jobs
\* met, and networks an earlier life left behind.
ResolverReachable == \A c \in resolver : net[c] = "attached"

\* The saved drivers run when reloadApps launches the apps, and the saved apps
\* when it returns, save those a command is working on.
SavedComponentsRun ==
  \A c \in sla :
    /\ Undisturbed(c)
    /\ \A r \in Request : job[r].name # c
    /\ phase = "ready" \/ (phase = "apps" /\ c \in Driver)
    => Running(c)

-----------------------------------------------------------------------------
(* Liveness *)

\* The Go scheduler runs every goroutine, every remote call answers, and one
\* day the process is killed for the last time.
Fairness ==
  /\ WF_vars(Boot) /\ WF_vars(ReloadDrivers)
  /\ WF_vars(ReloadApps) /\ WF_vars(FinishReload)
  /\ \A j \in Job : WF_vars(Launch(j) \/ Uninstall(j))
  /\ <>[][~Crash]_vars

FairSpec == Spec /\ Fairness

\* However its launches fail, reloadApps returns, so that Start gets as far as
\* the crash detector.
ReloadCompletes == phase = "down" ~> phase = "ready"

\* A component saved when the process dies runs again once the next life has
\* reloaded, unless in that life somebody uninstalls it, one of its calls
\* fails, or two jobs meet on it.
SavedComponentsReturn ==
  \A c \in Component :
    phase = "down" /\ c \in sla ~>
      phase = "ready" /\ (Running(c) \/ c \notin sla \/ ~Undisturbed(c))
=============================================================================
