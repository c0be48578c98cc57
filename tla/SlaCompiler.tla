----------------------------- MODULE SlaCompiler -----------------------------
(***************************************************************************)
(* What a launch makes of an SLA: the environment of the service            *)
(* (getAppConfig, getDriverConfig), the hosts it is connected to, and what  *)
(* the arbiter lets it do (addPermissionsFromSLA).  Three functions read    *)
(* the same URLs for this, at different steps of LaunchFromSLA; one that    *)
(* cannot be parsed is found out by using the nil it is parsed to, which    *)
(* ends the process.                                                        *)
(*                                                                         *)
(* One component is installed, uninstalled and reloaded with changing SLAs, *)
(* one command after the other; how commands and calls interleave is the    *)
(* subject of ComponentLifecycle.                                           *)
(***************************************************************************)
CONSTANTS
  Source,    \* datasources that SLAs may name
  HostOf,    \* the host in the Href of each
  KindOf,    \* what IsActuator and IsFunc make of each
  Host,      \* hosts that URLs name
  Bad,       \* the host of a URL that url.Parse refuses
  Sla,       \* the SLAs that may be installed
  OwnStore,  \* the name of the component's own store
  MayFail,   \* may calls of the arbiter, the core-network, docker and the store fail?
  None       \* no SLA

Exporter == "export-service"
Kind == {"sensor", "actuator", "func"}

ASSUME SlaAssumption ==
  /\ HostOf \in [Source -> Host \cup {Bad}] /\ KindOf \in [Source -> Kind]
  /\ Bad \notin Host /\ {Exporter, "arbiter", OwnStore} \cap (Host \cup {Bad}) = {}
  /\ None \notin Sla /\ MayFail \in BOOLEAN
  /\ Sla \subseteq [type : {"app", "driver", "other"}, sources : SUBSET Source,
                    exports : SUBSET Host, externals : SUBSET (Host \cup {Bad}),
                    store : BOOLEAN]

VARIABLES
  pc,       \* of LaunchFromSLA
  sla,      \* its parameter
  save,     \* its other parameter
  todo,     \* what is left of the list it walks through
  env,      \* the datasources in the environment of the service it builds
  peers,    \* hosts the component is connected to
  granted,  \* permissions the arbiter gave it; it takes none back
  running,  \* the SLA and environment of its service
  saved,    \* its SLA in the store
  spoilt    \* history: has a call failed in the launch of what runs, or since?

locals == <<sla, save>>
remote == <<peers, granted, spoilt>>
vars   == <<pc, locals, todo, env, remote, running, saved>>

Method == {"GET", "POST", "DELETE"}
Area == {"data", "request", "response", "export", "all"}
Permission ==
  [target : Host \cup {OwnStore, Exporter}, area : Area,
   about : Source \cup Host \cup {None}, method : Method]

TypeOK ==
  /\ pc \in {"idle", "down", "config", "connect", "exports", "externals", "sources",
             "create", "save"}
  /\ sla \in Sla \cup {None} /\ save \in BOOLEAN
  /\ (pc \in {"idle", "down"}) = (sla = None)
  /\ todo \subseteq Host \cup {Bad} \cup Source
  /\ env \subseteq Source
  /\ peers \subseteq Host \cup {Exporter, "arbiter"}
  /\ granted \subseteq Permission
  /\ running \in [sla : Sla, env : SUBSET Source] \cup {None}
  /\ saved \in Sla \cup {None}
  /\ spoilt \in BOOLEAN

-----------------------------------------------------------------------------
At(l) == pc = l
Goto(l) == pc' = l
Hosts(sources) == {HostOf[d] : d \in sources}

\* Mutant: what the component had been granted is taken back first.
LaunchAfresh(s, keep) ==
  /\ Goto("config") /\ sla' = s /\ save' = keep
  /\ env' = {} /\ granted' = {}
  /\ spoilt' = (running # None /\ spoilt)
  /\ UNCHANGED <<todo, peers, running, saved>>

\* LaunchFromSLA(s, keep): the arbiter and the core-network know what they were
\* told by earlier launches.
Launch(s, keep) ==
  /\ Goto("config") /\ sla' = s /\ save' = keep
  /\ env' = {}
  /\ spoilt' = (running # None /\ spoilt)
  /\ UNCHANGED <<todo, peers, granted, running, saved>>

Returns == Goto("idle") /\ sla' = None /\ save' = FALSE /\ todo' = {} /\ env' = {}

\* A type that is neither app nor driver is refused.
Refuse ==
  /\ At("config") /\ sla.type = "other"
  /\ Returns
  /\ UNCHANGED <<remote, running, saved>>

\* getAppConfig tells an app of its datasources; getDriverConfig does not.
Environment(s) == IF s.type = "app" THEN s.sources ELSE {}

\* Mutant: the SLA is saved as soon as it is known.
ConfigureSaves ==
  /\ At("config") /\ sla.type # "other" /\ Bad \notin Hosts(Environment(sla))
  /\ env' = Environment(sla)
  /\ saved' = IF save /\ running = None THEN sla ELSE saved
  /\ Goto("connect")
  /\ UNCHANGED <<locals, todo, remote, running>>

Configure ==
  /\ At("config") /\ sla.type # "other" /\ Bad \notin Hosts(Environment(sla))
  /\ env' = Environment(sla)
  /\ Goto("connect")
  /\ UNCHANGED <<locals, todo, remote, running, saved>>

\* Mutant: the hosts of an app's datasources are not among them.
RequiredFixed(s) ==
  {"arbiter"} \cup (IF s.type = "app" THEN {Exporter} ELSE {})

\* Mutant: the type of the component does not matter.
RequiredAnyway(s) == {"arbiter", Exporter} \cup Hosts(s.sources)

\* The third result of getAppConfig and getDriverConfig.
RequiredNetworks(s) ==
  {"arbiter"} \cup (IF s.type = "app" THEN {Exporter} \cup Hosts(s.sources) ELSE {})

\* There is no image of this name, or no folder to mount.
NoImage ==
  /\ At("connect") /\ MayFail
  /\ Returns
  /\ UNCHANGED <<remote, running, saved>>

\* A launch over a component that runs cannot take anything from it.
Fails == MayFail /\ spoilt' = (spoilt \/ running = None)

ConnectTo(hosts) ==
  \/ peers' = peers \cup hosts /\ UNCHANGED spoilt
  \/ Fails /\ UNCHANGED peers

ConnectEndpoints ==
  /\ At("connect")
  /\ ConnectTo(RequiredNetworks(sla))
  /\ todo' = sla.exports
  /\ Goto("exports")
  /\ UNCHANGED <<locals, env, granted, running, saved>>

-----------------------------------------------------------------------------
(* addPermissionsFromSLA *)

Can(target, area, about, method) ==
  [target |-> target, area |-> area, about |-> about, method |-> method]

\* addPermission, for each of some permissions; a failure is logged.
AddPermissions(ps) ==
  \/ granted' = granted \cup ps /\ UNCHANGED spoilt
  \/ /\ Fails
     /\ \E lost \in SUBSET ps : lost # {} /\ granted' = granted \cup (ps \ lost)

\* /export and /lp/export, with a caveat that names the destination.
RightsToExport(h) == {Can(Exporter, "export", h, "POST")}

GrantExport(h) ==
  /\ At("exports") /\ h \in todo
  /\ AddPermissions(RightsToExport(h))
  /\ todo' = todo \ {h}
  /\ UNCHANGED <<pc, locals, env, peers, running, saved>>

ToExternals ==
  /\ At("exports") /\ todo = {}
  /\ todo' = IF sla.type = "driver" THEN sla.externals ELSE {}
  /\ Goto("externals")
  /\ UNCHANGED <<locals, env, remote, running, saved>>

ConnectExternal(h) ==
  /\ At("externals") /\ h \in todo /\ h # Bad
  /\ ConnectTo({h})
  /\ todo' = todo \ {h}
  /\ UNCHANGED <<pc, locals, env, granted, running, saved>>

ToSources ==
  /\ At("externals") /\ todo = {}
  /\ todo' = IF sla.type = "app" THEN sla.sources ELSE {}
  /\ Goto("sources")
  /\ UNCHANGED <<locals, env, remote, running, saved>>

\* Mutant: a function is called by writing to it, and nothing is read.
RightsToWrite(d) ==
  LET can(area, method) == Can(HostOf[d], area, d, method) IN
  CASE KindOf[d] = "actuator" -> {can("data", "POST"), can("data", "GET")}
    [] KindOf[d] = "func"     -> {can("request", "POST")}
    [] KindOf[d] = "sensor"   -> {can("data", "GET")}

\* The path of a datasource and all below it; of a function, that of requests and
\* that of responses.
RightsTo(d) ==
  LET can(area, method) == Can(HostOf[d], area, d, method) IN
  CASE KindOf[d] = "actuator" -> {can("data", "POST"), can("data", "GET")}
    [] KindOf[d] = "func"     -> {can("request", "POST"), can("response", "GET")}
    [] KindOf[d] = "sensor"   -> {can("data", "GET")}

GrantSource(d) ==
  /\ At("sources") /\ d \in todo
  /\ AddPermissions(RightsTo(d))
  /\ todo' = todo \ {d}
  /\ UNCHANGED <<pc, locals, env, peers, running, saved>>

\* The component's rights to its own store; the manager's to read its catalogue
\* are left out.
RightsToStore(s) ==
  IF s.store THEN {Can(OwnStore, "all", None, m) : m \in Method} ELSE {}

GrantOwnStore ==
  /\ At("sources") /\ todo = {}
  /\ AddPermissions(RightsToStore(sla))
  /\ Goto("create")
  /\ UNCHANGED <<locals, todo, env, peers, running, saved>>

-----------------------------------------------------------------------------
CreateService ==
  /\ At("create") /\ running = None
  /\ running' = [sla |-> sla, env |-> env]
  /\ Goto("save")
  /\ UNCHANGED <<locals, todo, env, remote, saved>>

\* There is a service of this name, or docker fails.
CreateRefused ==
  /\ At("create")
  /\ running # None \/ MayFail
  /\ Returns
  /\ UNCHANGED <<remote, running, saved>>

SaveSLA ==
  /\ At("save")
  /\ IF save THEN saved' = sla \/ (MayFail /\ UNCHANGED saved) ELSE UNCHANGED saved
  /\ Returns
  /\ UNCHANGED <<remote, running>>

\* Hostname() of a nil URL: by getAppConfig, and by addPermissionsFromSLA.
AtNilURL ==
  \/ At("config") /\ Bad \in Hosts(Environment(sla))
  \/ At("externals") /\ Bad \in todo

\* The next start removes the service, and the core-network and the arbiter are
\* new ones.
Die ==
  /\ Goto("down") /\ sla' = None /\ save' = FALSE /\ todo' = {} /\ env' = {}
  /\ peers' = {} /\ granted' = {} /\ running' = None /\ spoilt' = FALSE
  /\ UNCHANGED saved

Panic == AtNilURL /\ Die

Crash == ~At("down") /\ Die

-----------------------------------------------------------------------------
Install == At("idle") /\ \E s \in Sla : Launch(s, TRUE)

\* Each of the three calls may fail, and is not tried again; no permission is
\* revoked.
Uninstall ==
  /\ At("idle") /\ running # None
  /\ \/ running' = None /\ UNCHANGED spoilt
     \/ MayFail /\ spoilt' = TRUE /\ UNCHANGED running
  /\ peers' = {} \/ (MayFail /\ UNCHANGED peers)
  /\ saved' = None \/ (MayFail /\ UNCHANGED saved)
  /\ UNCHANGED <<pc, locals, todo, env, granted>>

\* reloadApps.
Reload ==
  /\ At("down")
  /\ IF saved = None
       THEN Goto("idle") /\ UNCHANGED <<locals, todo, env, remote, running, saved>>
       ELSE Launch(saved, FALSE)

Init ==
  /\ pc = "down" /\ sla = None /\ save = FALSE /\ todo = {} /\ env = {}
  /\ peers = {} /\ granted = {} /\ running = None /\ saved = None /\ spoilt = FALSE

LaunchFromSLA ==
  \/ Refuse \/ Configure \/ NoImage \/ ConnectEndpoints
  \/ \E h \in Host \cup {Bad} : GrantExport(h) \/ ConnectExternal(h)
  \/ ToExternals \/ ToSources
  \/ \E d \in Source : GrantSource(d)
  \/ GrantOwnStore \/ CreateService \/ CreateRefused \/ SaveSLA

Next == LaunchFromSLA \/ Panic \/ Crash \/ Install \/ Uninstall \/ Reload

Spec == Init /\ [][Next]_vars

-----------------------------------------------------------------------------
(* Properties *)

May(d, method) ==
  \E p \in granted : p.target = HostOf[d] /\ p.about = d /\ p.method = method

\* Whatever datasource an app finds in its environment it is connected to, may
\* read, and may write to if and only if it is an actuator or a function: what
\* getAppConfig tells it, ConnectEndpoints and addPermissionsFromSLA allow, even
\* after attempts to install another SLA over it.
DatasourcesUsable ==
  running # None /\ ~spoilt =>
    \A d \in running.env :
      /\ HostOf[d] \in peers
      /\ May(d, "GET")
      /\ May(d, "POST") <=> KindOf[d] # "sensor"

\* An SLA whose URLs end the process does so before it is saved: reloadApps never
\* meets one, and the manager does not die at each start for ever.
ReloadSurvives == AtNilURL => save

ExportRights(s) == UNION {RightsToExport(h) : h \in s.exports}
SourceRights(s) == UNION {RightsTo(d) : d \in Environment(s)}
RightsOf(s) == ExportRights(s) \cup SourceRights(s) \cup RightsToStore(s)

\* What its own SLA asks for a component has been granted, all of it, and an app is
\* connected to whatever these rights are about but for its own store, with which it
\* shares a network: however many other SLAs were installed, refused or removed under
\* its name, whose rights it keeps, too.
SlaHonoured ==
  running # None /\ ~spoilt =>
    /\ RightsOf(running.sla) \subseteq granted
    /\ running.sla.type = "app" =>
         \A p \in RightsOf(running.sla) : p.target \in peers \cup {OwnStore}
=============================================================================
