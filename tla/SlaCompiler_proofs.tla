-------------------------- MODULE SlaCompiler_proofs --------------------------
(***************************************************************************)
(* Proofs that the properties of SlaCompiler hold for any SLAs, datasources *)
(* and URLs, and any sequence of installs, failures and deaths.             *)
(***************************************************************************)
EXTENDS SlaCompiler, TLAPS

-----------------------------------------------------------------------------
(* The invariant *)

Working == pc \notin {"idle", "down"}
Configured == Working /\ pc # "config"
Connected == Configured /\ pc # "connect"

\* An SLA whose launch meets no URL that cannot be parsed.
Sound(s) ==
  /\ Bad \notin Hosts(Environment(s))
  /\ s.type = "driver" => Bad \notin s.externals

\* What was saved has been launched before; so each launch that does not save is
\* one of a sound SLA.
SoundHeld ==
  /\ saved # None => Sound(saved)
  /\ Working /\ ~save => Sound(sla)
  /\ Configured => env = Environment(sla) /\ Bad \notin Hosts(Environment(sla))
  /\ At("exports") => todo \subseteq sla.exports
  /\ At("externals") => todo \subseteq sla.externals
  /\ At("externals") /\ sla.type # "driver" => todo = {}
  /\ At("sources") => todo \subseteq Environment(sla)
  /\ At("externals") /\ sla.type = "driver" /\ Bad \in sla.externals => Bad \in todo
  /\ pc \in {"sources", "create", "save"} => Sound(sla)

\* Rights to a datasource are those of its kind.
OnlyRights ==
  \A d \in Source : \A p \in granted :
    p.target = HostOf[d] /\ p.about = d => p \in RightsTo(d)

\* A launch connects first, then gives rights, one list after the other.
Granted(d) == RightsTo(d) \subseteq granted
Exported(h) == RightsToExport(h) \subseteq granted

LaunchHeld ==
  ~spoilt /\ running = None =>
    /\ Connected => RequiredNetworks(sla) \subseteq peers
    /\ At("exports") => \A h \in sla.exports \ todo : Exported(h)
    /\ pc \in {"externals", "sources", "create"} => \A h \in sla.exports : Exported(h)
    /\ At("sources") => \A d \in Environment(sla) \ todo : Granted(d)
    /\ At("create") => /\ \A d \in Environment(sla) : Granted(d)
                       /\ RightsToStore(sla) \subseteq granted

\* What was given to a component that runs stays.
RunningHeld ==
  running # None =>
    /\ running.env = Environment(running.sla)
    /\ ~spoilt => /\ RightsOf(running.sla) \subseteq granted
                  /\ RequiredNetworks(running.sla) \subseteq peers

SlaInv == TypeOK /\ SoundHeld /\ OnlyRights /\ LaunchHeld /\ RunningHeld

-----------------------------------------------------------------------------
(* Operators *)

\* What SLAs are made of.
LEMMA SlaFields ==
  ASSUME NEW s \in Sla
  PROVE  /\ s.sources \subseteq Source /\ s.exports \subseteq Host
         /\ s.externals \subseteq Host \cup {Bad}
         /\ s # None /\ Environment(s) \subseteq Source
BY SlaAssumption DEF Environment

\* The rights to a datasource are permissions on its host, about it; there is one
\* to read, and one to write unless it is a sensor.
LEMMA RightsAre ==
  ASSUME NEW d \in Source
  PROVE  /\ \A p \in RightsTo(d) : p.target = HostOf[d] /\ p.about = d
         /\ \E p \in RightsTo(d) : p.method = "GET"
         /\ (\E p \in RightsTo(d) : p.method = "POST") <=> KindOf[d] # "sensor"
         /\ HostOf[d] # Bad => RightsTo(d) \subseteq Permission
<1>1. KindOf[d] \in Kind /\ HostOf[d] \in Host \cup {Bad}
  BY SlaAssumption
<1>2. CASE KindOf[d] = "actuator"
  <2>1. RightsTo(d) = {Can(HostOf[d], "data", d, "POST"), Can(HostOf[d], "data", d, "GET")}
    BY <1>2 DEF RightsTo
  <2>2. \A p \in RightsTo(d) : p.target = HostOf[d] /\ p.about = d
    BY <2>1 DEF Can
  <2>3. (\E p \in RightsTo(d) : p.method = "GET")
        /\ ((\E p \in RightsTo(d) : p.method = "POST") <=> KindOf[d] # "sensor")
    BY <2>1, <1>2 DEF Can
  <2>4. HostOf[d] # Bad => RightsTo(d) \subseteq Permission
    BY <2>1, <1>1 DEF Can, Permission, Area, Method
  <2> QED  BY <2>2, <2>3, <2>4
<1>3. CASE KindOf[d] = "func"
  <2>1. RightsTo(d) = {Can(HostOf[d], "request", d, "POST"), Can(HostOf[d], "response", d, "GET")}
    BY <1>3 DEF RightsTo
  <2>2. \A p \in RightsTo(d) : p.target = HostOf[d] /\ p.about = d
    BY <2>1 DEF Can
  <2>3. (\E p \in RightsTo(d) : p.method = "GET")
        /\ ((\E p \in RightsTo(d) : p.method = "POST") <=> KindOf[d] # "sensor")
    BY <2>1, <1>3 DEF Can
  <2>4. HostOf[d] # Bad => RightsTo(d) \subseteq Permission
    BY <2>1, <1>1 DEF Can, Permission, Area, Method
  <2> QED  BY <2>2, <2>3, <2>4
<1>4. CASE KindOf[d] = "sensor"
  <2>1. RightsTo(d) = {Can(HostOf[d], "data", d, "GET")}
    BY <1>4 DEF RightsTo
  <2>2. \A p \in RightsTo(d) : p.target = HostOf[d] /\ p.about = d
    BY <2>1 DEF Can
  <2>3. (\E p \in RightsTo(d) : p.method = "GET")
        /\ ((\E p \in RightsTo(d) : p.method = "POST") <=> KindOf[d] # "sensor")
    BY <2>1, <1>4 DEF Can
  <2>4. HostOf[d] # Bad => RightsTo(d) \subseteq Permission
    BY <2>1, <1>1 DEF Can, Permission, Area, Method
  <2> QED  BY <2>2, <2>3, <2>4
<1> QED  BY <1>1, <1>2, <1>3, <1>4 DEF Kind

\* What an SLA asks is asked by one of its lists.
LEMMA RightsOfAre ==
  ASSUME NEW s, NEW p
  PROVE  p \in RightsOf(s) <=>
           \/ \E h \in s.exports : p \in RightsToExport(h)
           \/ \E d \in Environment(s) : p \in RightsTo(d)
           \/ p \in RightsToStore(s)
<1>1. p \in ExportRights(s) <=> \E h \in s.exports : p \in RightsToExport(h)
  BY DEF ExportRights
<1>2. p \in SourceRights(s) <=> \E d \in Environment(s) : p \in RightsTo(d)
  BY DEF SourceRights
<1>3. p \in RightsOf(s) <=>
        p \in ExportRights(s) \/ p \in SourceRights(s) \/ p \in RightsToStore(s)
  BY DEF RightsOf
<1> QED  BY <1>1, <1>2, <1>3

\* addPermission adds permissions, all of them unless it fails.
LEMMA AddStep ==
  ASSUME NEW ps, AddPermissions(ps), TypeOK
  PROVE  /\ granted \subseteq granted' /\ granted' \subseteq granted \cup ps
         /\ spoilt' \in BOOLEAN
         /\ ~spoilt' => ~spoilt
         /\ ~spoilt' /\ running = None => granted' = granted \cup ps
BY DEF AddPermissions, Fails, TypeOK

\* The core-network adds the hosts, or fails.
LEMMA ConnectStep ==
  ASSUME NEW hosts, ConnectTo(hosts), TypeOK
  PROVE  /\ peers \subseteq peers' /\ peers' \subseteq peers \cup hosts
         /\ spoilt' \in BOOLEAN
         /\ ~spoilt' => ~spoilt
         /\ ~spoilt' /\ running = None => peers' = peers \cup hosts
BY DEF ConnectTo, Fails, TypeOK

-----------------------------------------------------------------------------
(* The parts of the invariant *)

\* A launch that begins keeps the types.
LEMMA LaunchTypes ==
  ASSUME TypeOK, NEW s \in Sla, NEW keep \in BOOLEAN, Launch(s, keep)
  PROVE  TypeOK'
<1>1. peers' \subseteq Host \cup {Exporter, "arbiter"} /\ granted' \subseteq Permission
      /\ spoilt' \in BOOLEAN
  BY DEF Launch, remote, TypeOK
<1>2. s # None
  BY SlaAssumption
<1> QED  BY <1>1, <1>2 DEF Launch, Goto, TypeOK

\* Each step keeps the types.
LEMMA SlaTypeNext ==
  ASSUME SlaInv, [Next]_vars
  PROVE  TypeOK'
<1>1. TypeOK
  BY DEF SlaInv
<1>2. None \notin Sla
  BY SlaAssumption
<1> USE <1>1, <1>2 DEF TypeOK, At, Goto, locals, remote
<1>3. CASE Refuse \/ NoImage
  BY <1>3 DEF Refuse, NoImage, Returns
<1>4. CASE Configure
  BY <1>4, SlaFields DEF Configure
<1>5. CASE ConnectEndpoints
  <2>1. sla \in Sla /\ Bad \notin Hosts(Environment(sla))
    BY <1>5 DEF SlaInv, SoundHeld, Configured, Working, ConnectEndpoints
  <2>2. Hosts(Environment(sla)) \subseteq Host
    BY <2>1, SlaFields, SlaAssumption DEF Hosts
  <2>3. RequiredNetworks(sla) \subseteq Host \cup {Exporter, "arbiter"}
    BY <2>2 DEF RequiredNetworks, Environment
  <2>4. peers' \subseteq peers \cup RequiredNetworks(sla) /\ spoilt' \in BOOLEAN
    BY <1>5, ConnectStep DEF ConnectEndpoints
  <2>5. todo' \subseteq Host
    BY <1>5, <2>1, SlaFields DEF ConnectEndpoints
  <2> QED  BY <1>5, <2>3, <2>4, <2>5 DEF ConnectEndpoints
<1>6. ASSUME NEW h \in Host \cup {Bad}, GrantExport(h)
      PROVE  TypeOK'
  <2>1. granted' \subseteq granted \cup RightsToExport(h) /\ spoilt' \in BOOLEAN
    BY <1>6, AddStep DEF GrantExport
  <2>2. RightsToExport(h) \subseteq Permission
    BY <1>6, SlaFields DEF RightsToExport, Can, Permission, Area, Method, GrantExport, SlaInv, SoundHeld
  <2> QED  BY <1>6, <2>1, <2>2 DEF GrantExport
<1>7. ASSUME NEW h \in Host \cup {Bad}, ConnectExternal(h)
      PROVE  TypeOK'
  <2>1. peers' \subseteq peers \cup {h} /\ spoilt' \in BOOLEAN
    BY <1>7, ConnectStep DEF ConnectExternal
  <2> QED  BY <1>7, <2>1 DEF ConnectExternal
<1>8. CASE ToExternals
  BY <1>8, SlaFields DEF ToExternals
<1>9. CASE ToSources
  BY <1>9, SlaFields DEF ToSources
<1>10. ASSUME NEW d \in Source, GrantSource(d)
       PROVE  TypeOK'
  <2>1. granted' \subseteq granted \cup RightsTo(d) /\ spoilt' \in BOOLEAN
    BY <1>10, AddStep DEF GrantSource
  <2>2. RightsTo(d) \subseteq Permission
    BY <1>10, RightsAre DEF GrantSource, SlaInv, SoundHeld, Hosts, Working, Configured
  <2> QED  BY <1>10, <2>1, <2>2 DEF GrantSource
<1>11. CASE GrantOwnStore
  <2>1. granted' \subseteq granted \cup RightsToStore(sla)
        /\ spoilt' \in BOOLEAN
    BY <1>11, AddStep DEF GrantOwnStore
  <2>2. RightsToStore(sla) \subseteq Permission
    BY DEF RightsToStore, Can, Permission, Area
  <2> QED  BY <1>11, <2>1, <2>2 DEF GrantOwnStore
<1>12. CASE CreateService
  BY <1>12 DEF CreateService
<1>13. CASE CreateRefused
  BY <1>13 DEF CreateRefused, Returns
<1>14. CASE SaveSLA
  BY <1>14 DEF SaveSLA, Returns
<1>15. CASE Panic
  BY <1>15 DEF Panic, Die
<1>16. CASE Crash
  BY <1>16 DEF Crash, Die
<1>17. CASE Install
  BY <1>17, LaunchTypes DEF Install, Launch
<1>18. CASE Uninstall
  BY <1>18 DEF Uninstall
<1>19. CASE Reload
  <2>1. CASE saved = None
    BY <1>19, <2>1 DEF Reload
  <2>2. CASE saved # None
    <3>1. saved \in Sla /\ Launch(saved, FALSE)
      BY <1>19, <2>2 DEF Reload
    <3>2. PICK s \in Sla : s = saved
      BY <3>1
    <3>3. Launch(s, FALSE)
      BY <3>1, <3>2 DEF Launch
    <3> QED  BY <3>3, LaunchTypes
  <2> QED  BY <2>1, <2>2
<1>20. CASE UNCHANGED vars
  BY <1>20 DEF vars
<1> QED
  BY <1>3, <1>4, <1>5, <1>6, <1>7, <1>8, <1>9, <1>10, <1>11, <1>12, <1>13, <1>14,
     <1>15, <1>16, <1>17, <1>18, <1>19, <1>20
     DEF Next, LaunchFromSLA

\* An SLA is saved by the launch that was the first to meet its URLs.
LEMMA SoundNext ==
  ASSUME SlaInv, [Next]_vars
  PROVE  SoundHeld'
<1>1. TypeOK
  BY DEF SlaInv
<1>2. SoundHeld
  BY DEF SlaInv
<1> USE <1>1, <1>2 DEF SoundHeld, Sound, Working, Configured, At, Goto, locals, remote
<1>3. CASE Refuse \/ NoImage
  BY <1>3 DEF Refuse, NoImage, Returns
<1>4. CASE Configure
  BY <1>4 DEF Configure
<1>5. CASE ConnectEndpoints
  BY <1>5 DEF ConnectEndpoints
<1>6. ASSUME NEW h \in Host \cup {Bad}, GrantExport(h)
      PROVE  SoundHeld'
  BY <1>6 DEF GrantExport
<1>7. ASSUME NEW h \in Host \cup {Bad}, ConnectExternal(h)
      PROVE  SoundHeld'
  BY <1>7 DEF ConnectExternal
<1>8. CASE ToExternals
  BY <1>8 DEF ToExternals
<1>9. CASE ToSources
  BY <1>9 DEF ToSources, Environment
<1>10. ASSUME NEW d \in Source, GrantSource(d)
       PROVE  SoundHeld'
  BY <1>10 DEF GrantSource
<1>11. CASE GrantOwnStore
  BY <1>11 DEF GrantOwnStore
<1>12. CASE CreateService
  BY <1>12 DEF CreateService
<1>13. CASE CreateRefused
  BY <1>13 DEF CreateRefused, Returns
<1>14. CASE SaveSLA
  BY <1>14 DEF SaveSLA, Returns
<1>15. CASE Panic
  BY <1>15 DEF Panic, Die
<1>16. CASE Crash
  BY <1>16 DEF Crash, Die
<1>17. CASE Install
  BY <1>17 DEF Install, Launch
<1>18. CASE Uninstall
  BY <1>18 DEF Uninstall
<1>19. CASE Reload
  BY <1>19 DEF Reload, Launch
<1>20. CASE UNCHANGED vars
  BY <1>20 DEF vars
<1> QED
  BY <1>3, <1>4, <1>5, <1>6, <1>7, <1>8, <1>9, <1>10, <1>11, <1>12, <1>13, <1>14,
     <1>15, <1>16, <1>17, <1>18, <1>19, <1>20
     DEF Next, LaunchFromSLA

\* Only GrantSource gives rights to a datasource.
LEMMA RightsNext ==
  ASSUME SlaInv, [Next]_vars
  PROVE  OnlyRights'
<1>1. TypeOK
  BY DEF SlaInv
<1>2. OnlyRights
  BY DEF SlaInv
<1>3. \A d \in Source : HostOf[d] # Exporter /\ HostOf[d] # OwnStore
  BY SlaAssumption
<1> USE <1>1, <1>2 DEF OnlyRights, locals, remote
<1>4. CASE Refuse \/ NoImage
  BY <1>4 DEF Refuse, NoImage, Returns
<1>5. CASE Configure
  BY <1>5 DEF Configure
<1>6. CASE ConnectEndpoints
  BY <1>6 DEF ConnectEndpoints
<1>7. ASSUME NEW h \in Host \cup {Bad}, GrantExport(h)
      PROVE  OnlyRights'
  <2>1. granted' \subseteq granted \cup RightsToExport(h)
    BY <1>7, AddStep DEF GrantExport
  <2> QED  BY <1>3, <2>1 DEF RightsToExport, RightsToStore, Can
<1>8. ASSUME NEW h \in Host \cup {Bad}, ConnectExternal(h)
      PROVE  OnlyRights'
  BY <1>8 DEF ConnectExternal
<1>9. CASE ToExternals
  BY <1>9 DEF ToExternals
<1>10. CASE ToSources
  BY <1>10 DEF ToSources
<1>11. ASSUME NEW d \in Source, GrantSource(d)
       PROVE  OnlyRights'
  <2>1. granted' \subseteq granted \cup RightsTo(d)
    BY <1>11, AddStep DEF GrantSource
  <2> QED  BY <2>1, RightsAre
<1>12. CASE GrantOwnStore
  <2>1. granted' \subseteq granted \cup RightsToStore(sla)
    BY <1>12, AddStep DEF GrantOwnStore
  <2> QED  BY <1>3, <2>1 DEF RightsToExport, RightsToStore, Can
<1>13. CASE CreateService
  BY <1>13 DEF CreateService
<1>14. CASE CreateRefused
  BY <1>14 DEF CreateRefused, Returns
<1>15. CASE SaveSLA
  BY <1>15 DEF SaveSLA, Returns
<1>16. CASE Panic
  BY <1>16 DEF Panic, Die
<1>17. CASE Crash
  BY <1>17 DEF Crash, Die
<1>18. CASE Install
  BY <1>18 DEF Install, Launch
<1>19. CASE Uninstall
  BY <1>19 DEF Uninstall
<1>20. CASE Reload
  BY <1>20 DEF Reload, Launch
<1>21. CASE UNCHANGED vars
  BY <1>21 DEF vars
<1> QED
  BY <1>4, <1>5, <1>6, <1>7, <1>8, <1>9, <1>10, <1>11, <1>12, <1>13, <1>14, <1>15,
     <1>16, <1>17, <1>18, <1>19, <1>20, <1>21
     DEF Next, LaunchFromSLA

\* A launch connects, then gives the rights to one datasource after the other.
LEMMA LaunchNext ==
  ASSUME SlaInv, [Next]_vars
  PROVE  LaunchHeld'
<1>1. TypeOK
  BY DEF SlaInv
<1>2. LaunchHeld /\ SoundHeld
  BY DEF SlaInv
<1> USE <1>1, <1>2 DEF LaunchHeld, Connected, Configured, Working, Granted, Exported, At, Goto,
                         locals
<1>3. CASE Refuse \/ NoImage
  BY <1>3 DEF Refuse, NoImage, Returns
<1>4. CASE Configure
  BY <1>4 DEF Configure
<1>5. CASE ConnectEndpoints
  <2>1. ~spoilt' /\ running = None => peers' = peers \cup RequiredNetworks(sla)
    BY <1>5, ConnectStep DEF ConnectEndpoints
  <2>2. pc' = "exports" /\ UNCHANGED <<sla, running>> /\ todo' = sla.exports
    BY <1>5 DEF ConnectEndpoints
  <2> QED  BY <2>1, <2>2
<1>6. ASSUME NEW h \in Host \cup {Bad}, GrantExport(h)
      PROVE  LaunchHeld'
  <2>1. granted \subseteq granted' /\ (~spoilt' => ~spoilt)
        /\ (~spoilt' /\ running = None => RightsToExport(h) \subseteq granted')
    BY <1>6, AddStep DEF GrantExport
  <2>2. /\ pc = "exports" /\ pc' = pc /\ todo' = todo \ {h}
        /\ UNCHANGED <<sla, running, peers>>
    BY <1>6 DEF GrantExport
  <2>3. ASSUME ~spoilt', running = None, NEW g \in sla.exports \ (todo \ {h})
        PROVE  Exported(g)'
    <3>1. CASE g = h
      BY <2>1, <2>3, <3>1 DEF Exported
    <3>2. CASE g # h
      <4>1. RightsToExport(g) \subseteq granted
        BY <2>1, <2>2, <2>3, <3>2 DEF Exported
      <4> QED  BY <4>1, <2>1 DEF Exported
    <3> QED  BY <3>1, <3>2
  <2> QED  BY <2>1, <2>2, <2>3
<1>7. ASSUME NEW h \in Host \cup {Bad}, ConnectExternal(h)
      PROVE  LaunchHeld'
  <2>1. peers \subseteq peers' /\ (~spoilt' => ~spoilt)
    BY <1>7, ConnectStep DEF ConnectExternal
  <2> QED  BY <1>7, <2>1 DEF ConnectExternal
<1>8. CASE ToExternals
  BY <1>8 DEF ToExternals, remote
<1>9. CASE ToSources
  BY <1>9 DEF ToSources, remote, Environment
<1>10. ASSUME NEW d \in Source, GrantSource(d)
       PROVE  LaunchHeld'
  <2>1. granted \subseteq granted' /\ (~spoilt' => ~spoilt)
        /\ (~spoilt' /\ running = None => RightsTo(d) \subseteq granted')
    BY <1>10, AddStep DEF GrantSource
  <2>2. /\ pc = "sources" /\ pc' = pc /\ todo' = todo \ {d}
        /\ UNCHANGED <<sla, running, peers>>
    BY <1>10 DEF GrantSource
  <2>3. ASSUME ~spoilt', running = None, NEW e \in Environment(sla) \ (todo \ {d})
        PROVE  Granted(e)'
    <3>1. CASE e = d
      BY <2>1, <2>3, <3>1
    <3>2. CASE e # d
      <4>1. RightsTo(e) \subseteq granted
        BY <2>1, <2>2, <2>3, <3>2
      <4> QED  BY <4>1, <2>1
    <3> QED  BY <3>1, <3>2
  <2>4. ASSUME ~spoilt', running = None, NEW h \in sla.exports
        PROVE  Exported(h)'
    <3>1. RightsToExport(h) \subseteq granted
      BY <2>1, <2>2, <2>4 DEF Exported
    <3> QED  BY <3>1, <2>1 DEF Exported
  <2> QED  BY <2>1, <2>2, <2>3, <2>4
<1>11. CASE GrantOwnStore
  <2>1. granted \subseteq granted' /\ (~spoilt' => ~spoilt)
        /\ (~spoilt' /\ running = None => RightsToStore(sla) \subseteq granted')
    BY <1>11, AddStep DEF GrantOwnStore
  <2>2. /\ pc = "sources" /\ pc' = "create" /\ todo = {}
        /\ UNCHANGED <<sla, running, peers>>
    BY <1>11 DEF GrantOwnStore
  <2>3. ASSUME ~spoilt', running = None, NEW d \in Environment(sla)
        PROVE  Granted(d)'
    <3>1. RightsTo(d) \subseteq granted
      BY <2>1, <2>2, <2>3
    <3> QED  BY <3>1, <2>1
  <2>4. ASSUME ~spoilt', running = None, NEW h \in sla.exports
        PROVE  Exported(h)'
    <3>1. RightsToExport(h) \subseteq granted
      BY <2>1, <2>2, <2>4 DEF Exported
    <3> QED  BY <3>1, <2>1 DEF Exported
  <2> QED  BY <2>1, <2>2, <2>3, <2>4
<1>12. CASE CreateService
  BY <1>12 DEF CreateService, remote
<1>13. CASE CreateRefused
  BY <1>13 DEF CreateRefused, Returns
<1>14. CASE SaveSLA
  BY <1>14 DEF SaveSLA, Returns
<1>15. CASE Panic
  BY <1>15 DEF Panic, Die
<1>16. CASE Crash
  BY <1>16 DEF Crash, Die
<1>17. CASE Install
  BY <1>17 DEF Install, Launch
<1>18. CASE Uninstall
  BY <1>18 DEF Uninstall
<1>19. CASE Reload
  <2>1. CASE saved = None
    BY <1>19, <2>1 DEF Reload, remote
  <2>2. CASE saved # None
    BY <1>19, <2>2 DEF Reload, Launch
  <2> QED  BY <2>1, <2>2
<1>20. CASE UNCHANGED vars
  BY <1>20 DEF vars, remote
<1> QED
  BY <1>3, <1>4, <1>5, <1>6, <1>7, <1>8, <1>9, <1>10, <1>11, <1>12, <1>13, <1>14,
     <1>15, <1>16, <1>17, <1>18, <1>19, <1>20
     DEF Next, LaunchFromSLA

\* What is given is not taken back while the component runs.
LEMMA RunningNext ==
  ASSUME SlaInv, [Next]_vars
  PROVE  RunningHeld'
<1>1. TypeOK
  BY DEF SlaInv
<1>2. RunningHeld /\ LaunchHeld /\ SoundHeld
  BY DEF SlaInv
<1> USE <1>1, <1>2 DEF RunningHeld, Granted, At, Goto, locals, remote
<1>3. CASE Refuse \/ NoImage
  BY <1>3 DEF Refuse, NoImage, Returns
<1>4. CASE Configure
  BY <1>4 DEF Configure
<1>5. CASE ConnectEndpoints
  <2>1. peers \subseteq peers' /\ (~spoilt' => ~spoilt)
    BY <1>5, ConnectStep DEF ConnectEndpoints
  <2> QED  BY <1>5, <2>1 DEF ConnectEndpoints
<1>6. ASSUME NEW h \in Host \cup {Bad}, GrantExport(h)
      PROVE  RunningHeld'
  <2>1. granted \subseteq granted' /\ (~spoilt' => ~spoilt)
    BY <1>6, AddStep DEF GrantExport
  <2> QED  BY <1>6, <2>1 DEF GrantExport
<1>7. ASSUME NEW h \in Host \cup {Bad}, ConnectExternal(h)
      PROVE  RunningHeld'
  <2>1. peers \subseteq peers' /\ (~spoilt' => ~spoilt)
    BY <1>7, ConnectStep DEF ConnectExternal
  <2> QED  BY <1>7, <2>1 DEF ConnectExternal
<1>8. CASE ToExternals
  BY <1>8 DEF ToExternals
<1>9. CASE ToSources
  BY <1>9 DEF ToSources
<1>10. ASSUME NEW d \in Source, GrantSource(d)
       PROVE  RunningHeld'
  <2>1. granted \subseteq granted' /\ (~spoilt' => ~spoilt)
    BY <1>10, AddStep DEF GrantSource
  <2> QED  BY <1>10, <2>1 DEF GrantSource
<1>11. CASE GrantOwnStore
  <2>1. granted \subseteq granted' /\ (~spoilt' => ~spoilt)
    BY <1>11, AddStep DEF GrantOwnStore
  <2> QED  BY <1>11, <2>1 DEF GrantOwnStore
<1>12. CASE CreateService
  <2>1. env = Environment(sla) /\ running = None /\ pc = "create"
    BY <1>12 DEF CreateService, SoundHeld, Configured, Working
  <2>2. ~spoilt => RequiredNetworks(sla) \subseteq peers
    BY <2>1 DEF LaunchHeld, Connected, Configured, Working
  <2>3. ~spoilt => RightsOf(sla) \subseteq granted
    <3>1. SUFFICES ASSUME ~spoilt, NEW p \in RightsOf(sla)
                   PROVE  p \in granted
      OBVIOUS
    <3> QED  BY <2>1, <3>1, RightsOfAre DEF LaunchHeld, Exported
  <2>4. running'.env = env /\ running'.sla = sla /\ UNCHANGED remote
    BY <1>12 DEF CreateService
  <2> QED  BY <2>1, <2>2, <2>3, <2>4
<1>13. CASE CreateRefused
  BY <1>13 DEF CreateRefused, Returns
<1>14. CASE SaveSLA
  BY <1>14 DEF SaveSLA, Returns
<1>15. CASE Panic
  BY <1>15 DEF Panic, Die
<1>16. CASE Crash
  BY <1>16 DEF Crash, Die
<1>17. CASE Install
  BY <1>17 DEF Install, Launch
<1>18. CASE Uninstall
  BY <1>18 DEF Uninstall
<1>19. CASE Reload
  BY <1>19 DEF Reload, Launch
<1>20. CASE UNCHANGED vars
  BY <1>20 DEF vars
<1> QED
  BY <1>3, <1>4, <1>5, <1>6, <1>7, <1>8, <1>9, <1>10, <1>11, <1>12, <1>13, <1>14,
     <1>15, <1>16, <1>17, <1>18, <1>19, <1>20
     DEF Next, LaunchFromSLA

-----------------------------------------------------------------------------
(* The theorems *)

\* The first start finds nothing saved.
LEMMA SlaInit == Init => SlaInv
BY DEF Init, SlaInv, TypeOK, SoundHeld, OnlyRights, LaunchHeld, RunningHeld,
       Working, Configured, Connected, At

\* The invariant holds in every reachable state.
LEMMA SlaInvariant == Spec => []SlaInv
<1>1. SlaInv /\ [Next]_vars => SlaInv'
  BY SlaTypeNext, SoundNext, RightsNext, LaunchNext, RunningNext DEF SlaInv
<1> QED  BY <1>1, SlaInit, PTL DEF Spec

\* The variables of the compiler keep their types (TypeOK); so no permission is
\* given on the host of a URL that could not be parsed.
THEOREM SlaTypeCorrect == Spec => []TypeOK
<1>1. SlaInv => TypeOK
  BY DEF SlaInv
<1> QED  BY <1>1, SlaInvariant, PTL

\* reloadApps never launches an SLA that ends the process (ReloadSurvives): of
\* LaunchFromSLA, which saves last.
THEOREM ReloadsSurvive == Spec => []ReloadSurvives
<1>1. ASSUME SlaInv, AtNilURL, ~save
      PROVE  FALSE
  <2>1. Working /\ Sound(sla)
    BY <1>1 DEF AtNilURL, SlaInv, SoundHeld, Working, At
  <2>2. At("externals") /\ Bad \in todo
    BY <1>1, <2>1 DEF AtNilURL, Sound
  <2> QED  BY <1>1, <2>1, <2>2 DEF SlaInv, SoundHeld, Sound
<1>2. SlaInv => ReloadSurvives
  BY <1>1 DEF ReloadSurvives
<1> QED  BY <1>2, SlaInvariant, PTL

\* An app can use each datasource of its environment as its kind allows, and no
\* further (DatasourcesUsable): of getAppConfig, ConnectEndpoints and
\* addPermissionsFromSLA, which read the same list at different times.
THEOREM DatasourcesAreUsable == Spec => []DatasourcesUsable
<1>1. ASSUME SlaInv, running # None, ~spoilt, NEW d \in running.env
      PROVE  /\ HostOf[d] \in peers /\ May(d, "GET")
             /\ May(d, "POST") <=> KindOf[d] # "sensor"
  <2>1. d \in Source /\ d \in Environment(running.sla)
    BY <1>1 DEF SlaInv, TypeOK, RunningHeld
  <2>2. HostOf[d] \in peers
    BY <1>1, <2>1 DEF SlaInv, RunningHeld, Environment, RequiredNetworks, Hosts
  <2>3. RightsTo(d) \subseteq granted
    BY <1>1, <2>1, RightsOfAre DEF SlaInv, RunningHeld
  <2>4. \A p \in granted : p.target = HostOf[d] /\ p.about = d <=> p \in RightsTo(d)
    BY <1>1, <2>1, <2>3, RightsAre DEF SlaInv, OnlyRights
  <2> QED  BY <2>2, <2>3, <2>4, <2>1, RightsAre DEF May
<1>2. SlaInv => DatasourcesUsable
  BY <1>1 DEF DatasourcesUsable
<1> QED  BY <1>2, SlaInvariant, PTL

\* What the SLA of a component asks it was granted, and an app is connected to it
\* (SlaHonoured): of the networks getAppConfig asks for and of all the lists that
\* addPermissionsFromSLA walks, whatever other launches were refused or forgotten.
THEOREM SlasHonoured == Spec => []SlaHonoured
<1>1. ASSUME SlaInv, running # None, ~spoilt, running.sla.type = "app",
             NEW p \in RightsOf(running.sla)
      PROVE  p.target \in peers \cup {OwnStore}
  <2>1. running.sla \in Sla /\ RequiredNetworks(running.sla) \subseteq peers
    BY <1>1 DEF SlaInv, TypeOK, RunningHeld
  <2>2. ASSUME NEW h \in running.sla.exports, p \in RightsToExport(h)
        PROVE  p.target \in peers
    BY <1>1, <2>1, <2>2 DEF RightsToExport, Can, RequiredNetworks
  <2>3. ASSUME NEW d \in Environment(running.sla), p \in RightsTo(d)
        PROVE  p.target \in peers
    <3>1. d \in Source /\ HostOf[d] \in peers
      BY <1>1, <2>1, SlaFields DEF Environment, RequiredNetworks, Hosts
    <3> QED  BY <2>3, <3>1, RightsAre
  <2>4. ASSUME p \in RightsToStore(running.sla)
        PROVE  p.target = OwnStore
    BY <2>4 DEF RightsToStore, Can
  <2> QED  BY <1>1, <2>2, <2>3, <2>4, RightsOfAre
<1>2. SlaInv => SlaHonoured
  BY <1>1 DEF SlaInv, RunningHeld, SlaHonoured
<1> QED  BY <1>2, SlaInvariant, PTL
=============================================================================
