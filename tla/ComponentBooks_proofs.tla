------------------------ MODULE ComponentBooks_proofs ------------------------
(***************************************************************************)
(* Proofs that tokens, stores, networks and saved SLAs fit what runs, of    *)
(* every component for which no call failed and on which no two jobs met:   *)
(* the layers of IInv that rest on SoloInv.  And that what docker, the saved *)
(* SLAs and InstalledComponents say of a component changes in the order of  *)
(* ComponentRegistry, whatever the goroutines in between do.                *)
(***************************************************************************)
EXTENDS ComponentSafety_proofs, ComponentRefinement

-----------------------------------------------------------------------------
(* Tokens *)

\* A secret goes only when no service uses it, and a service comes only with
\* the secret its job made.
LEMMA SecretsJob ==
  ASSUME Named, SecretsHeld, NEW j \in Job, Launch(j) \/ Uninstall(j)
  PROVE  SecretsHeld'
<1>1. TypeOK /\ j \in Job /\ Nobody \notin Job
  BY NamesAssumption DEF Named
<1> USE DEF TypeOK, SecretsHeld, Running, swarm
<1>2. CASE GenorateSecrets(j)
  BY <1>1, <1>2 DEF GenorateSecrets, RemoveSecret, CreateSecret, RegisterComponent
<1>3. CASE CreateStore(j) \/ CreateService(j)
  BY <1>1, <1>3 DEF CreateStore, CreateService, CanCreate
<1>4. CASE RemoveService(j)
  BY <1>1, <1>4 DEF RemoveService
<1>5. CASE DropSecrets(j)
  BY <1>1, <1>5 DEF DropSecrets
<1>6. CASE Launch(j) /\ ~(GenorateSecrets(j) \/ CreateStore(j) \/ CreateService(j))
  <2>1. UNCHANGED <<service, secret>>
    BY <1>6 DEF Launch, PreConfig, CreateNetwork, AttachNetwork, Configure, ConnectEndpoints,
                CheckStore, AddPermissions, SaveSLA, TrackInstalled
  <2> QED  BY <2>1
<1>7. CASE Uninstall(j) /\ ~(RemoveService(j) \/ DropSecrets(j))
  <2>1. UNCHANGED <<service, secret>>
    BY <1>7, FindFrame
       DEF Uninstall, ListSecrets, DisconnectEndpoints, DeleteSLA, UntrackInstalled
  <2> QED  BY <2>1
<1> QED  BY <1>2, <1>3, <1>4, <1>5, <1>6, <1>7

\* Every step leaves every service with the token it was created with.
LEMMA SecretsNext ==
  ASSUME Named, SecretsHeld, [Next]_vars
  PROVE  SecretsHeld'
<1>1. CASE Boot
  BY <1>1 DEF Boot, SecretsHeld, Running
<1>2. CASE \/ ReloadDrivers \/ ReloadApps \/ FinishReload \/ Crash \/ Quiet \/ UNCHANGED vars
           \/ \E r \in Request, c \in Component :
                InstallCommand(r, c) \/ UninstallCommand(r, c)
           \/ \E j, k \in Job : ConcurrentMapWrites(j, k)
  <2>1. UNCHANGED <<service, secret>>
    BY <1>2 DEF ReloadDrivers, ReloadApps, FinishReload, Crash, Quiet, vars, InstallCommand,
                UninstallCommand, ConcurrentMapWrites, ProcessDies, swarm
  <2> QED  BY <2>1 DEF SecretsHeld, Running
<1>3. CASE \E j \in Job : Launch(j) \/ Uninstall(j)
  BY <1>3, SecretsJob
<1> QED  BY <1>1, <1>2, <1>3 DEF Next

-----------------------------------------------------------------------------
(* Name servers *)

\* A call detaches no network, hands out the address it was told, and is told
\* one only of an attached network.
LEMMA ResolversCall ==
  ASSUME Named, NEW j \in Job, Launch(j), NEW c \in Component, c = job[j].name
  PROVE  /\ \A d \in Component : net[d] = "attached" => net'[d] = "attached"
         /\ \A d \in resolver' : d \in resolver \/ (d = c /\ job[j].dns)
         /\ job'[j].pc # "done" /\ job'[j].dns => job[j].dns \/ net'[c] = "attached"
<1>1. TypeOK /\ job[j].pc \in LaunchPC
  BY LaunchWho DEF Named
<1> USE <1>1 DEF TypeOK, swarm
<1>2. CASE PreConfig(j)
  <2>1. UNCHANGED <<net, resolver>>
    BY <1>2 DEF PreConfig
  <2>2. CASE net[c] = "none"
    BY <1>2, <2>1, <2>2, GotoFields DEF PreConfig, PC, LaunchPC
  <2>3. CASE net[c] # "none"
    BY <1>2, <2>1, <2>3, PreConfigJob
  <2> QED  BY <2>2, <2>3
<1>3. CASE CreateNetwork(j)
  BY <1>3, GotoFields DEF CreateNetwork, PC, LaunchPC
<1>4. CASE AttachNetwork(j)
  <2>1. resolver' = resolver /\ net' \in {net, [net EXCEPT ![c] = "attached"]}
    BY <1>4 DEF AttachNetwork
  <2>2. net'[c] = "attached" \/ job'[j].dns = job[j].dns
    BY <1>4, GotoFields DEF AttachNetwork, PC, LaunchPC
  <2> QED  BY <2>1, <2>2
<1>5. CASE Configure(j)
  BY <1>5, GotoFields, ReturnFields DEF Configure, PC, LaunchPC
<1>6. CASE GenorateSecrets(j)
  BY <1>6, GotoFields
     DEF GenorateSecrets, RemoveSecret, CreateSecret, RegisterComponent, PC, LaunchPC
<1>7. CASE ConnectEndpoints(j) \/ CheckStore(j)
  BY <1>7, GotoFields DEF ConnectEndpoints, CheckStore, PC, LaunchPC
<1>8. CASE CreateStore(j) \/ AddPermissions(j)
  BY <1>8, GotoFields DEF CreateStore, AddPermissions, PC, LaunchPC
<1>9. CASE CreateService(j)
  <2>1. /\ net' = net
        /\ resolver' \in {resolver, resolver \ {c}} \/ (job[j].dns /\ resolver' = resolver \cup {c})
    BY <1>9 DEF CreateService
  <2>2. job'[j].pc = "done" \/ job'[j].dns = job[j].dns
    BY <1>9, GotoFields, ReturnFields DEF CreateService, Saves, PC, LaunchPC
  <2> QED  BY <2>1, <2>2
<1>10. CASE SaveSLA(j) \/ TrackInstalled(j)
  BY <1>10, GotoFields, ReturnFields DEF SaveSLA, TrackInstalled, PC, LaunchPC
<1> QED  BY <1>2, <1>3, <1>4, <1>5, <1>6, <1>7, <1>8, <1>9, <1>10 DEF Launch

\* Neither do the jobs take an address to another component.
LEMMA ResolversJob ==
  ASSUME Named, ResolversHeld, NEW j \in Job, Launch(j) \/ Uninstall(j)
  PROVE  ResolversHeld'
<1>1. /\ \A k \in Job \ {j} : job'[k] = job[k]
      /\ job[j].name \in Component /\ TypeOK
      /\ job'[j].pc = "done" \/ job'[j].name = job[j].name
  BY JobStep DEF Named
<1>2. \A k \in Job : job[k].pc \in LaunchPC => job[k].name \in Component
  BY DEF Named, JobsNamed, JobNamed, Active, LaunchPC
<1>3. CASE Launch(j)
  <2>1. job[j].pc \in LaunchPC
    BY <1>3, LaunchWho
  <2>2. /\ \A d \in Component : net[d] = "attached" => net'[d] = "attached"
        /\ \A d \in resolver' : d \in resolver \/ (d = job[j].name /\ job[j].dns)
        /\ job'[j].pc # "done" /\ job'[j].dns =>
             job[j].dns \/ net'[job[j].name] = "attached"
    BY <1>1, <1>3, ResolversCall
  <2>3. \A d \in resolver' : net'[d] = "attached"
    BY <1>1, <2>1, <2>2 DEF ResolversHeld, ResolverReachable, TypeOK
  <2>4. ASSUME NEW k \in Job, job'[k].pc \in LaunchPC, job'[k].dns
        PROVE  net'[job'[k].name] = "attached"
    <3>1. CASE k = j
      <4>1. job'[j].pc # "done"
        BY <2>4, <3>1 DEF LaunchPC
      <4> QED  BY <1>1, <2>1, <2>2, <2>4, <3>1, <4>1 DEF ResolversHeld
    <3>2. CASE k # j
      BY <1>1, <1>2, <2>2, <2>4, <3>2 DEF ResolversHeld
    <3> QED  BY <3>1, <3>2
  <2> QED  BY <2>3, <2>4 DEF ResolversHeld, ResolverReachable
<1>4. CASE Uninstall(j)
  <2>1. UNCHANGED <<net, resolver>>
    BY <1>4, FindFrame
       DEF Uninstall, RemoveService, ListSecrets, DropSecrets, DisconnectEndpoints, DeleteSLA,
           UntrackInstalled, swarm
  <2>2. job'[j].pc \notin LaunchPC
    BY <1>1, <1>4, UninstallJob DEF LaunchPC, UninstallPC
  <2> QED  BY <1>1, <2>1, <2>2 DEF ResolversHeld, ResolverReachable
<1> QED  BY <1>3, <1>4

\* Every step leaves every name server a component was given reachable.
LEMMA ResolversNext ==
  ASSUME Named, ResolversHeld, [Next]_vars
  PROVE  ResolversHeld'
<1>1. TypeOK
  BY DEF Named
<1>5. NoJob.dns = FALSE /\ \A l \in PC, c \in Component : Started(l, c).dns = FALSE
  BY DEF Started, NoJob
<1>6. "preconfig" \in PC /\ "find" \in PC /\ Builtin \subseteq Component
  BY NamesAssumption DEF PC, LaunchPC, UninstallPC
<1>2. CASE Boot
  <2>1. resolver' = {} /\ \A j \in Job : job'[j].dns = FALSE
    BY <1>2, <1>5, <1>6, BootJobs
  <2> QED  BY <2>1 DEF ResolversHeld, ResolverReachable
<1>3. CASE \/ ReloadDrivers \/ ReloadApps \/ FinishReload \/ Crash \/ Quiet \/ UNCHANGED vars
           \/ \E r \in Request, c \in Component :
                InstallCommand(r, c) \/ UninstallCommand(r, c)
           \/ \E j, k \in Job : ConcurrentMapWrites(j, k)
  <2>1. UNCHANGED <<net, resolver>>
    BY <1>3 DEF ReloadDrivers, ReloadApps, FinishReload, Crash, Quiet, vars, InstallCommand,
                UninstallCommand, ConcurrentMapWrites, ProcessDies, swarm
  <2>2. \A j \in Job : job'[j] = job[j] \/ ~job'[j].dns
    <3>1. CASE ReloadDrivers \/ ReloadApps
      <4>1. PICK some \in SUBSET Component :
              job' = [j \in Job |-> IF j \in some THEN Started("preconfig", j) ELSE job[j]]
        BY <1>1, <3>1 DEF ReloadDrivers, ReloadApps, Relaunch, TypeOK
      <4> QED  BY <1>5, <1>6, <4>1
    <3>2. CASE FinishReload \/ Quiet \/ UNCHANGED vars
      BY <3>2 DEF FinishReload, Quiet, vars
    <3>3. CASE Crash \/ \E j, k \in Job : ConcurrentMapWrites(j, k)
      BY <3>3 DEF Crash, ConcurrentMapWrites, ProcessDies, NoJob
    <3>4. ASSUME NEW r \in Request, NEW c \in Component,
                 InstallCommand(r, c) \/ UninstallCommand(r, c)
          PROVE  \A j \in Job : job'[j] = job[j] \/ ~job'[j].dns
      <4>1. \E l \in {"preconfig", "find"} : job' = [job EXCEPT ![r] = Started(l, c)]
        BY <3>4 DEF InstallCommand, UninstallCommand
      <4> QED  BY <1>1, <4>1 DEF TypeOK, Started, NoJob, Job
    <3> QED  BY <1>3, <3>1, <3>2, <3>3, <3>4
  <2> QED  BY <2>1, <2>2 DEF ResolversHeld, ResolverReachable
<1>4. CASE \E j \in Job : Launch(j) \/ Uninstall(j)
  BY <1>4, ResolversJob
<1> QED  BY <1>2, <1>3, <1>4 DEF Next

-----------------------------------------------------------------------------
(* Whole components, and what a launch has prepared *)

\* What the calls made for a component have left does not change while its
\* records and its jobs do not.
LEMMA PreparedFrame ==
  ASSUME Named, NEW d \in Component, Whole(d), Prepared(d), SameFor(d), JobsSameFor(d)
  PROVE  Whole(d)' /\ Prepared(d)'
<1>1. \A k \in Job : On(k, d)' => On(k, d) /\ job'[k] = job[k]
  BY DEF JobsSameFor, On, Active
<1>2. \A k \in Job : On(k, d) => On(k, d)' /\ job'[k] = job[k]
  BY DEF JobsSameFor, On, Active
<1>3. Whole(d)'
  BY DEF Whole, SameFor, Running
<1>4. net'[d] = "bare" => \E k \in Job : On(k, d)' /\ At(k, "netattach")'
  BY <1>2 DEF Prepared, SameFor, At
<1>5. ASSUME NEW k \in Job, On(k, d)'
      PROVE  Ready(k, d)'
  BY <1>1, <1>5 DEF Prepared, Ready, SameFor, Running, At
<1> QED  BY <1>3, <1>4, <1>5 DEF Prepared

\* A job that has just started on d, alone, has nothing prepared.
LEMMA PreparedStart ==
  ASSUME Named, NEW d \in Component, Whole(d), Prepared(d), SameFor(d),
         \A k \in Job : ~On(k, d),
         \A k \in Job : On(k, d)' => job'[k].pc \in {"preconfig", "find"}
  PROVE  Whole(d)' /\ Prepared(d)'
<1>1. Whole(d)'
  BY DEF Whole, SameFor, Running
<1>2. net'[d] # "bare"
  BY DEF Prepared, SameFor
<1>3. ASSUME NEW k \in Job, On(k, d)'
      PROVE  Ready(k, d)'
  <2>1. job'[k].pc \in {"preconfig", "find"}
    BY <1>3
  <2> QED  BY <2>1 DEF Ready, At, AfterConnect, AfterRegister, AfterNetwork, BuildPC, LaunchPC
<1> QED  BY <1>1, <1>2, <1>3 DEF Prepared

\* What a job that is alone with its component may rely on.
LEMMA Alone ==
  ASSUME Named, NEW j \in Job, Launch(j) \/ Uninstall(j), NEW c \in Component,
         c = job[j].name, Solo(c), Prepared(c)
  PROVE  /\ TypeOK /\ JobNamed(j) /\ c \in Name /\ StoreOf[c] \in Name /\ StoreOf[c] # c
         /\ Knows(j, c) /\ Ready(j, c)
         /\ net[c] = "bare" => At(j, "netattach")
         /\ Nobody \notin Job
<1>1. On(j, c) /\ TypeOK /\ JobNamed(j)
  BY JobStep DEF Named, JobsNamed, On
<1>2. Knows(j, c) /\ Ready(j, c) /\ \A k \in Job : On(k, c) => k = j
  BY <1>1 DEF Solo, Prepared
<1>3. net[c] = "bare" => At(j, "netattach")
  BY <1>2 DEF Prepared
<1> QED  BY <1>1, <1>2, <1>3, NamesAssumption DEF Name

\* A call of a launch that is alone with its component prepares the next one.
LEMMA PreparedOwnLaunch ==
  ASSUME Named, NEW j \in Job, Launch(j), NEW c \in Component, c = job[j].name,
         Solo(c), Whole(c), Prepared(c), c \notin failed'
  PROVE  /\ Whole(c)'
         /\ net'[c] = "bare" => At(j, "netattach")'
         /\ job'[j].pc # "done" => Ready(j, c)'
<1>1. /\ TypeOK /\ c \in Name /\ StoreOf[c] \in Name /\ StoreOf[c] # c
      /\ Knows(j, c) /\ Ready(j, c)
      /\ net[c] = "bare" => At(j, "netattach")
      /\ Nobody \notin Job
  BY Alone
<1> USE DEF TypeOK, swarm, peers, books, Running, At, FailFor, Knows, Ready, Whole
<1>2. CASE PreConfig(j)
  BY <1>1, <1>2, PreConfigJob
     DEF PreConfig, PC, AfterConnect, AfterRegister, AfterNetwork,
         BuildPC, BuiltPC, LaunchPC
<1>3. CASE CreateNetwork(j)
  BY <1>1, <1>3, GotoFields, ReturnFields
     DEF CreateNetwork, PC, AfterConnect, AfterRegister, AfterNetwork,
         BuildPC, BuiltPC, LaunchPC
<1>4. CASE AttachNetwork(j)
  BY <1>1, <1>4, AttachJob
     DEF AttachNetwork, PC, AfterConnect, AfterRegister, AfterNetwork,
         BuildPC, BuiltPC, LaunchPC
<1>5. CASE Configure(j)
  BY <1>1, <1>5, GotoFields, ReturnFields
     DEF Configure, PC, AfterConnect, AfterRegister, AfterNetwork,
         BuildPC, BuiltPC, LaunchPC
<1>6. CASE GenorateSecrets(j)
  BY <1>1, <1>6, GotoFields, ReturnFields
     DEF GenorateSecrets, RemoveSecret, CreateSecret, RegisterComponent, PC, AfterConnect, AfterRegister, AfterNetwork,
         BuildPC, BuiltPC, LaunchPC
<1>7. CASE ConnectEndpoints(j)
  BY <1>1, <1>7, GotoFields, ReturnFields
     DEF ConnectEndpoints, PC, AfterConnect, AfterRegister, AfterNetwork,
         BuildPC, BuiltPC, LaunchPC
<1>8. CASE CheckStore(j)
  BY <1>1, <1>8, GotoFields, ReturnFields
     DEF CheckStore, PC, AfterConnect, AfterRegister, AfterNetwork,
         BuildPC, BuiltPC, LaunchPC
<1>9. CASE CreateStore(j)
  <2>1. /\ service' = [service EXCEPT ![StoreOf[c]] = j] /\ CanCreate(j, StoreOf[c])
        /\ UNCHANGED <<net, resolver, arbiter, connected>>
    BY <1>1, <1>9 DEF CreateStore
  <2>2. job[j].pc = "storecreate" /\ job'[j].pc = "grant" /\ job'[j].dns = job[j].dns
    BY <1>1, <1>9, GotoFields DEF CreateStore, PC, LaunchPC
  <2>3. Whole(c)'
    BY <1>1, <2>1, <2>2
       DEF AfterConnect, AfterRegister, AfterNetwork, BuildPC, BuiltPC, LaunchPC
  <2>4. Ready(j, c)'
    BY <1>1, <2>1, <2>2, <2>3
       DEF AfterConnect, AfterRegister, AfterNetwork, BuildPC, BuiltPC, LaunchPC
  <2> QED  BY <1>1, <2>1, <2>2, <2>3, <2>4
<1>10. CASE AddPermissions(j)
  BY <1>1, <1>10, GotoFields, ReturnFields
     DEF AddPermissions, PC, AfterConnect, AfterRegister, AfterNetwork,
         BuildPC, BuiltPC, LaunchPC
<1>11. CASE CreateService(j)
  BY <1>1, <1>11, GotoFields, ReturnFields
     DEF CreateService, CanCreate, PC, AfterConnect, AfterRegister, AfterNetwork,
         BuildPC, BuiltPC, LaunchPC
<1>12. CASE SaveSLA(j)
  BY <1>1, <1>12, GotoFields, ReturnFields
     DEF SaveSLA, PC, AfterConnect, AfterRegister, AfterNetwork,
         BuildPC, BuiltPC, LaunchPC
<1>13. CASE TrackInstalled(j)
  BY <1>1, <1>13, GotoFields, ReturnFields
     DEF TrackInstalled, PC, AfterConnect, AfterRegister, AfterNetwork,
         BuildPC, BuiltPC, LaunchPC
<1> QED
  BY <1>2, <1>3, <1>4, <1>5, <1>6, <1>7, <1>8, <1>9, <1>10, <1>11, <1>12, <1>13 DEF Launch

\* A call of an uninstall that is alone with its component takes it apart from
\* the top.
LEMMA PreparedOwnUninstall ==
  ASSUME Named, NEW j \in Job, Uninstall(j), NEW c \in Component, c = job[j].name,
         Solo(c), Whole(c), Prepared(c), c \notin failed'
  PROVE  /\ Whole(c)'
         /\ net'[c] # "bare"
         /\ job'[j].pc \in UninstallPC \cup {"done"}
<1>1. /\ TypeOK /\ c \in Name /\ StoreOf[c] \in Name /\ StoreOf[c] # c
      /\ Knows(j, c) /\ JobNamed(j)
      /\ net[c] = "bare" => At(j, "netattach")
  BY Alone
<1>2. job'[j].pc \in UninstallPC \cup {"done"} /\ job[j].pc \in UninstallPC
  BY <1>1, UninstallJob, UninstallWho
<1> USE DEF TypeOK, swarm, peers, books, Running, At, FailFor, Knows, Whole, UninstallPC, GonePC
<1>3. CASE FindService(j)
  BY <1>1, <1>2, <1>3, FindFrame
<1>4. CASE RemoveService(j)
  BY <1>1, <1>2, <1>4 DEF RemoveService, JobNamed
<1>5. CASE ListSecrets(j)
  BY <1>1, <1>2, <1>5 DEF ListSecrets
<1>6. CASE DropSecrets(j)
  BY <1>1, <1>2, <1>6 DEF DropSecrets
<1>7. CASE DisconnectEndpoints(j)
  BY <1>1, <1>2, <1>7 DEF DisconnectEndpoints
<1>8. CASE DeleteSLA(j)
  BY <1>1, <1>2, <1>8 DEF DeleteSLA
<1>9. CASE UntrackInstalled(j)
  BY <1>1, <1>2, <1>9 DEF UntrackInstalled
<1> QED
  BY <1>3, <1>4, <1>5, <1>6, <1>7, <1>8, <1>9 DEF Uninstall

\* Both kinds of job, on their own component.
LEMMA PreparedOwnStep ==
  ASSUME Named, NEW j \in Job, Launch(j) \/ Uninstall(j), NEW c \in Component,
         c = job[j].name, Solo(c), Whole(c), Prepared(c), c \notin failed'
  PROVE  Whole(c)' /\ Prepared(c)'
<1>1. /\ \A k \in Job \ {j} : job'[k] = job[k]
      /\ On(j, c)
      /\ \/ job'[j].pc = "done"
         \/ job'[j].name = c /\ job'[j].pc \in LaunchPC \cup UninstallPC
  BY JobStep
<1>2. \A k \in Job : On(k, c)' => k = j
  BY <1>1 DEF Solo, On, Active
<1>3. job'[j].pc # "done" => On(j, c)'
  BY <1>1 DEF On, Active, LaunchPC, UninstallPC
<1>4. CASE Launch(j)
  <2>1. /\ Whole(c)'
        /\ net'[c] = "bare" => At(j, "netattach")'
        /\ job'[j].pc # "done" => Ready(j, c)'
    BY <1>4, PreparedOwnLaunch
  <2>2. At(j, "netattach")' => On(j, c)'
    BY <1>3 DEF At
  <2>3. \A k \in Job : On(k, c)' => Ready(k, c)'
    <3> SUFFICES ASSUME NEW k \in Job, On(k, c)'  PROVE Ready(k, c)'
      OBVIOUS
    <3>1. k = j /\ job'[j].pc # "done"
      BY <1>2 DEF On, Active
    <3> QED  BY <2>1, <3>1
  <2> QED  BY <2>1, <2>2, <2>3 DEF Prepared
<1>5. CASE Uninstall(j)
  <2>1. /\ Whole(c)'
        /\ net'[c] # "bare"
        /\ job'[j].pc \in UninstallPC \cup {"done"}
    BY <1>5, PreparedOwnUninstall
  <2>2. \A k \in Job : On(k, c)' => Ready(k, c)'
    BY <1>2, <2>1
       DEF Ready, At, AfterConnect, AfterRegister, AfterNetwork, BuildPC, LaunchPC, UninstallPC
  <2> QED  BY <2>1, <2>2 DEF Prepared
<1> QED  BY <1>4, <1>5

-----------------------------------------------------------------------------
(* Saved SLAs *)

Reloading == phase \in {"drivers", "apps", "ready"}

\* What a job that is alone with its component may rely on in the SLA store.
LEMMA SavedAlone ==
  ASSUME Named, NEW j \in Job, Launch(j) \/ Uninstall(j), NEW c \in Component,
         c = job[j].name, Solo(c), Saved(c)
  PROVE  /\ TypeOK /\ JobNamed(j) /\ c \in Name /\ Nobody \notin Job
         /\ Knows(j, c) /\ Keeps(j, c)
         /\ Running(c) /\ ~At(j, "save") => c \in sla \cup Builtin
         /\ c \in sla /\ Reloading =>
           Running(c) \/ j = c \/ (j \in Request /\ job[j].pc \in GonePC)
<1>1. On(j, c) /\ TypeOK /\ JobNamed(j)
  BY JobStep DEF Named, JobsNamed, On
<1>2. Knows(j, c) /\ Keeps(j, c) /\ ~Pending(c) /\ \A k \in Job : On(k, c) => k = j
  BY <1>1 DEF Solo, Saved
<1>3. Running(c) /\ ~At(j, "save") => c \in sla \cup Builtin
  BY <1>2 DEF Saved
<1>4. c \in sla /\ Reloading =>
        Running(c) \/ On(c, c) \/ (\E r \in Request : On(r, c) /\ job[r].pc \in GonePC)
  BY <1>2 DEF Saved, Reloading
<1>5. On(c, c) => j = c
  BY <1>2 DEF Job
<1>6. \A r \in Request : On(r, c) => r = j
  BY <1>2 DEF Job
<1> QED  BY <1>1, <1>2, <1>3, <1>4, <1>5, <1>6, NamesAssumption DEF Name

\* A launch that is alone with its component keeps its SLA in the store.
LEMMA SavedOwnLaunch ==
  ASSUME Named, NEW j \in Job, Launch(j), NEW c \in Component, c = job[j].name,
         Solo(c), Saved(c), c \notin failed'
  PROVE  /\ job'[j].pc # "done" => Keeps(j, c)'
         /\ Running(c)' /\ ~At(j, "save")' => c \in sla' \cup Builtin
         /\ c \in sla' /\ Reloading' => Running(c)' \/ (j = c /\ job'[j].pc # "done")
<1>1. /\ TypeOK /\ JobNamed(j) /\ c \in Name /\ Nobody \notin Job
      /\ Knows(j, c) /\ Keeps(j, c)
      /\ Running(c) /\ ~At(j, "save") => c \in sla \cup Builtin
      /\ c \in sla /\ Reloading =>
           Running(c) \/ j = c \/ (j \in Request /\ job[j].pc \in GonePC)
  BY SavedAlone
<1>2. job[j].pc \in LaunchPC /\ Reloading' = Reloading
  BY <1>1, LaunchJob DEF Reloading
<1> USE DEF TypeOK, swarm, peers, books, Running, At, FailFor, Knows, Keeps
<1>3. CASE PreConfig(j)
  BY <1>1, <1>2, <1>3, PreConfigJob
     DEF PreConfig, PC, BuildPC, BuiltPC, GonePC, LaunchPC, UninstallPC
<1>4. CASE CreateNetwork(j)
  BY <1>1, <1>2, <1>4, GotoFields, ReturnFields
     DEF CreateNetwork, PC, BuildPC, BuiltPC, GonePC, LaunchPC, UninstallPC
<1>5. CASE AttachNetwork(j)
  BY <1>1, <1>2, <1>5, AttachJob
     DEF AttachNetwork, PC, BuildPC, BuiltPC, GonePC, LaunchPC, UninstallPC
<1>6. CASE Configure(j)
  BY <1>1, <1>2, <1>6, GotoFields, ReturnFields
     DEF Configure, PC, BuildPC, BuiltPC, GonePC, LaunchPC, UninstallPC
<1>7. CASE GenorateSecrets(j)
  <2>1. /\ job[j].pc \in BuildPC /\ job'[j].pc \in BuildPC /\ job'[j].name = c
        /\ UNCHANGED <<service, sla>>
    BY <1>1, <1>7, GotoFields
       DEF GenorateSecrets, RemoveSecret, CreateSecret, RegisterComponent, PC, BuildPC, LaunchPC
  <2> QED  BY <1>1, <1>2, <2>1 DEF BuildPC, BuiltPC, GonePC, LaunchPC, UninstallPC
<1>8. CASE ConnectEndpoints(j)
  BY <1>1, <1>2, <1>8, GotoFields, ReturnFields
     DEF ConnectEndpoints, PC, BuildPC, BuiltPC, GonePC, LaunchPC, UninstallPC
<1>9. CASE CheckStore(j)
  BY <1>1, <1>2, <1>9, GotoFields, ReturnFields
     DEF CheckStore, PC, BuildPC, BuiltPC, GonePC, LaunchPC, UninstallPC
<1>10. CASE CreateStore(j)
  BY <1>1, <1>2, <1>10, GotoFields, ReturnFields, NamesAssumption
     DEF CreateStore, CanCreate, PC, BuildPC, BuiltPC, GonePC, LaunchPC, UninstallPC
<1>11. CASE AddPermissions(j)
  BY <1>1, <1>2, <1>11, GotoFields, ReturnFields
     DEF AddPermissions, PC, BuildPC, BuiltPC, GonePC, LaunchPC, UninstallPC
<1>12. CASE CreateService(j)
  BY <1>1, <1>2, <1>12, GotoFields, ReturnFields
     DEF CreateService, CanCreate, Saves, Job, PC, BuildPC, BuiltPC, GonePC, LaunchPC, UninstallPC
<1>13. CASE SaveSLA(j)
  BY <1>1, <1>2, <1>13, GotoFields, ReturnFields
     DEF SaveSLA, PC, BuildPC, BuiltPC, GonePC, LaunchPC, UninstallPC
<1>14. CASE TrackInstalled(j)
  BY <1>1, <1>2, <1>14, GotoFields, ReturnFields
     DEF TrackInstalled, PC, BuildPC, BuiltPC, GonePC, LaunchPC, UninstallPC
<1> QED
  BY <1>3, <1>4, <1>5, <1>6, <1>7, <1>8, <1>9, <1>10, <1>11, <1>12, <1>13, <1>14 DEF Launch

\* An uninstall that is alone with its component deletes its SLA.
LEMMA SavedOwnUninstall ==
  ASSUME Named, NEW j \in Job, Uninstall(j), NEW c \in Component, c = job[j].name,
         Solo(c), Saved(c), c \notin failed'
  PROVE  /\ job'[j].pc # "done" => Keeps(j, c)'
         /\ Running(c)' => c \in sla' \cup Builtin
         /\ c \in sla' /\ Reloading' =>
              Running(c)' \/ (j \in Request /\ job'[j].pc \in GonePC)
<1>1. /\ TypeOK /\ JobNamed(j) /\ c \in Name /\ Nobody \notin Job
      /\ Knows(j, c) /\ Keeps(j, c)
      /\ Running(c) /\ ~At(j, "save") => c \in sla \cup Builtin
      /\ c \in sla /\ Reloading =>
           Running(c) \/ j = c \/ (j \in Request /\ job[j].pc \in GonePC)
  BY SavedAlone
<1>2. /\ job'[j].pc \in UninstallPC \cup {"done"} /\ job[j].pc \in UninstallPC
      /\ j \in Request /\ j \notin Component
      /\ StoreOf[c] # c
  BY <1>1, UninstallJob, UninstallWho, NamesAssumption DEF JobNamed, Job, LaunchPC, UninstallPC
<1>3. Reloading' = Reloading
  BY <1>1, UninstallJob DEF Reloading
<1> USE DEF TypeOK, swarm, peers, books, Running, At, FailFor, Knows, Keeps
<1>4. CASE FindService(j)
  <2>1. UNCHANGED <<service, sla>> /\ At(j, "find")
    BY <1>4, FindFrame
  <2>2. job'[j].pc \in {"remove", "done"}
    <3>1. CASE Listed(c) = {}
      BY <1>1, <1>4, <3>1, ReturnFields DEF FindService
    <3>2. CASE Listed(c) # {}
      BY <1>1, <1>4, <3>2, FindJob
    <3> QED  BY <3>1, <3>2
  <2>3. c \in sla' /\ Reloading' => Running(c)'
    BY <1>1, <1>2, <1>3, <2>1 DEF GonePC, UninstallPC
  <2> QED  BY <1>1, <1>2, <2>1, <2>2, <2>3 DEF GonePC, UninstallPC
<1>5. CASE RemoveService(j)
  BY <1>1, <1>2, <1>3, <1>5, GotoFields, ReturnFields
     DEF RemoveService, JobNamed, PC, GonePC, UninstallPC
<1>6. CASE ListSecrets(j)
  <2>1. job'[j].pc = "dropsecrets" /\ UNCHANGED <<service, sla>>
    BY <1>1, <1>6 DEF ListSecrets, JobRecord
  <2> QED  BY <1>1, <1>2, <1>3, <1>6, <2>1 DEF ListSecrets, GonePC, UninstallPC
<1>7. CASE DropSecrets(j)
  BY <1>1, <1>2, <1>3, <1>7, GotoFields, ReturnFields
     DEF DropSecrets, PC, GonePC, UninstallPC
<1>8. CASE DisconnectEndpoints(j)
  BY <1>1, <1>2, <1>3, <1>8, GotoFields, ReturnFields
     DEF DisconnectEndpoints, PC, GonePC, UninstallPC
<1>9. CASE DeleteSLA(j)
  BY <1>1, <1>2, <1>3, <1>9, GotoFields, ReturnFields
     DEF DeleteSLA, PC, GonePC, UninstallPC
<1>10. CASE UntrackInstalled(j)
  BY <1>1, <1>2, <1>3, <1>10, GotoFields, ReturnFields
     DEF UntrackInstalled, PC, GonePC, UninstallPC
<1> QED
  BY <1>4, <1>5, <1>6, <1>7, <1>8, <1>9, <1>10 DEF Uninstall

\* Both kinds of job, on their own component.
LEMMA SavedOwnStep ==
  ASSUME Named, NEW j \in Job, Launch(j) \/ Uninstall(j), NEW c \in Component,
         c = job[j].name, Solo(c), Saved(c), c \notin failed'
  PROVE  Saved(c)'
<1>1. /\ \A k \in Job \ {j} : job'[k] = job[k]
      /\ UNCHANGED <<phase, reload>> /\ On(j, c)
      /\ \/ job'[j].pc = "done"
         \/ job'[j].name = c /\ job'[j].pc \in LaunchPC \cup UninstallPC
  BY JobStep
<1>2. \A k \in Job : On(k, c)' => k = j
  BY <1>1 DEF Solo, On, Active
<1>3. job'[j].pc # "done" => On(j, c)'
  BY <1>1 DEF On, Active, LaunchPC, UninstallPC
<1>4. ~Pending(c)'
  BY <1>1 DEF Solo, Pending
<1>5. /\ job'[j].pc # "done" => Keeps(j, c)'
      /\ Running(c)' /\ ~At(j, "save")' => c \in sla' \cup Builtin
      /\ c \in sla' /\ Reloading' =>
           \/ Running(c)'
           \/ j = c /\ job'[j].pc # "done"
           \/ j \in Request /\ job'[j].pc \in GonePC
  BY SavedOwnLaunch, SavedOwnUninstall
<1>6. \A k \in Job : On(k, c)' => Keeps(k, c)'
  <2> SUFFICES ASSUME NEW k \in Job, On(k, c)'  PROVE Keeps(k, c)'
    OBVIOUS
  <2>1. k = j /\ job'[j].pc # "done"
    BY <1>2 DEF On, Active
  <2> QED  BY <1>5, <2>1
<1>7. At(j, "save")' => On(j, c)'
  BY <1>3 DEF At
<1>8. c \in sla' /\ Reloading' =>
        \/ Running(c)' \/ On(c, c)'
        \/ \E r \in Request : On(r, c)' /\ job'[r].pc \in GonePC
  BY <1>3, <1>5 DEF GonePC, UninstallPC
<1> QED  BY <1>4, <1>5, <1>6, <1>7, <1>8 DEF Saved, Reloading

\* What the SLA store says of a component does not change while its records and
\* its jobs do not, and Start goes on.
LEMMA SavedFrame ==
  ASSUME Named, NEW d \in Component, Saved(d), SameFor(d), JobsSameFor(d),
         Pending(d) => Pending(d)', Reloading' => Reloading
  PROVE  Saved(d)'
<1>1. \A k \in Job : On(k, d)' => On(k, d) /\ job'[k] = job[k]
  BY DEF JobsSameFor, On, Active
<1>2. \A k \in Job : On(k, d) => On(k, d)' /\ job'[k] = job[k]
  BY DEF JobsSameFor, On, Active
<1>3. /\ Running(d)' <=> Running(d)
      /\ d \in sla' <=> d \in sla
      /\ Pending(d)' <=> Pending(d)
  BY DEF SameFor, JobsSameFor, Running
<1>4. ASSUME NEW k \in Job, On(k, d)'
      PROVE  Keeps(k, d)'
  BY <1>1, <1>3, <1>4 DEF Saved, Keeps, At
<1>5. Running(d)' /\ (\A k \in Job : On(k, d)' => ~At(k, "save")') => d \in sla' \cup Builtin
  BY <1>2, <1>3 DEF Saved, At
<1>6. d \in sla' /\ Reloading' =>
        \/ Running(d)' \/ Pending(d)' \/ On(d, d)'
        \/ \E r \in Request : On(r, d)' /\ job'[r].pc \in GonePC
  BY <1>2, <1>3 DEF Saved, Reloading, Job
<1> QED  BY <1>3, <1>4, <1>5, <1>6 DEF Saved, Reloading

-----------------------------------------------------------------------------
(* The invariant *)

Sound(c) == Whole(c) /\ (phase # "down" => Prepared(c) /\ Saved(c))

BooksInv ==
  /\ SoloInv /\ SecretsHeld /\ ResolversHeld
  /\ \A c \in Component \ (contended \cup failed) : Sound(c)

\* A call of any job keeps every component sound on which no two jobs met.
LEMMA SoundJob ==
  ASSUME BooksInv, NEW j \in Job, Launch(j) \/ Uninstall(j),
         NEW c \in Component, c \notin contended' \cup failed'
  PROVE  Sound(c)'
<1>1. /\ Named /\ job[j].name \in Component
      /\ UNCHANGED <<phase, reload>> /\ phase # "down" /\ c \notin contended
      /\ \A k \in Job \ {j} : job'[k] = job[k]
      /\ \/ job'[j].pc = "done"
         \/ job'[j].name = job[j].name
  BY JobStep DEF BooksInv, SoloInv
<1>2. failed \subseteq failed'
  BY <1>1, LaunchEffect, UninstallEffect DEF Name
<1>3. Solo(c) /\ Whole(c) /\ Prepared(c) /\ Saved(c)
  BY <1>1, <1>2 DEF BooksInv, SoloInv, Sound
<1>4. CASE c = job[j].name
  BY <1>1, <1>3, <1>4, PreparedOwnStep, SavedOwnStep DEF Sound
<1>5. CASE c # job[j].name
  <2>1. SameFor(c)
    BY <1>1, <1>5, LaunchFrame, UninstallFrame
  <2>2. ~On(j, c) /\ ~On(j, c)'
    BY <1>1, <1>5 DEF On, Active
  <2>3. JobsSameFor(c)
    BY <1>1, <2>2 DEF JobsSameFor, Pending
  <2>4. (Pending(c) => Pending(c)') /\ (Reloading' => Reloading)
    BY <1>1 DEF Pending, Reloading
  <2> QED  BY <1>1, <1>3, <2>1, <2>3, <2>4, PreparedFrame, SavedFrame DEF Sound
<1> QED  BY <1>4, <1>5

\* An API command keeps sound the components that nobody else works on.
LEMMA SoundCommand ==
  ASSUME BooksInv, NEW r \in Request, NEW d \in Component,
         InstallCommand(r, d) \/ UninstallCommand(r, d),
         NEW c \in Component, c \notin contended' \cup failed'
  PROVE  Sound(c)'
<1>1. /\ Named /\ TypeOK /\ r \in Job /\ r \notin Component
      /\ phase # "down" /\ c \notin contended \cup failed
      /\ UNCHANGED <<boot, swarm, peers, books, failed>> /\ ~Active(r)
  BY NamesAssumption
     DEF InstallCommand, UninstallCommand, BooksInv, SoloInv, Named, Job, At, Active
<1>2. PICK l \in {"preconfig", "find"} :
        /\ job' = [job EXCEPT ![r] = Started(l, d)]
        /\ l = "preconfig" => d \in contended' \/ (~Busy(d) /\ ~Running(d))
        /\ d \in contended' \/ ~Busy(d)
  BY DEF InstallCommand, UninstallCommand, Running
<1>3. /\ job'[r].name = d /\ job'[r].pc = l
      /\ \A k \in Job \ {r} : job'[k] = job[k]
  BY <1>1, <1>2 DEF TypeOK, Started, NoJob
<1>4. Solo(c) /\ Whole(c) /\ Prepared(c) /\ Saved(c)
  BY <1>1 DEF BooksInv, SoloInv, Sound
<1>5. SameFor(c) /\ (Pending(c)' <=> Pending(c)) /\ (Reloading' <=> Reloading) /\ phase' = phase
  BY <1>1 DEF SameFor, Pending, Reloading, boot, swarm, peers, books
<1>6. CASE c # d
  <2>1. ~On(r, c) /\ ~On(r, c)'
    BY <1>1, <1>3, <1>6 DEF On
  <2>2. JobsSameFor(c)
    BY <1>3, <1>5, <2>1 DEF JobsSameFor
  <2> QED  BY <1>1, <1>4, <1>5, <2>2, PreparedFrame, SavedFrame DEF Sound
<1>7. CASE c = d
  <2>1. ~Busy(c) /\ (l = "preconfig" => ~Running(c))
    BY <1>2, <1>7
  <2>2. \A k \in Job : ~On(k, c)
    BY <2>1 DEF Busy
  <2>3. \A k \in Job : On(k, c)' => k = r
    BY <1>3, <2>2 DEF On, Active
  <2>4. \A k \in Job : On(k, c)' => job'[k].pc \in {"preconfig", "find"}
    BY <1>3, <2>3 DEF On, Active
  <2>5. Whole(c)' /\ Prepared(c)'
    BY <1>1, <1>4, <1>5, <2>2, <2>4, PreparedStart
  <2>6. ~Pending(c)'
    BY <1>5, <2>1 DEF Busy
  <2>7. \A k \in Job : On(k, c)' => Keeps(k, c)'
    BY <1>1, <1>3, <2>3 DEF Keeps, At
  <2>8. Running(c)' => c \in sla' \cup Builtin
    BY <1>4, <1>5, <2>2 DEF Saved, SameFor, Running
  <2>9. c \in sla' /\ Reloading' => Running(c)'
    <3>1. \A k \in Request : ~On(k, c)
      BY <2>2 DEF Job
    <3>2. c \in sla /\ Reloading => Running(c)
      BY <1>4, <2>1, <2>2, <3>1 DEF Saved, Reloading, Busy, Job
    <3> QED  BY <1>5, <3>2 DEF SameFor, Running
  <2>10. Saved(c)'
    BY <2>6, <2>7, <2>8, <2>9 DEF Saved, Reloading
  <2> QED  BY <1>7, <2>5, <2>10 DEF Sound
<1> QED  BY <1>6, <1>7

\* Reading the saved SLAs and launching the drivers keeps components sound.
LEMMA SoundReloadDrivers ==
  ASSUME BooksInv, ReloadDrivers, NEW c \in Component, c \notin contended' \cup failed'
  PROVE  Sound(c)'
<1>1. /\ Named /\ TypeOK /\ c \notin contended \cup failed
      /\ UNCHANGED <<swarm, peers, books>>
      /\ phase = "serving" /\ phase' = "drivers"
      /\ reload' \subseteq sla /\ (c \in sla => c \in reload')
      /\ job' = [j \in Job |-> IF j \in reload' \cap Driver
                                 THEN Started("preconfig", j) ELSE job[j]]
      /\ c \in reload' => ~Busy(c) /\ ~Running(c)
  BY DEF ReloadDrivers, Relaunch, BooksInv, SoloInv, Named, Running
<1>2. Solo(c) /\ Whole(c) /\ Prepared(c) /\ Saved(c)
  BY <1>1 DEF BooksInv, SoloInv, Sound
<1>3. SameFor(c)
  BY <1>1 DEF SameFor, swarm, peers, books
<1>4. ~Pending(c) /\ (Pending(c)' <=> c \in reload' \ Driver)
  BY <1>1 DEF Pending
<1>5. \A j \in Component : On(j, c) => j = c
  BY <1>1 DEF On, Named, JobsNamed, JobNamed, Job
<1>6. \A j \in reload' : /\ j \in Component
                         /\ Started("preconfig", j).pc = "preconfig"
                         /\ Started("preconfig", j).name = j
  BY <1>1, StartedType DEF TypeOK, PC, LaunchPC
<1>7. CASE c \in reload'
  <2>1. ~Running(c) /\ \A j \in Job : ~On(j, c)
    BY <1>1, <1>7 DEF Busy
  <2>2. \A j \in Job : On(j, c)' => j = c /\ job'[j].pc = "preconfig"
    BY <1>1, <1>6, <2>1 DEF On, Active
  <2>3. Whole(c)' /\ Prepared(c)'
    BY <1>1, <1>2, <1>3, <2>1, <2>2, PreparedStart
  <2>4. c \in sla'
    BY <1>1, <1>7 DEF books
  <2>5. \A j \in Job : On(j, c)' => Keeps(j, c)'
    BY <2>2, <2>4 DEF Keeps, At
  <2>6. Pending(c)' \/ On(c, c)'
    BY <1>1, <1>4, <1>6, <1>7 DEF On, Active, Job
  <2>7. Saved(c)'
    BY <2>4, <2>5, <2>6 DEF Saved
  <2> QED  BY <2>3, <2>7 DEF Sound
<1>8. CASE c \notin reload'
  <2>1. \A j \in Job : j \in reload' \cap Driver => ~On(j, c) /\ ~On(j, c)'
    BY <1>1, <1>5, <1>6, <1>8 DEF On, Active
  <2>2. JobsSameFor(c)
    BY <1>1, <1>4, <1>8, <2>1 DEF JobsSameFor
  <2>3. Whole(c)' /\ Prepared(c)'
    BY <1>1, <1>2, <1>3, <2>2, PreparedFrame
  <2>4. c \notin sla'
    BY <1>1, <1>8 DEF books
  <2>5. \A k \in Job : On(k, c)' => On(k, c) /\ job'[k] = job[k]
    BY <2>2 DEF JobsSameFor, On, Active
  <2>6. \A k \in Job : On(k, c) => On(k, c)' /\ job'[k] = job[k]
    BY <2>2 DEF JobsSameFor, On, Active
  <2>7. \A k \in Job : On(k, c)' => Keeps(k, c)'
    BY <1>2, <1>3, <2>5 DEF Saved, Keeps, At, SameFor
  <2>8. Running(c)' /\ (\A k \in Job : On(k, c)' => ~At(k, "save")') => c \in sla' \cup Builtin
    BY <1>2, <1>3, <2>6 DEF Saved, At, Running, SameFor
  <2>9. Saved(c)'
    BY <1>4, <1>8, <2>4, <2>7, <2>8 DEF Saved
  <2> QED  BY <2>3, <2>9 DEF Sound
<1> QED  BY <1>7, <1>8

\* Launching the apps keeps components sound.
LEMMA SoundReloadApps ==
  ASSUME BooksInv, ReloadApps, NEW c \in Component, c \notin contended' \cup failed'
  PROVE  Sound(c)'
<1>1. /\ Named /\ TypeOK /\ c \notin contended \cup failed
      /\ UNCHANGED <<swarm, peers, books, reload>>
      /\ phase = "drivers" /\ phase' = "apps"
      /\ job' = [j \in Job |-> IF j \in reload \ Driver
                                 THEN Started("preconfig", j) ELSE job[j]]
  BY DEF ReloadApps, Relaunch, BooksInv, SoloInv, Named
<1>2. Solo(c) /\ Whole(c) /\ Prepared(c) /\ Saved(c)
  BY <1>1 DEF BooksInv, SoloInv, Sound
<1>3. SameFor(c)
  BY <1>1 DEF SameFor, swarm, peers, books
<1>4. ~Pending(c)' /\ (Pending(c) <=> c \in reload \ Driver)
  BY <1>1 DEF Pending
<1>5. \A j \in Component : On(j, c) => j = c
  BY <1>1 DEF On, Named, JobsNamed, JobNamed, Job
<1>6. \A j \in reload : /\ j \in Component
                        /\ Started("preconfig", j).pc = "preconfig"
                        /\ Started("preconfig", j).name = j
  BY <1>1, StartedType DEF TypeOK, PC, LaunchPC
<1>7. CASE c \in reload \ Driver
  <2>1. ~Running(c) /\ c \in sla /\ \A j \in Job : ~On(j, c)
    BY <1>2, <1>4, <1>7 DEF Solo, Saved
  <2>2. \A j \in Job : On(j, c)' => j = c /\ job'[j].pc = "preconfig"
    BY <1>1, <1>6, <2>1 DEF On, Active
  <2>3. Whole(c)' /\ Prepared(c)'
    BY <1>1, <1>2, <1>3, <2>1, <2>2, PreparedStart
  <2>4. c \in sla'
    BY <1>1, <2>1 DEF books
  <2>5. \A j \in Job : On(j, c)' => Keeps(j, c)'
    BY <2>2, <2>4 DEF Keeps, At
  <2>6. On(c, c)'
    BY <1>1, <1>6, <1>7 DEF On, Active, Job
  <2>7. Saved(c)'
    BY <2>4, <2>5, <2>6 DEF Saved
  <2> QED  BY <2>3, <2>7 DEF Sound
<1>8. CASE c \notin reload \ Driver
  <2>1. \A j \in Job : j \in reload \ Driver => ~On(j, c) /\ ~On(j, c)'
    BY <1>1, <1>5, <1>6, <1>8 DEF On, Active
  <2>2. JobsSameFor(c)
    BY <1>1, <1>4, <2>1 DEF JobsSameFor
  <2>3. (Pending(c) => Pending(c)') /\ (Reloading' => Reloading)
    BY <1>1, <1>4, <1>8 DEF Reloading
  <2> QED  BY <1>1, <1>2, <1>3, <2>2, <2>3, PreparedFrame, SavedFrame DEF Sound
<1> QED  BY <1>7, <1>8

\* A process that starts finds nothing of a component, or blames it.
LEMMA SoundBoot ==
  ASSUME BooksInv, Boot, NEW c \in Component, c \notin contended' \cup failed'
  PROVE  Sound(c)'
<1>1. TypeOK /\ c \in Name /\ StoreOf[c] \in Name
  BY NamesAssumption DEF BooksInv, SoloInv, Named, Name
<1>2. /\ net'[c] = "none" /\ ~Running(c)' /\ ~Running(StoreOf[c])'
      /\ phase' = "serving" /\ ~Pending(c)'
  BY <1>1 DEF Boot, Running, Pending
<1>3. \A j \in Job : On(j, c)' => j = c /\ job'[j].pc = "preconfig" /\ j \in Builtin
  <2>1. \A j \in Job : job'[j] = IF j \in Builtin THEN Started("preconfig", j) ELSE NoJob
    BY BootJobs
  <2>2. \A j \in Builtin : /\ Started("preconfig", j).pc = "preconfig"
                           /\ Started("preconfig", j).name = j
    BY NamesAssumption, StartedType DEF PC, LaunchPC
  <2>3. NoJob.pc = "idle"
    BY DEF NoJob
  <2> QED  BY <2>1, <2>2, <2>3 DEF On, Active
<1>4. Whole(c)'
  BY <1>2 DEF Whole
<1>5. Prepared(c)'
  BY <1>2, <1>3
     DEF Prepared, Ready, At, AfterConnect, AfterRegister, AfterNetwork, BuildPC, LaunchPC
<1>6. Saved(c)'
  BY <1>2, <1>3 DEF Saved, Keeps, At
<1> QED  BY <1>4, <1>5, <1>6 DEF Sound

\* Every step keeps what is claimed of tokens, endpoints and books.
LEMMA BooksNext ==
  ASSUME BooksInv, [Next]_vars
  PROVE  BooksInv'
<1>1. SoloInv' /\ SecretsHeld' /\ ResolversHeld'
  BY SoloNext, SecretsNext, ResolversNext DEF BooksInv, SoloInv
<1>2. SUFFICES ASSUME NEW c \in Component, c \notin contended' \cup failed'
               PROVE  Sound(c)'
  BY <1>1 DEF BooksInv
<1>3. CASE Boot
  BY <1>2, <1>3, SoundBoot
<1>4. CASE ReloadDrivers
  BY <1>2, <1>4, SoundReloadDrivers
<1>5. CASE ReloadApps
  BY <1>2, <1>5, SoundReloadApps
<1>6. CASE FinishReload \/ Quiet \/ UNCHANGED vars
  <2>1. /\ c \notin contended \cup failed /\ SameFor(c) /\ JobsSameFor(c) /\ Named
        /\ Pending(c) => Pending(c)'
        /\ Reloading' => Reloading
        /\ phase' # "down" => phase # "down"
    BY <1>2, <1>6
       DEF FinishReload, Quiet, vars, boot, swarm, peers, books, SameFor, JobsSameFor, Pending,
           Reloading, BooksInv, SoloInv
  <2>2. Sound(c)
    BY <2>1 DEF BooksInv
  <2>3. CASE phase' # "down"
    BY <2>1, <2>2, <2>3, PreparedFrame, SavedFrame DEF Sound
  <2>4. CASE phase' = "down"
    BY <2>1, <2>2, <2>4 DEF Sound, Whole, SameFor, Running
  <2> QED  BY <2>3, <2>4
<1>7. CASE Crash \/ \E j, k \in Job : ConcurrentMapWrites(j, k)
  <2>1. c \notin contended \cup failed /\ phase' = "down" /\ UNCHANGED <<swarm, peers>>
    BY <1>2, <1>7 DEF Crash, ConcurrentMapWrites, ProcessDies
  <2>2. Whole(c)
    BY <2>1 DEF BooksInv, Sound
  <2> QED  BY <2>1, <2>2 DEF Sound, Whole, Running, swarm, peers
<1>8. ASSUME NEW r \in Request, NEW d \in Component,
             InstallCommand(r, d) \/ UninstallCommand(r, d)
      PROVE  Sound(c)'
  BY <1>2, <1>8, SoundCommand
<1>9. ASSUME NEW j \in Job, Launch(j) \/ Uninstall(j)
      PROVE  Sound(c)'
  BY <1>2, <1>9, SoundJob
<1> QED
  BY <1>3, <1>4, <1>5, <1>6, <1>7, <1>8, <1>9 DEF Next

\* It holds before the first boot.
LEMMA BooksInit ==
  ASSUME Init
  PROVE  BooksInv
<1>1. Named
  BY NamedInit
<1>2. BootOK /\ SecretsHeld /\ ResolversHeld
  BY DEF Init, BootOK, SecretsHeld, ResolversHeld, ResolverReachable, NoJob, Running, Name
<1>3. \A c \in Component : Whole(c) /\ phase = "down"
  BY NamesAssumption DEF Init, Whole, Running, Name
<1> QED  BY <1>1, <1>2, <1>3 DEF BooksInv, SoloInv, Sound

\* IInv holds of every reachable state: it is inductive, and the properties
\* below are what it says of the states they are about.
THEOREM InvariantHolds == Spec => []IInv
<1>1. Init => PermInv /\ BooksInv
  <2>1. Init => Named /\ GrantsHeld /\ PermissionsBeforeRun
    BY NamedInit
       DEF Init, GrantsHeld, PermissionsBeforeRun, At, NoJob, Running, Name
  <2> QED  BY <2>1, BooksInit DEF PermInv
<1>2. PermInv /\ BooksInv /\ [Next]_vars => (PermInv /\ BooksInv)'
  BY PermNext, BooksNext
<1>3. PermInv /\ BooksInv => IInv
  BY DEF PermInv, BooksInv, SoloInv, Sound, Named, IInv
<1> QED  BY <1>1, <1>2, <1>3, PTL DEF Spec

\* A service holds the token of the launch that made it, and while nothing went
\* wrong with a component the arbiter knows that token, of it and of its store.
THEOREM TokensAgree == Spec => []TokenAgreement
<1>1. IInv => TokenAgreement
  BY DEF IInv, SecretsHeld, Whole, TokenAgreement, Undisturbed
<1> QED  BY <1>1, InvariantHolds, PTL

\* Whatever calls failed and whatever jobs met, no component is given a DNS server
\* on a network that the core-network is not attached to.
THEOREM ResolversReachable == Spec => []ResolverReachable
<1>1. IInv => ResolverReachable
  BY DEF IInv, ResolversHeld
<1> QED  BY <1>1, InvariantHolds, PTL

\* A component that runs has its store, its peers and its name server, while no
\* call failed for it and no two jobs met on it.
THEOREM NothingHalfBuilt == Spec => []NeverHalfBuilt
<1>1. IInv => NeverHalfBuilt
  BY DEF IInv, Whole, NeverHalfBuilt, Undisturbed
<1> QED  BY <1>1, InvariantHolds, PTL

\* Between jobs InstalledComponents lists only what runs, and unless a call failed
\* all of it, which is then saved or builtin: for a component on which no two jobs
\* met.
THEOREM BooksAgree == Spec => []BooksAgreeAtRest
<1>1. IInv => BooksAgreeAtRest
  <2> SUFFICES ASSUME IInv, NEW c \in Component \ contended, phase # "down", ~Busy(c)
               PROVE  /\ c \in installed => Running(c)
                      /\ Running(c) /\ c \notin failed =>
                           c \in installed /\ (c \in sla) # (c \in Builtin)
    BY DEF BooksAgreeAtRest
  <2>1. \A j \in Job : ~On(j, c)
    BY DEF Busy
  <2>2. Solo(c) /\ sla \cap Builtin = {} /\ (c \notin failed => Saved(c))
    BY DEF IInv, BootOK
  <2> QED  BY <2>1, <2>2 DEF Solo, Booked, Saved
<1> QED  BY <1>1, InvariantHolds, PTL

\* reloadApps launches every component that was saved: the drivers before the
\* apps, and all before it returns.
THEOREM SavedRun == Spec => []SavedComponentsRun
<1>1. IInv => SavedComponentsRun
  <2> SUFFICES ASSUME IInv, NEW c \in sla, Undisturbed(c),
                      \A r \in Request : job[r].name # c,
                      phase = "ready" \/ (phase = "apps" /\ c \in Driver)
               PROVE  Running(c)
    BY DEF SavedComponentsRun
  <2>1. c \in Component /\ TypeOK /\ JobsNamed /\ BootOK
    BY DEF IInv, TypeOK
  <2>2. Saved(c)
    BY <2>1 DEF IInv, Undisturbed
  <2>3. Running(c) \/ On(c, c)
    BY <2>2 DEF Saved, Pending, On
  <2>4. ~On(c, c)
    <3>1. SUFFICES ASSUME Active(c)  PROVE FALSE
      BY DEF On
    <3>2. c \in reload
      BY <2>1, <3>1 DEF JobsNamed, JobNamed, BootOK, Job
    <3> QED  BY <2>1, <3>1, <3>2 DEF BootOK
  <2> QED  BY <2>3, <2>4
<1> QED  BY <1>1, InvariantHolds, PTL

-----------------------------------------------------------------------------
(* The registry *)

Shown == {c \in Component : Running(c)}
Loose == failed \cup contended

\* What a call may do to the records of the component it works on, and when.
Effect(j, c) ==
  /\ failed' \in {failed, failed \cup {c}}
  /\ \/ service'[c] = service[c]
     \/ At(j, "create") /\ service'[c] # Nobody
     \/ At(j, "remove") /\ service'[c] = Nobody
  /\ \/ sla' = sla
     \/ At(j, "save") /\ sla' = sla \cup {c}
     \/ At(j, "forget") /\ sla' = sla \ {c}
  /\ \/ installed' = installed
     \/ At(j, "track") /\ installed' = installed \cup {c}
     \/ At(j, "untrack") /\ installed' = installed \ {c}

\* A call of a launch creates, saves or lists its component.
LEMMA EffectLaunch ==
  ASSUME Named, NEW j \in Job, Launch(j)
  PROVE  Effect(j, job[j].name)
<1>1. /\ TypeOK /\ job[j].name \in Component /\ job[j].name \in Name
      /\ StoreOf[job[j].name] # job[j].name /\ Nobody # j
  BY LaunchWho, NamesAssumption DEF Named, Name
<1> USE <1>1 DEF TypeOK, swarm, peers, books, FailFor, Effect
<1>2. CASE PreConfig(j) \/ CheckStore(j)
  BY <1>2 DEF PreConfig, CheckStore
<1>3. CASE CreateNetwork(j) \/ AttachNetwork(j) \/ Configure(j)
  BY <1>3 DEF CreateNetwork, AttachNetwork, Configure
<1>4. CASE GenorateSecrets(j)
  BY <1>4 DEF GenorateSecrets, RemoveSecret, CreateSecret, RegisterComponent
<1>5. CASE ConnectEndpoints(j) \/ AddPermissions(j)
  BY <1>5 DEF ConnectEndpoints, AddPermissions
<1>6. CASE CreateStore(j)
  BY <1>6 DEF CreateStore
<1>7. CASE CreateService(j)
  BY <1>7 DEF CreateService
<1>8. CASE SaveSLA(j)
  BY <1>8 DEF SaveSLA
<1>9. CASE TrackInstalled(j)
  BY <1>9 DEF TrackInstalled
<1> QED  BY <1>2, <1>3, <1>4, <1>5, <1>6, <1>7, <1>8, <1>9 DEF Launch

\* A call of an uninstall removes, forgets or no longer lists it.
LEMMA EffectUninstall ==
  ASSUME Named, NEW j \in Job, Uninstall(j)
  PROVE  Effect(j, job[j].name)
<1>1. /\ TypeOK /\ job[j].name \in Component /\ job[j].name \in Name /\ JobNamed(j)
      /\ StoreOf[job[j].name] # job[j].name
  BY UninstallWho, NamesAssumption DEF Named, Name
<1> USE <1>1 DEF TypeOK, swarm, peers, books, FailFor, Effect
<1>2. CASE FindService(j) \/ ListSecrets(j)
  BY <1>2 DEF FindService, ListSecrets
<1>3. CASE RemoveService(j)
  BY <1>3 DEF RemoveService, JobNamed
<1>4. CASE DropSecrets(j)
  BY <1>4 DEF DropSecrets
<1>5. CASE DisconnectEndpoints(j)
  BY <1>5 DEF DisconnectEndpoints
<1>6. CASE DeleteSLA(j)
  BY <1>6 DEF DeleteSLA
<1>7. CASE UntrackInstalled(j)
  BY <1>7 DEF UntrackInstalled
<1> QED  BY <1>2, <1>3, <1>4, <1>5, <1>6, <1>7 DEF Uninstall

\* An uninstall that is about to remove a service of another name.
Strays(j) == At(j, "remove") /\ job[j].victim # job[j].name

\* Any other call leaves what is shown of the other components.
LEMMA ShownFrame ==
  ASSUME Named, NEW j \in Job, Launch(j) \/ Uninstall(j), ~Strays(j)
  PROVE  /\ phase # "down" /\ phase' = phase /\ contended' = contended
         /\ job[j].name \in Component
         /\ service'[job[j].name] = Nobody => Shown' = Shown \ {job[j].name}
         /\ service'[job[j].name] # Nobody => Shown' = Shown \cup {job[j].name}
<1>1. /\ phase # "down" /\ phase' = phase
      /\ job[j].name \in Component /\ TypeOK
  BY JobStep DEF Named
<1>2. contended' = contended /\ \A d \in Component : d # job[j].name => service'[d] = service[d]
  <2>1. CASE Launch(j)
    BY <1>1, <2>1, LaunchJob, LaunchFrame DEF SameFor
  <2>2. CASE RemoveService(j)
    <3>1. job[j].victim = job[j].name
      BY <2>2 DEF RemoveService, Strays
    <3>2. Owners(job[j].name) \ {job[j].name} = {}
      BY <1>1, NamesAssumption DEF Owners
    <3>3. contended' \in {contended, contended \cup (Owners(job[j].name) \ {job[j].name})}
      BY <2>2, <3>1 DEF RemoveService
    <3>4. service' \in {service, [service EXCEPT ![job[j].name] = Nobody]}
      BY <2>2, <3>1 DEF RemoveService
    <3> QED  BY <1>1, <3>2, <3>3, <3>4 DEF TypeOK, Name
  <2>3. CASE Uninstall(j) /\ ~RemoveService(j)
    BY <2>3, FindFrame
       DEF Uninstall, ListSecrets, DropSecrets, DisconnectEndpoints, DeleteSLA,
           UntrackInstalled, swarm
  <2> QED  BY <2>1, <2>2, <2>3
<1> QED  BY <1>1, <1>2 DEF Shown, Running

\* A service of another name that is removed is one of which nothing is promised
\* from now on.
LEMMA StraySteps ==
  ASSUME IInv, IInv', NEW j \in Job, Launch(j) \/ Uninstall(j), Strays(j)
  PROVE  [Registry!Next]_(Registry!vars)
<1> DEFINE n == job[j].victim
<1>1. /\ Named /\ TypeOK /\ phase # "down" /\ phase' = phase
      /\ Loose' \subseteq Component /\ job[j].name \in Component
  BY JobStep DEF IInv, Named, TypeOK, Loose
<1>2. RemoveService(j)
  <2>1. ~Launch(j)
    BY LaunchWho, <1>1 DEF Strays, At, LaunchPC
  <2> QED  BY <2>1, FindFrame
           DEF Uninstall, ListSecrets, DropSecrets, DisconnectEndpoints, DeleteSLA,
               UntrackInstalled, Strays, At
<1>3. UNCHANGED <<sla, installed>> /\ Loose \subseteq Loose'
  BY <1>2 DEF RemoveService, books, Loose, FailFor
<1>4. CASE service' = service
  <2>1. Registry!Loosen
    BY <1>1, <1>3, <1>4 DEF Registry!Loosen, Loose, Running
  <2> QED  BY <2>1 DEF Registry!Next
<1>5. CASE /\ service' = [service EXCEPT ![n] = Nobody]
           /\ contended' = contended \cup (Owners(n) \ {job[j].name})
           /\ failed' = failed
  <2>1. CASE n \in Component
    <3>1. Owners(n) \ {job[j].name} = {n}
      BY <2>1, NamesAssumption DEF Owners, Strays
    <3>2. Shown' = Shown \ {n}
      BY <1>1, <1>5, <2>1 DEF Shown, Running, TypeOK, Name
    <3>3. Loose' = Loose \cup {n}
      BY <1>5, <3>1 DEF Loose
    <3>4. Registry!Stray(n)
      BY <1>1, <1>3, <3>2, <3>3 DEF Registry!Stray, Shown, Loose
    <3>5. \E c \in Component : Registry!Stray(c)
      BY <2>1, <3>4 DEF Registry!Stray
    <3> QED  BY <3>5 DEF Registry!Next
  <2>2. CASE n \notin Component
    <3>1. {c \in Component : Running(c)}' = {c \in Component : Running(c)}
      BY <1>1, <1>5, <2>2 DEF Running, TypeOK
    <3>2. Registry!Loosen
      BY <1>1, <1>3, <3>1 DEF Registry!Loosen, Loose
    <3> QED  BY <3>2 DEF Registry!Next
  <2> QED  BY <2>1, <2>2
<1> QED  BY <1>2, <1>4, <1>5 DEF RemoveService

\* A call for a component of which nothing is promised.
LEMMA CallStray ==
  ASSUME Named, NEW j \in Job, Launch(j) \/ Uninstall(j), ~Strays(j),
         job[j].name \in failed' \cup contended'
  PROVE  Registry!Stray(job[j].name)
<1>1. Effect(j, job[j].name)
  BY EffectLaunch, EffectUninstall
<1>2. /\ (phase # "down") /\ (phase' # "down") = (phase # "down")
      /\ Shown' \in {Shown \cup {job[j].name}, Shown \ {job[j].name}}
      /\ contended' = contended
  BY ShownFrame
<1>3. /\ Loose' \in {Loose, Loose \cup {job[j].name}} /\ job[j].name \in Loose'
      /\ sla' \in {sla \cup {job[j].name}, sla \ {job[j].name}}
      /\ installed' \in {installed \cup {job[j].name}, installed \ {job[j].name}}
  <2>1. failed' \in {failed, failed \cup {job[j].name}}
    BY <1>1 DEF Effect
  <2>2. sla' \in {sla, sla \cup {job[j].name}, sla \ {job[j].name}}
    BY <1>1 DEF Effect
  <2>3. installed' \in {installed, installed \cup {job[j].name}, installed \ {job[j].name}}
    BY <1>1 DEF Effect
  <2> QED  BY <1>2, <2>1, <2>2, <2>3 DEF Loose
<1> QED  BY <1>2, <1>3 DEF Registry!Stray, Shown, Loose

\* A call of a job that is alone with its component is one step of the registry,
\* or none that shows.
LEMMA CallSteps ==
  ASSUME IInv, NEW j \in Job, Launch(j) \/ Uninstall(j), ~Strays(j),
         job[j].name \notin failed' \cup contended'
  PROVE  [Registry!Next]_(Registry!vars)
<1> DEFINE c == job[j].name
<1>1. /\ Named /\ c \in Component /\ phase # "down" /\ phase' = phase
      /\ On(j, c) /\ contended' = contended
  BY JobStep, ShownFrame DEF IInv, Named
<1>2. /\ failed' = failed
      /\ \/ service'[c] = service[c]
         \/ At(j, "create") /\ service'[c] # Nobody
         \/ At(j, "remove") /\ service'[c] = Nobody
      /\ \/ sla' = sla
         \/ At(j, "save") /\ sla' = sla \cup {c}
         \/ At(j, "forget") /\ sla' = sla \ {c}
      /\ \/ installed' = installed
         \/ At(j, "track") /\ installed' = installed \cup {c}
         \/ At(j, "untrack") /\ installed' = installed \ {c}
  BY <1>1, EffectLaunch, EffectUninstall DEF Effect
<1>3. Solo(c) /\ Saved(c)
  BY <1>1, <1>2 DEF IInv
<1>4. Knows(j, c) /\ Keeps(j, c) /\ \A k \in Job : On(k, c) => k = j
  BY <1>1, <1>3 DEF Solo, Saved
<1>5. /\ service'[c] = Nobody => Shown' = Shown \ {c}
      /\ service'[c] # Nobody => Shown' = Shown \cup {c}
  BY <1>1, ShownFrame
<1>6. c \in Shown <=> service[c] # Nobody
  BY <1>1 DEF Shown, Running
<1>7. Loose' = Loose
  BY <1>1, <1>2 DEF Loose
<1>8. service'[c] = service[c] => Shown' = Shown
  BY <1>5, <1>6
<1>9. (phase' # "down") = (phase # "down")
  BY <1>1
<1> USE DEF Registry!Next, Registry!vars, Shown, Loose
<1>10. CASE At(j, "create")
  <2>1. sla' = sla /\ installed' = installed
    BY <1>2, <1>10 DEF At
  <2>2. c \notin Shown /\ c \notin installed
    BY <1>4, <1>10 DEF Knows, At, BuildPC, LaunchPC, Shown
  <2>3. CASE service'[c] = service[c]
    BY <2>1, <2>3, <1>7, <1>8, <1>9
  <2>4. CASE service'[c] # Nobody
    <3>1. Registry!Create(c)
      BY <2>1, <2>2, <2>4, <1>1, <1>5, <1>7, <1>9 DEF Registry!Create
    <3> QED  BY <3>1, <1>1
  <2> QED  BY <2>3, <2>4, <1>2, <1>10 DEF At
<1>11. CASE At(j, "remove")
  <2>1. sla' = sla /\ installed' = installed
    BY <1>2, <1>11 DEF At
  <2>2. CASE service'[c] = service[c]
    BY <2>1, <2>2, <1>7, <1>8, <1>9
  <2>3. CASE service'[c] = Nobody /\ c \in Shown
    <3>1. c \in installed
      BY <1>2, <1>4, <1>11, <2>3 DEF Knows, Booked, At, Shown, Running
    <3>2. c \in sla \cup Builtin
      BY <1>3, <1>4, <1>11, <2>3 DEF Saved, At, Shown
    <3>3. Registry!Remove(c)
      BY <2>1, <2>3, <3>1, <3>2, <1>1, <1>5, <1>7, <1>9 DEF Registry!Remove
    <3> QED  BY <3>3, <1>1
  <2> QED  BY <2>2, <2>3, <1>2, <1>6, <1>11 DEF At
<1>12. CASE At(j, "save")
  <2>1. service'[c] = service[c] /\ installed' = installed
    BY <1>2, <1>12 DEF At
  <2>2. c \in Shown /\ c \notin installed
    BY <1>1, <1>4, <1>12 DEF Knows, At, BuiltPC, Shown
  <2>3. CASE sla' = sla
    BY <2>1, <2>3, <1>7, <1>8, <1>9
  <2>4. CASE sla' = sla \cup {c}
    <3>1. JobNamed(j)
      BY <1>1 DEF Named, JobsNamed, On
    <3>2. c \notin Builtin
      BY <3>1, <1>12 DEF JobNamed, At, Job, LaunchPC
    <3>3. Registry!Save(c)
      BY <2>1, <2>2, <2>4, <3>2, <1>1, <1>7, <1>8, <1>9 DEF Registry!Save
    <3> QED  BY <3>3, <1>1
  <2> QED  BY <2>3, <2>4, <1>2, <1>12 DEF At
<1>13. CASE At(j, "track")
  <2>1. service'[c] = service[c] /\ sla' = sla
    BY <1>2, <1>13 DEF At
  <2>2. c \in Shown /\ c \in sla \cup Builtin
    BY <1>1, <1>4, <1>13 DEF Knows, Keeps, At, BuiltPC, Shown
  <2>3. CASE installed' = installed
    BY <2>1, <2>3, <1>7, <1>8, <1>9
  <2>4. CASE installed' = installed \cup {c}
    <3>1. Registry!List(c)
      BY <2>1, <2>2, <2>4, <1>1, <1>7, <1>8, <1>9 DEF Registry!List
    <3> QED  BY <3>1, <1>1
  <2> QED  BY <2>3, <2>4, <1>2, <1>13 DEF At
<1>14. CASE At(j, "forget") \/ At(j, "untrack")
  <2>1. service'[c] = service[c]
    BY <1>2, <1>14 DEF At
  <2>2. c \notin Shown
    BY <1>2, <1>4, <1>14 DEF Knows, At, GonePC, UninstallPC, Shown
  <2>3. CASE sla' = sla /\ installed' = installed
    BY <2>1, <2>3, <1>7, <1>8, <1>9
  <2>4. CASE sla' = sla \ {c} /\ installed' = installed
    <3>1. Registry!Forget(c)
      BY <2>1, <2>2, <2>4, <1>1, <1>7, <1>8, <1>9 DEF Registry!Forget
    <3> QED  BY <3>1, <1>1
  <2>5. CASE At(j, "untrack") /\ sla' = sla /\ installed' = installed \ {c}
    <3>1. c \notin sla
      BY <2>5, <1>4 DEF Keeps
    <3>2. Registry!Unlist(c)
      BY <2>1, <2>2, <2>5, <3>1, <1>1, <1>7, <1>8, <1>9 DEF Registry!Unlist
    <3> QED  BY <3>2, <1>1
  <2> QED  BY <2>3, <2>4, <2>5, <1>2, <1>14 DEF At
<1>15. CASE /\ service'[c] = service[c] /\ sla' = sla /\ installed' = installed
  BY <1>15, <1>7, <1>8, <1>9
<1> QED  BY <1>2, <1>10, <1>11, <1>12, <1>13, <1>14, <1>15

\* Every step is a step of the registry, or none that shows.
LEMMA RegistryNext ==
  ASSUME IInv, IInv', [Next]_vars
  PROVE  [Registry!Next]_(Registry!vars)
<1>1. /\ failed \cup contended \subseteq Component /\ failed' \cup contended' \subseteq Component
      /\ TypeOK /\ BootOK
  BY DEF IInv, TypeOK
<1> USE DEF Registry!Next, Registry!vars, Shown, Running
<1>2. CASE Boot
  <2>1. Registry!Begin
    <3>1. /\ ~(phase # "down") /\ (phase' # "down")
          /\ {c \in Component : Running(c)}' = {}
          /\ UNCHANGED <<sla, installed>>
      BY <1>2 DEF Boot, books, Name
    <3> QED  BY <1>1, <3>1 DEF Registry!Begin
  <2> QED  BY <2>1
<1>3. CASE Crash \/ \E j, k \in Job : ConcurrentMapWrites(j, k)
  <2>1. phase # "down"
    <3>1. CASE Crash
      BY <3>1 DEF Crash
    <3>2. ASSUME NEW j \in Job, NEW k \in Job, ConcurrentMapWrites(j, k)
          PROVE  phase # "down"
      BY <3>2 DEF ConcurrentMapWrites, IInv, JobsNamed, Active, JobNamed
    <3> QED  BY <1>3, <3>1, <3>2
  <2>2. ProcessDies
    BY <1>3 DEF Crash, ConcurrentMapWrites
  <2>3. Registry!Die
    BY <2>1, <2>2 DEF ProcessDies, Registry!Die, swarm
  <2> QED  BY <2>3
<1>4. CASE \/ ReloadDrivers
           \/ \E r \in Request, d \in Component :
                InstallCommand(r, d) \/ UninstallCommand(r, d)
  <2>1. /\ phase # "down" /\ phase' # "down"
        /\ failed \cup contended \subseteq failed' \cup contended'
        /\ UNCHANGED <<service, sla, installed>>
    BY <1>4 DEF ReloadDrivers, InstallCommand, UninstallCommand, boot, swarm, books
  <2>2. Registry!Loosen
    BY <1>1, <2>1 DEF Registry!Loosen
  <2> QED  BY <2>2
<1>5. CASE ReloadApps \/ FinishReload \/ Quiet \/ UNCHANGED vars
  <2>1. /\ (phase' # "down") = (phase # "down")
        /\ UNCHANGED <<service, sla, installed, failed, contended>>
    BY <1>5 DEF ReloadApps, FinishReload, Quiet, vars, boot, swarm, books
  <2> QED  BY <2>1
<1>6. ASSUME NEW j \in Job, Launch(j) \/ Uninstall(j)
      PROVE  [Registry!Next]_(Registry!vars)
  <2>1. Named /\ job[j].name \in Component
    BY <1>6, JobStep DEF IInv, Named
  <2>2. CASE job[j].name \in failed' \cup contended' /\ ~Strays(j)
    <3>1. Registry!Stray(job[j].name)
      BY <1>6, <2>1, <2>2, CallStray
    <3>2. \E c \in Component : Registry!Stray(c)
      BY <2>1, <3>1 DEF Registry!Stray
    <3> QED  BY <3>2 DEF Registry!Next
  <2>3. CASE job[j].name \notin failed' \cup contended' /\ ~Strays(j)
    BY <1>6, <2>3, CallSteps
  <2>4. CASE Strays(j)
    BY <1>6, <2>4, StraySteps
  <2> QED  BY <2>2, <2>3, <2>4
<1> QED  BY <1>2, <1>3, <1>4, <1>5, <1>6 DEF Next

\* Docker's services, the saved SLAs and InstalledComponents change in the order
\* of ComponentRegistry, for any components, commands, failing calls and deaths.
THEOREM ImplementsRegistry == Spec => KeepsRegistry
<1>1. Init => Registry!Init
  BY DEF Init, Registry!Init, Running, Name
<1>2. IInv /\ IInv' /\ [Next]_vars => [Registry!Next]_(Registry!vars)
  BY RegistryNext
<1> QED  BY <1>1, <1>2, InvariantHolds, PTL DEF Spec, KeepsRegistry, Registry!Spec
=============================================================================
