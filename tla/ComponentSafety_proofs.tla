------------------------ MODULE ComponentSafety_proofs ------------------------
(***************************************************************************)
(* Proofs that the safety properties of ComponentLifecycle hold whatever    *)
(* the components, stores, commands, failing calls and number of crashes.   *)
(***************************************************************************)
EXTENDS ComponentLifecycle_proofs

-----------------------------------------------------------------------------
(* What one call of a job may touch. *)

\* Looking up the service to remove changes nothing but the job.
LEMMA FindFrame ==
  ASSUME NEW j \in Job, FindService(j)
  PROVE  /\ At(j, "find")
         /\ UNCHANGED <<boot, swarm, peers, books, failed, contended>>
BY Zenon DEF FindService

\* The jobs a process starts with.
LEMMA BootJobs ==
  ASSUME Boot
  PROVE  /\ job' = [j \in Job |-> IF j \in Builtin THEN Started("preconfig", j) ELSE NoJob]
         /\ resolver' = {}
BY Zenon DEF Boot

\* Permissions are only added, and services only made by CreateService and
\* CreateStore.
LEMMA LaunchEffect ==
  ASSUME Named, NEW j \in Job, Launch(j), NEW c \in Component
  PROVE  /\ grants[c] \subseteq grants'[c]
         /\ failed \subseteq failed'
         /\ service'[c] # service[c] => /\ c = job[j].name
                                        /\ At(j, "create")
                                        /\ service'[c] = j
         /\ At(j, "create")' => \/ job[j].name \in failed'
                                \/ SlaStores(job[j].name) \subseteq grants'[job[j].name]
<1>1. TypeOK /\ job[j].name \in Component
  BY LaunchJob, ActiveJobs DEF Named, JobsNamed, JobNamed
<1>2. \A k \in Job \ {j} : job'[k] = job[k]
  BY <1>1, LaunchJob
<1> USE DEF TypeOK, swarm, peers, books, boot, FailFor
<1>3. CASE PreConfig(j)
  <2>1. CASE net[job[j].name] = "none"
    BY <1>1, <1>3, <2>1, GotoFields DEF PreConfig, At, PC, LaunchPC
  <2>2. CASE net[job[j].name] # "none"
    <3>1. PICK d \in BOOLEAN : job' = [job EXCEPT ![j].pc = "config", ![j].dns = d]
      BY <1>3, <2>2 DEF PreConfig
    <3>2. job'[j].pc = "config"
      BY <1>1, <3>1, DnsFields
    <3> QED  BY <1>3, <3>2 DEF PreConfig, At
  <2> QED  BY <2>1, <2>2
<1>4. CASE CreateNetwork(j)
  BY <1>1, <1>4, GotoFields, ReturnFields, NamesAssumption DEF CreateNetwork, At, PC, LaunchPC, Name
<1>5. CASE AttachNetwork(j)
  BY <1>1, <1>5, GotoFields, DnsFields, NamesAssumption DEF AttachNetwork, At, PC, LaunchPC, Name
<1>6. CASE Configure(j)
  BY <1>1, <1>6, GotoFields, ReturnFields, NamesAssumption DEF Configure, At, PC, LaunchPC, Name
<1>7. CASE GenorateSecrets(j)
  BY <1>1, <1>7, GotoFields, ReturnFields, NamesAssumption DEF GenorateSecrets, RemoveSecret, CreateSecret, RegisterComponent, At, PC, LaunchPC, Name
<1>8. CASE ConnectEndpoints(j)
  BY <1>1, <1>8, GotoFields, ReturnFields, NamesAssumption DEF ConnectEndpoints, At, PC, LaunchPC, Name
<1>9. CASE CheckStore(j)
  BY <1>1, <1>9, GotoFields, ReturnFields, NamesAssumption DEF CheckStore, At, PC, LaunchPC, Name
<1>10. CASE CreateStore(j)
  BY <1>1, <1>10, GotoFields, ReturnFields, NamesAssumption DEF CreateStore, CanCreate, At, PC, LaunchPC, Name
<1>11. CASE AddPermissions(j)
  BY <1>1, <1>11, GotoFields, ReturnFields, NamesAssumption DEF AddPermissions, At, PC, LaunchPC, Name
<1>12. CASE CreateService(j)
  BY <1>1, <1>12, GotoFields, ReturnFields, NamesAssumption DEF CreateService, CanCreate, Saves, At, PC, LaunchPC, Name
<1>13. CASE SaveSLA(j)
  BY <1>1, <1>13, GotoFields, ReturnFields, NamesAssumption DEF SaveSLA, At, PC, LaunchPC, Name
<1>14. CASE TrackInstalled(j)
  BY <1>1, <1>14, GotoFields, ReturnFields, NamesAssumption DEF TrackInstalled, At, PC, LaunchPC, Name
<1> QED
  BY <1>3, <1>4, <1>5, <1>6, <1>7, <1>8, <1>9, <1>10, <1>11, <1>12, <1>13, <1>14 DEF Launch

\* Uninstall takes no grant back and creates no service.
LEMMA UninstallEffect ==
  ASSUME Named, NEW j \in Job, Uninstall(j), NEW n \in Name
  PROVE  /\ grants' = grants
         /\ failed \subseteq failed'
         /\ service'[n] # service[n] => service'[n] = Nobody
<1> USE DEF Named, TypeOK, swarm, peers, books, boot, FailFor
<1>1. CASE FindService(j)
  BY <1>1, FindFrame
<1>2. CASE RemoveService(j)
  BY <1>2 DEF RemoveService
<1>3. CASE ListSecrets(j)
  BY <1>3 DEF ListSecrets
<1>4. CASE DropSecrets(j)
  BY <1>4 DEF DropSecrets
<1>5. CASE DisconnectEndpoints(j)
  BY <1>5 DEF DisconnectEndpoints
<1>6. CASE DeleteSLA(j)
  BY <1>6 DEF DeleteSLA
<1>7. CASE UntrackInstalled(j)
  BY <1>7 DEF UntrackInstalled
<1> QED
  BY <1>1, <1>2, <1>3, <1>4, <1>5, <1>6, <1>7 DEF Uninstall

-----------------------------------------------------------------------------
(* Permissions *)

PermInv == Named /\ GrantsHeld /\ PermissionsBeforeRun

\* Steps that start or stop goroutines and leave everything else alone.
LEMMA PermJobs ==
  ASSUME PermInv, UNCHANGED <<swarm, peers>>, failed \subseteq failed',
         \A j \in Job : At(j, "create")' => job'[j] = job[j]
  PROVE  GrantsHeld' /\ PermissionsBeforeRun'
BY DEF PermInv, GrantsHeld, PermissionsBeforeRun, Running, At, swarm, peers

\* A launch grants all of the SLA or blames its component before it creates.
LEMMA PermLaunch ==
  ASSUME PermInv, NEW j \in Job, Launch(j)
  PROVE  GrantsHeld' /\ PermissionsBeforeRun'
<1>1. Named
  BY DEF PermInv
<1>2. job[j].name \in Component /\ \A k \in Job \ {j} : job'[k] = job[k]
  BY <1>1, LaunchJob, ActiveJobs DEF Named, JobsNamed, JobNamed
<1>3. /\ failed \subseteq failed'
      /\ \A c \in Component : grants[c] \subseteq grants'[c]
  BY <1>1, <1>2, LaunchEffect
<1>4. GrantsHeld'
  <2> SUFFICES ASSUME NEW k \in Job, At(k, "create")'
               PROVE  \/ job'[k].name \in failed'
                      \/ SlaStores(job'[k].name) \subseteq grants'[job'[k].name]
    BY DEF GrantsHeld, SlaStores
  <2>1. CASE k = j
    <3>1. job'[j].name = job[j].name
      BY <1>1, <2>1, LaunchJob DEF Named, At
    <3> QED  BY <1>1, <1>2, <2>1, <3>1, LaunchEffect
  <2>2. CASE k # j
    <3>1. job'[k] = job[k] /\ At(k, "create") /\ job[k].name \in Component
      BY <1>1, <1>2, <2>2 DEF At, Named, JobsNamed, JobNamed, Active
    <3> QED  BY <1>3, <3>1 DEF PermInv, GrantsHeld
  <2> QED  BY <2>1, <2>2
<1>5. PermissionsBeforeRun'
  <2> SUFFICES ASSUME NEW c \in Component, Running(c)', c \notin failed'
               PROVE  SlaStores(c) \subseteq grants'[c]
    BY DEF PermissionsBeforeRun, SlaStores
  <2>1. CASE service'[c] = service[c]
    BY <1>3, <2>1 DEF PermInv, PermissionsBeforeRun, Running
  <2>2. CASE service'[c] # service[c]
    <3>1. c = job[j].name /\ At(j, "create")
      BY <1>1, <2>2, LaunchEffect
    <3> QED  BY <1>3, <3>1 DEF PermInv, GrantsHeld
  <2> QED  BY <2>1, <2>2
<1> QED  BY <1>4, <1>5

\* An uninstall leaves what is granted alone.
LEMMA PermUninstall ==
  ASSUME PermInv, NEW j \in Job, Uninstall(j)
  PROVE  GrantsHeld' /\ PermissionsBeforeRun'
<1>1. Named /\ TypeOK /\ job[j].name \in Component
  BY UninstallWho DEF PermInv, Named
<1>2. /\ \A k \in Job \ {j} : job'[k] = job[k]
      /\ job'[j].pc = "done" \/ job'[j].pc \in UninstallPC
  BY <1>1, UninstallJob
<1>3. grants' = grants /\ failed \subseteq failed'
  BY <1>1, UninstallEffect DEF Name
<1>4. GrantsHeld'
  BY <1>2, <1>3 DEF PermInv, GrantsHeld, SlaStores, At, UninstallPC
<1>5. PermissionsBeforeRun'
  <2>1. \A c \in Component : Running(c)' => Running(c)
    BY <1>1, UninstallEffect DEF Running, Name
  <2> QED  BY <1>3, <2>1 DEF PermInv, PermissionsBeforeRun, SlaStores
<1> QED  BY <1>4, <1>5

\* Every step keeps the permissions of what runs.
LEMMA PermNext ==
  ASSUME PermInv, [Next]_vars
  PROVE  PermInv'
<1>1. Named'
  BY NamedNext DEF PermInv
<1>2. GrantsHeld' /\ PermissionsBeforeRun'
  <2>1. CASE Boot
    BY <2>1 DEF Boot, GrantsHeld, PermissionsBeforeRun, At, Running, Started, NoJob, Name
  <2>2. CASE ReloadDrivers \/ ReloadApps \/ FinishReload
    <3>1. \A j \in Job : At(j, "create")' => job'[j] = job[j]
      BY <2>2 DEF ReloadDrivers, ReloadApps, FinishReload, Relaunch, At, Started, NoJob
    <3> QED  BY <2>2, <3>1, PermJobs DEF ReloadDrivers, ReloadApps, FinishReload
  <2>3. CASE Crash \/ \E j, k \in Job : ConcurrentMapWrites(j, k)
    <3>1. \A j \in Job : ~At(j, "create")'
      BY <2>3 DEF Crash, ConcurrentMapWrites, ProcessDies, At, NoJob
    <3> QED  BY <2>3, <3>1, PermJobs DEF Crash, ConcurrentMapWrites, ProcessDies
  <2>4. ASSUME NEW r \in Request, NEW c \in Component,
               InstallCommand(r, c) \/ UninstallCommand(r, c)
        PROVE  GrantsHeld' /\ PermissionsBeforeRun'
    <3>1. TypeOK /\ r \in Job
      BY DEF PermInv, Named, Job
    <3>2. \A j \in Job : At(j, "create")' => job'[j] = job[j]
      BY <2>4, <3>1 DEF InstallCommand, UninstallCommand, TypeOK, At, Started, NoJob
    <3> QED  BY <2>4, <3>2, PermJobs DEF InstallCommand, UninstallCommand
  <2>5. CASE Quiet \/ UNCHANGED vars
    BY <2>5, PermJobs DEF Quiet, vars
  <2>6. ASSUME NEW j \in Job, Launch(j) \/ Uninstall(j)
        PROVE  GrantsHeld' /\ PermissionsBeforeRun'
    BY <2>6, PermLaunch, PermUninstall
  <2> QED  BY <2>1, <2>2, <2>3, <2>4, <2>5, <2>6 DEF Next
<1> QED  BY <1>1, <1>2 DEF PermInv

\* A component that runs has been granted the stores its SLA asks for, unless
\* a call made for it failed: whatever else installs, uninstalls and crashes.
THEOREM PermissionsHold == Spec => []PermissionsBeforeRun
<1>1. Init => PermInv
  <2>1. Init => Named
    BY NamedInit
  <2>2. Init => GrantsHeld /\ PermissionsBeforeRun
    BY DEF Init, GrantsHeld, PermissionsBeforeRun, At, NoJob, Running, Name
  <2> QED  BY <2>1, <2>2 DEF PermInv
<1>2. PermInv /\ [Next]_vars => PermInv'
  BY PermNext
<1>3. PermInv => PermissionsBeforeRun
  BY DEF PermInv
<1> QED  BY <1>1, <1>2, <1>3, PTL DEF Spec

-----------------------------------------------------------------------------
(* A call of a job touches only the component the job works on. *)

\* Two states look the same to d.
SameFor(d) ==
  /\ net'[d] = net[d]
  /\ service'[d] = service[d] /\ service'[StoreOf[d]] = service[StoreOf[d]]
  /\ arbiter'[d] = arbiter[d] /\ arbiter'[StoreOf[d]] = arbiter[StoreOf[d]]
  /\ d \in connected' <=> d \in connected
  /\ d \in resolver' <=> d \in resolver
  /\ d \in sla' <=> d \in sla
  /\ d \in installed' <=> d \in installed

\* A launch leaves the records of other components alone.
LEMMA LaunchFrame ==
  ASSUME Named, NEW j \in Job, Launch(j), NEW d \in Component, d # job[j].name
  PROVE  SameFor(d)
<1>1. TypeOK /\ job[j].name \in Component
  BY LaunchWho DEF Named
<1>2. /\ StoreOf[d] # StoreOf[job[j].name] /\ StoreOf[d] # job[j].name
      /\ d # StoreOf[job[j].name]
      /\ d \in Name /\ StoreOf[d] \in Name
  BY <1>1, NamesAssumption DEF Name
<1> USE DEF TypeOK, swarm, peers, books, FailFor, SameFor
<1>3. CASE PreConfig(j)
  BY <1>1, <1>2, <1>3 DEF PreConfig
<1>4. CASE CreateNetwork(j)
  BY <1>1, <1>2, <1>4 DEF CreateNetwork
<1>5. CASE AttachNetwork(j)
  BY <1>1, <1>2, <1>5 DEF AttachNetwork
<1>6. CASE Configure(j)
  BY <1>1, <1>2, <1>6 DEF Configure
<1>7. CASE GenorateSecrets(j)
  BY <1>1, <1>2, <1>7 DEF GenorateSecrets, RemoveSecret, CreateSecret, RegisterComponent
<1>8. CASE ConnectEndpoints(j)
  BY <1>1, <1>2, <1>8 DEF ConnectEndpoints
<1>9. CASE CheckStore(j)
  BY <1>1, <1>2, <1>9 DEF CheckStore
<1>10. CASE CreateStore(j)
  BY <1>1, <1>2, <1>10 DEF CreateStore
<1>11. CASE AddPermissions(j)
  BY <1>1, <1>2, <1>11 DEF AddPermissions
<1>12. CASE CreateService(j)
  BY <1>1, <1>2, <1>12 DEF CreateService
<1>13. CASE SaveSLA(j)
  BY <1>1, <1>2, <1>13 DEF SaveSLA
<1>14. CASE TrackInstalled(j)
  BY <1>1, <1>2, <1>14 DEF TrackInstalled
<1> QED
  BY <1>3, <1>4, <1>5, <1>6, <1>7, <1>8, <1>9, <1>10, <1>11, <1>12, <1>13, <1>14 DEF Launch

\* An uninstall leaves the records of other components alone, but for those
\* whose service it takes for its own.
LEMMA UninstallFrame ==
  ASSUME Named, NEW j \in Job, Uninstall(j), NEW d \in Component, d # job[j].name,
         d \notin contended'
  PROVE  SameFor(d)
<1>1. TypeOK /\ job[j].name \in Component /\ JobNamed(j)
  BY UninstallWho DEF Named
<1>2. /\ StoreOf[d] # StoreOf[job[j].name] /\ StoreOf[d] # job[j].name
      /\ d # StoreOf[job[j].name]
      /\ d \in Name /\ StoreOf[d] \in Name
  BY <1>1, NamesAssumption DEF Name
<1> USE DEF TypeOK, swarm, peers, books, FailFor, SameFor
<1>3. CASE FindService(j)
  BY <1>3, FindFrame
<1>4. CASE RemoveService(j)
  <2>1. UNCHANGED <<net, arbiter, connected, resolver, sla, installed>>
    BY <1>4 DEF RemoveService
  <2>2. \/ service' = service
        \/ /\ service' = [service EXCEPT ![job[j].victim] = Nobody]
           /\ d \notin Owners(job[j].victim)
    BY <1>4 DEF RemoveService
  <2>3. service'[d] = service[d] /\ service'[StoreOf[d]] = service[StoreOf[d]]
    BY <1>1, <1>2, <2>2 DEF Owners
  <2> QED  BY <2>1, <2>3
<1>5. CASE ListSecrets(j)
  BY <1>1, <1>2, <1>5 DEF ListSecrets
<1>6. CASE DropSecrets(j)
  BY <1>1, <1>2, <1>6 DEF DropSecrets
<1>7. CASE DisconnectEndpoints(j)
  BY <1>1, <1>2, <1>7 DEF DisconnectEndpoints
<1>8. CASE DeleteSLA(j)
  BY <1>1, <1>2, <1>8 DEF DeleteSLA
<1>9. CASE UntrackInstalled(j)
  BY <1>1, <1>2, <1>9 DEF UntrackInstalled
<1> QED
  BY <1>3, <1>4, <1>5, <1>6, <1>7, <1>8, <1>9 DEF Uninstall

\* A call of a job leaves other jobs alone.
LEMMA JobStep ==
  ASSUME Named, NEW j \in Job, Launch(j) \/ Uninstall(j)
  PROVE  /\ \A k \in Job \ {j} : job'[k] = job[k]
         /\ UNCHANGED <<phase, reload>>
         /\ contended \subseteq contended'
         /\ phase # "down" /\ On(j, job[j].name) /\ job[j].name \in Component
         /\ \/ job'[j].pc = "done"
            \/ /\ job'[j].name = job[j].name
               /\ job'[j].pc \in LaunchPC \cup UninstallPC
<1>1. CASE Launch(j)
  BY <1>1, LaunchJob, LaunchWho DEF Named, JobNamed, On
<1>2. CASE Uninstall(j)
  BY <1>2, UninstallJob, UninstallWho DEF Named, JobNamed, On
<1> QED  BY <1>1, <1>2

-----------------------------------------------------------------------------
(* Jobs that no other job meets *)

\* A launch that is alone with its component knows whether it runs.
LEMMA KnowsLaunch ==
  ASSUME Named, NEW j \in Job, Launch(j), NEW c \in Component,
         c = job[j].name, Knows(j, c)
  PROVE  /\ job'[j].pc = "done" => Booked(c)'
         /\ job'[j].pc # "done" => Knows(j, c)'
<1>1. TypeOK /\ c \in Name /\ StoreOf[c] \in Name /\ StoreOf[c] # c
  BY NamesAssumption DEF Named, Name
<1>2. job[j].pc \in LaunchPC
  BY LaunchWho
<1> USE DEF TypeOK, swarm, peers, books, Knows, Booked, Running, At
<1>3. CASE PreConfig(j)
  BY <1>1, <1>3, PreConfigJob DEF PreConfig, BuildPC, BuiltPC, GonePC, LaunchPC, UninstallPC
<1>4. CASE CreateNetwork(j)
  BY <1>1, <1>4, GotoFields, ReturnFields, NamesAssumption
     DEF CreateNetwork, PC, BuildPC, BuiltPC, GonePC, LaunchPC, UninstallPC
<1>5. CASE AttachNetwork(j)
  BY <1>1, <1>5, AttachJob DEF AttachNetwork, BuildPC, BuiltPC, GonePC, LaunchPC, UninstallPC
<1>6. CASE Configure(j)
  BY <1>1, <1>6, GotoFields, ReturnFields, NamesAssumption
     DEF Configure, PC, BuildPC, BuiltPC, GonePC, LaunchPC, UninstallPC
<1>7. CASE GenorateSecrets(j)
  <2>1. /\ job[j].pc \in BuildPC /\ job'[j].pc \in BuildPC
        /\ UNCHANGED <<service, installed>>
    BY <1>1, <1>7, GotoFields
       DEF GenorateSecrets, RemoveSecret, CreateSecret, RegisterComponent, PC, BuildPC, LaunchPC
  <2> QED  BY <2>1 DEF BuildPC, BuiltPC, GonePC, LaunchPC, UninstallPC
<1>8. CASE ConnectEndpoints(j)
  BY <1>1, <1>8, GotoFields, ReturnFields, NamesAssumption
     DEF ConnectEndpoints, PC, BuildPC, BuiltPC, GonePC, LaunchPC, UninstallPC
<1>9. CASE CheckStore(j)
  BY <1>1, <1>9, GotoFields, ReturnFields, NamesAssumption
     DEF CheckStore, PC, BuildPC, BuiltPC, GonePC, LaunchPC, UninstallPC
<1>10. CASE CreateStore(j)
  BY <1>1, <1>10, GotoFields, ReturnFields, NamesAssumption
     DEF CreateStore, CanCreate, PC, BuildPC, BuiltPC, GonePC, LaunchPC, UninstallPC
<1>11. CASE AddPermissions(j)
  BY <1>1, <1>11, GotoFields, ReturnFields, NamesAssumption
     DEF AddPermissions, PC, BuildPC, BuiltPC, GonePC, LaunchPC, UninstallPC
<1>12. CASE CreateService(j)
  BY <1>1, <1>12, GotoFields, ReturnFields, NamesAssumption
     DEF CreateService, CanCreate, PC, BuildPC, BuiltPC, GonePC, LaunchPC, UninstallPC
<1>13. CASE SaveSLA(j)
  BY <1>1, <1>13, GotoFields, ReturnFields, NamesAssumption
     DEF SaveSLA, PC, BuildPC, BuiltPC, GonePC, LaunchPC, UninstallPC
<1>14. CASE TrackInstalled(j)
  BY <1>1, <1>14, GotoFields, ReturnFields, NamesAssumption
     DEF TrackInstalled, PC, BuildPC, BuiltPC, GonePC, LaunchPC, UninstallPC
<1> QED
  BY <1>3, <1>4, <1>5, <1>6, <1>7, <1>8, <1>9, <1>10, <1>11, <1>12, <1>13, <1>14 DEF Launch

\* An uninstall that is alone with its component knows whether it runs.
LEMMA KnowsUninstall ==
  ASSUME Named, NEW j \in Job, Uninstall(j), NEW c \in Component,
         c = job[j].name, Knows(j, c)
  PROVE  /\ job'[j].pc = "done" => Booked(c)'
         /\ job'[j].pc # "done" => Knows(j, c)'
<1>1. /\ TypeOK /\ c \in Name /\ StoreOf[c] \in Name /\ StoreOf[c] # c
      /\ JobNamed(j) /\ c \in Component
  BY NamesAssumption, UninstallWho DEF Named, Name
<1>0. c \in BeginsWith[c]
  BY NamesAssumption
<1>9. FindService(j) => job[j].pc = "find" /\ UNCHANGED <<service, installed, failed>>
  BY FindFrame DEF At, swarm, books
<1> USE DEF TypeOK, swarm, peers, books, Knows, Booked, Running, At
<1>2. CASE FindService(j)
  <2>3. Running(c) => c \in Listed(c)
    BY <1>0 DEF Listed
  <2>1. CASE Listed(c) = {}
    <3>1. job'[j].pc = "done"
        BY <1>1, <1>2, <2>1, ReturnFields DEF FindService
    <3> QED  BY <1>2, <1>9, <2>1, <2>3, <3>1
  <2>2. CASE Listed(c) # {}
    <3>1. /\ job'[j].pc = "remove"
          /\ c \in Listed(c) => job'[j].victim = c
      BY <1>1, <1>2, <2>2, FindJob
    <3> QED  BY <1>2, <1>9, <2>3, <3>1 DEF BuildPC, BuiltPC, GonePC, LaunchPC, UninstallPC
  <2> QED  BY <2>1, <2>2
<1>3. CASE RemoveService(j)
  <2>1. job[j].pc = "remove" /\ job'[j].pc = "listsecrets" /\ installed' = installed
    BY <1>1, <1>3, GotoFields DEF RemoveService, PC, UninstallPC
  <2>2. \/ /\ service' = [service EXCEPT ![job[j].victim] = Nobody]
           /\ failed' = failed
        \/ c \in failed'
    BY <1>1, <1>3 DEF RemoveService, FailFor
  <2>3. c \notin failed' => ~Running(c)'
    BY <1>1, <2>1, <2>2
  <2> QED  BY <2>1, <2>3 DEF BuildPC, BuiltPC, GonePC, LaunchPC, UninstallPC
<1>4. CASE ListSecrets(j)
  <2>1. job'[j].pc = "dropsecrets"
    BY <1>1, <1>4 DEF ListSecrets, JobRecord
  <2> QED  BY <1>1, <1>4, <2>1
           DEF ListSecrets, BuildPC, BuiltPC, GonePC, LaunchPC, UninstallPC
<1>5. CASE DropSecrets(j)
  BY <1>1, <1>5, GotoFields, ReturnFields
     DEF DropSecrets, PC, BuildPC, BuiltPC, GonePC, LaunchPC, UninstallPC
<1>6. CASE DisconnectEndpoints(j) \/ DeleteSLA(j)
  <2>1. /\ job[j].pc \in {"disconnect", "forget"} /\ job'[j].pc \in {"forget", "untrack"}
        /\ UNCHANGED <<service, installed>> /\ failed \subseteq failed'
    BY <1>1, <1>6, GotoFields DEF DisconnectEndpoints, DeleteSLA, FailFor, PC, UninstallPC
  <2> QED  BY <2>1 DEF BuildPC, BuiltPC, GonePC, LaunchPC, UninstallPC
<1>8. CASE UntrackInstalled(j)
  BY <1>1, <1>8, GotoFields, ReturnFields
     DEF UntrackInstalled, PC, BuildPC, BuiltPC, GonePC, LaunchPC, UninstallPC
<1> QED
  BY <1>2, <1>3, <1>4, <1>5, <1>6, <1>8 DEF Uninstall

\* A call saves or deletes the SLA of its own component, never a builtin one.
LEMMA SlaStep ==
  ASSUME Named, NEW j \in Job, Launch(j) \/ Uninstall(j)
  PROVE  \/ sla' \subseteq sla
         \/ job[j].name \notin Builtin /\ sla' = sla \cup {job[j].name}
<1> USE DEF books
<1>1. CASE SaveSLA(j)
  <2>1. j \in Request /\ job[j].pc \in LaunchPC /\ JobNamed(j)
    BY <1>1 DEF SaveSLA, At, Named, JobsNamed, Active, JobNamed, Job, LaunchPC
  <2> QED  BY <1>1, <2>1 DEF SaveSLA, JobNamed
<1>2. CASE Launch(j) /\ ~SaveSLA(j)
  BY <1>2 DEF Launch, PreConfig, CreateNetwork, AttachNetwork, Configure, GenorateSecrets,
              RemoveSecret, CreateSecret, RegisterComponent, ConnectEndpoints, CheckStore,
              CreateStore, AddPermissions, CreateService, TrackInstalled
<1>3. CASE Uninstall(j)
  BY <1>3 DEF Uninstall, FindService, RemoveService, ListSecrets, DropSecrets,
              DisconnectEndpoints, DeleteSLA, UntrackInstalled
<1> QED  BY <1>1, <1>2, <1>3

\* Every step keeps what is claimed of the progress of Start.
LEMMA BootNext ==
  ASSUME Named, BootOK, [Next]_vars
  PROVE  BootOK'
<1> USE DEF BootOK, books, swarm, peers
<1>1. CASE Boot
  BY <1>1 DEF Boot
<1>2. CASE ReloadDrivers
  BY <1>2 DEF ReloadDrivers
<1>3. CASE ReloadApps
  <2>1. \A c \in reload \cap Driver : job'[c] = job[c] /\ ~Active(c)
    BY <1>3 DEF ReloadApps, Relaunch, Reloaded, At, Active, Named, TypeOK, Job
  <2> QED  BY <1>3, <2>1 DEF ReloadApps, Active
<1>4. CASE FinishReload
  <2>1. \A c \in reload : ~Active(c)
    BY <1>4 DEF FinishReload, Reloaded, At, Active
  <2> QED  BY <1>4, <2>1 DEF FinishReload, Active
<1>5. ASSUME ProcessDies
      PROVE  BootOK'
  BY <1>5 DEF ProcessDies
<1>6. ASSUME NEW r \in Request, NEW c \in Component,
             InstallCommand(r, c) \/ UninstallCommand(r, c)
      PROVE  BootOK'
  <2>1. /\ \A d \in reload : job'[d] = job[d]
        /\ UNCHANGED <<phase, reload, sla, installed>>
    BY <1>6, NamesAssumption DEF InstallCommand, UninstallCommand, Named, TypeOK, boot, Job
  <2> QED  BY <2>1 DEF Active, Named, TypeOK
<1>7. ASSUME NEW j \in Job, Launch(j) \/ Uninstall(j)
      PROVE  BootOK'
  <2>1. /\ UNCHANGED <<phase, reload>> /\ phase # "down" /\ Active(j)
        /\ \A k \in Job \ {j} : job'[k] = job[k]
    BY <1>7, JobStep DEF On
  <2>2. sla' \cap Builtin = {}
    BY <1>7, SlaStep
  <2>3. \A c \in reload : ~Active(c) => ~Active(c)'
    BY <2>1 DEF Active, Named, TypeOK, Job
  <2> QED  BY <2>1, <2>2, <2>3
<1>8. CASE Quiet \/ UNCHANGED vars
  BY <1>8 DEF Quiet, vars, boot, Active
<1> QED
  BY <1>1, <1>2, <1>3, <1>4, <1>5, <1>6, <1>7, <1>8 DEF Next, Crash, ConcurrentMapWrites

SoloInv ==
  /\ Named /\ BootOK
  /\ \A c \in Component \ contended : phase # "down" => Solo(c)

\* A call of the job that has c to itself.
LEMMA SoloOwnStep ==
  ASSUME Named, NEW j \in Job, Launch(j) \/ Uninstall(j), NEW c \in Component,
         c = job[j].name, Solo(c)
  PROVE  Solo(c)'
<1>1. /\ \A k \in Job \ {j} : job'[k] = job[k]
      /\ UNCHANGED <<phase, reload>>
      /\ On(j, c)
      /\ \/ job'[j].pc = "done"
         \/ job'[j].name = c /\ job'[j].pc \in LaunchPC \cup UninstallPC
  BY JobStep
<1>2. Knows(j, c) /\ ~Pending(c) /\ \A k \in Job : On(k, c) => k = j
  BY <1>1 DEF Solo
<1>3. /\ job'[j].pc = "done" => Booked(c)'
      /\ job'[j].pc # "done" => Knows(j, c)'
  BY <1>2, KnowsLaunch, KnowsUninstall
<1>4. ~Pending(c)'
  BY <1>1, <1>2 DEF Pending
<1>5. \A k \in Job : On(k, c)' => k = j
  BY <1>1, <1>2 DEF On, Active
<1>6. On(j, c)' <=> job'[j].pc # "done"
  BY <1>1 DEF On, Active, LaunchPC, UninstallPC
<1> QED  BY <1>3, <1>4, <1>5, <1>6 DEF Solo

\* The jobs on d are where they were.
JobsSameFor(d) ==
  /\ \A k \in Job : job'[k] = job[k] \/ (~On(k, d) /\ ~On(k, d)')
  /\ Pending(d)' => Pending(d)

\* What Solo says of a component depends on its own jobs and records only.
LEMMA SoloFrame ==
  ASSUME Named, NEW d \in Component, Solo(d), SameFor(d), JobsSameFor(d),
         failed \subseteq failed'
  PROVE  Solo(d)'
<1>1. \A k \in Job : On(k, d)' => On(k, d) /\ job'[k] = job[k]
  BY DEF JobsSameFor, On, Active
<1>2. \A k \in Job : On(k, d) => On(k, d)'
  BY DEF JobsSameFor, On, Active
<1>3. /\ Running(d)' <=> Running(d)
      /\ d \in installed' <=> d \in installed
  BY DEF SameFor, Running
<1>4. ASSUME NEW k \in Job, On(k, d)'
      PROVE  Knows(k, d)'
  <2>1. Knows(k, d) /\ job'[k] = job[k]
    BY <1>1, <1>4 DEF Solo
  <2> QED  BY <1>3, <2>1 DEF Knows, Booked, At
<1> QED  BY <1>1, <1>2, <1>3, <1>4 DEF Solo, Booked, JobsSameFor

\* A call of any job, on the components on which no two jobs met.
LEMMA SoloJob ==
  ASSUME SoloInv, NEW j \in Job, Launch(j) \/ Uninstall(j),
         NEW c \in Component \ contended'
  PROVE  Solo(c)'
<1>1. /\ Named /\ UNCHANGED <<phase, reload>> /\ phase # "down"
      /\ c \notin contended
      /\ \A k \in Job \ {j} : job'[k] = job[k]
      /\ \/ job'[j].pc = "done"
         \/ job'[j].name = job[j].name
  BY JobStep DEF SoloInv
<1>2. Solo(c) /\ failed \subseteq failed'
  BY <1>1, LaunchEffect, UninstallEffect DEF SoloInv, Name
<1>3. CASE c = job[j].name
  BY <1>1, <1>2, <1>3, SoloOwnStep
<1>4. CASE c # job[j].name
  <2>1. SameFor(c)
    BY <1>1, <1>4, LaunchFrame, UninstallFrame
  <2>2. ~On(j, c) /\ ~On(j, c)'
    BY <1>1, <1>4 DEF On, Active
  <2>3. JobsSameFor(c)
    BY <1>1, <2>2 DEF JobsSameFor, Pending
  <2> QED  BY <1>1, <1>2, <2>1, <2>3, SoloFrame
<1> QED  BY <1>3, <1>4

\* An API command, on the components that nobody else works on.
LEMMA SoloCommand ==
  ASSUME SoloInv, NEW r \in Request, NEW c \in Component,
         InstallCommand(r, c) \/ UninstallCommand(r, c),
         NEW d \in Component \ contended'
  PROVE  Solo(d)'
<1>1. /\ Named /\ phase # "down" /\ d \notin contended
      /\ UNCHANGED <<boot, swarm, peers, books, failed>>
      /\ r \in Job /\ ~Active(r)
      /\ \A k \in Job \ {r} : job'[k] = job[k]
      /\ job'[r].name = c /\ job'[r].pc \in {"preconfig", "find"} /\ Active(r)'
  <2>1. Named /\ TypeOK /\ r \in Job
    BY DEF SoloInv, Named, Job
  <2>2. PICK l \in {"preconfig", "find"} : job' = [job EXCEPT ![r] = Started(l, c)]
    BY DEF InstallCommand, UninstallCommand
  <2>3. job'[r].name = c /\ job'[r].pc = l /\ \A k \in Job \ {r} : job'[k] = job[k]
    BY <2>1, <2>2 DEF TypeOK, Started, NoJob
  <2>4. d \notin contended
    BY <2>1 DEF InstallCommand, UninstallCommand
  <2>5. phase # "down" /\ At(r, "idle") /\ UNCHANGED <<boot, swarm, peers, books, failed>>
    BY DEF InstallCommand, UninstallCommand
  <2> QED  BY <2>1, <2>3, <2>4, <2>5 DEF Active, At
<1>2. Solo(d) /\ (Pending(d)' <=> Pending(d))
  BY <1>1 DEF SoloInv, Pending, boot
<1>3. SameFor(d)
  BY <1>1 DEF SameFor, swarm, peers, books
<1>4. CASE d # c
  <2>1. ~On(r, d) /\ ~On(r, d)'
    BY <1>1, <1>4 DEF On
  <2>2. JobsSameFor(d)
    BY <1>1, <1>2, <2>1 DEF JobsSameFor
  <2> QED  BY <1>1, <1>2, <1>3, <2>2, SoloFrame
<1>5. CASE d = c
  <2>1. ~Busy(c) /\ (job'[r].pc = "preconfig" => ~Running(c))
    <3>1. CASE InstallCommand(r, c)
      BY <1>5, <3>1 DEF InstallCommand, Running
    <3>2. CASE UninstallCommand(r, c)
      BY <1>1, <1>5, <3>2 DEF UninstallCommand, Started, NoJob, Named, TypeOK
    <3> QED  BY <3>1, <3>2
  <2>2. Booked(c)
    BY <1>2, <1>5, <2>1 DEF Solo, Busy
  <2>3. \A k \in Job : On(k, c)' <=> k = r
    BY <1>1, <2>1 DEF On, Active, Busy
  <2>4. Knows(r, c)'
    BY <1>1, <2>1, <2>2
       DEF Knows, Booked, At, Running, swarm, books, BuildPC, BuiltPC, GonePC, LaunchPC, UninstallPC
  <2>5. ~Pending(c)'
    BY <1>2, <1>5, <2>1 DEF Busy
  <2>6. Solo(c)'
    BY <1>1, <2>3, <2>4, <2>5 DEF Solo
  <2> QED  BY <1>5, <2>6
<1> QED  BY <1>4, <1>5

\* reloadApps launches drivers that do not run yet.
LEMMA SoloReloadDrivers ==
  ASSUME SoloInv, ReloadDrivers, NEW c \in Component \ contended'
  PROVE  Solo(c)'
<1>1. /\ Named /\ TypeOK /\ c \notin contended /\ Solo(c)
      /\ UNCHANGED <<swarm, peers, books>>
      /\ phase = "serving" /\ phase' = "drivers"
      /\ job' = [j \in Job |-> IF j \in reload' \cap Driver
                                 THEN Started("preconfig", j) ELSE job[j]]
      /\ c \in reload' => ~Busy(c) /\ ~Running(c)
      /\ failed \subseteq failed'
  BY DEF ReloadDrivers, Relaunch, SoloInv, Named, Running
<1>2. ~Pending(c) /\ (Pending(c)' <=> c \in reload' \ Driver)
  BY <1>1 DEF Pending
<1>3. \A j \in Component : On(j, c) => j = c
  BY <1>1 DEF On, Named, JobsNamed, JobNamed, Job
<1>4. \A j \in Job : On(j, c)' <=> IF j \in reload' \cap Driver THEN j = c ELSE On(j, c)
  <2>1. \A j \in reload' : /\ j \in Component
                          /\ Started("preconfig", j).pc = "preconfig"
                          /\ Started("preconfig", j).name = j
    BY <1>1, StartedType DEF ReloadDrivers, TypeOK, PC, LaunchPC
  <2> SUFFICES ASSUME NEW j \in Job
               PROVE  On(j, c)' <=> IF j \in reload' \cap Driver THEN j = c ELSE On(j, c)
    BY DEF On, Active
  <2>2. CASE j \in reload' \cap Driver
    <3>1. job'[j] = Started("preconfig", j)
      BY <1>1, <2>2
    <3> QED  BY <2>1, <2>2, <3>1 DEF On, Active
  <2>3. CASE j \notin reload' \cap Driver
    <3>1. job'[j] = job[j]
      BY <1>1, <2>3
    <3> QED  BY <2>3, <3>1 DEF On, Active
  <2> QED  BY <2>2, <2>3
<1>5. CASE c \in reload'
  <2>1. ~Running(c)' /\ c \notin installed' /\ \A j \in Job : ~On(j, c)
    BY <1>1, <1>5 DEF Solo, Booked, Busy, Running, swarm, books
  <2>2. \A j \in Job : On(j, c)' => j = c /\ job'[j].pc = "preconfig" /\ ~Pending(c)'
    BY <1>1, <1>2, <1>4, <2>1 DEF Started, NoJob, Job
  <2> QED  BY <2>1, <2>2
           DEF Solo, Knows, Booked, At, BuildPC, BuiltPC, GonePC, LaunchPC, UninstallPC
<1>6. CASE c \notin reload'
  <2>1. ~Pending(c)'
    BY <1>2, <1>6
  <2>2. \A j \in Job : j \in reload' \cap Driver => ~On(j, c) /\ ~On(j, c)'
    BY <1>1, <1>3, <1>4, <1>6 DEF ReloadDrivers, TypeOK
  <2>3. JobsSameFor(c)
    BY <1>1, <2>1, <2>2 DEF JobsSameFor
  <2>4. SameFor(c)
    BY <1>1 DEF SameFor, swarm, peers, books
  <2> QED  BY <1>1, <2>3, <2>4, SoloFrame
<1> QED  BY <1>5, <1>6

\* reloadApps launches the apps it promised to launch.
LEMMA SoloReloadApps ==
  ASSUME SoloInv, ReloadApps, NEW c \in Component \ contended'
  PROVE  Solo(c)'
<1>1. /\ Named /\ TypeOK /\ Solo(c)
      /\ UNCHANGED <<swarm, peers, books, reload, failed>>
      /\ phase = "drivers" /\ phase' = "apps"
      /\ job' = [j \in Job |-> IF j \in reload \ Driver
                                 THEN Started("preconfig", j) ELSE job[j]]
  BY DEF ReloadApps, Relaunch, SoloInv, Named
<1>2. ~Pending(c)' /\ (Pending(c) <=> c \in reload \ Driver)
  BY <1>1 DEF Pending
<1>3. \A j \in Component : On(j, c) => j = c
  BY <1>1 DEF On, Named, JobsNamed, JobNamed, Job
<1>4. \A j \in Job : On(j, c)' <=> IF j \in reload \ Driver THEN j = c ELSE On(j, c)
  <2>1. \A j \in reload : /\ j \in Component
                         /\ Started("preconfig", j).pc = "preconfig"
                         /\ Started("preconfig", j).name = j
    BY <1>1, StartedType DEF TypeOK, PC, LaunchPC
  <2> SUFFICES ASSUME NEW j \in Job
               PROVE  On(j, c)' <=> IF j \in reload \ Driver THEN j = c ELSE On(j, c)
    BY DEF On, Active
  <2>2. CASE j \in reload \ Driver
    <3>1. job'[j] = Started("preconfig", j)
      BY <1>1, <2>2
    <3> QED  BY <2>1, <2>2, <3>1 DEF On, Active
  <2>3. CASE j \notin reload \ Driver
    <3>1. job'[j] = job[j]
      BY <1>1, <2>3
    <3> QED  BY <2>3, <3>1 DEF On, Active
  <2> QED  BY <2>2, <2>3
<1>5. CASE c \in reload \ Driver
  <2>1. ~Running(c)' /\ c \notin installed' /\ \A j \in Job : ~On(j, c)
    BY <1>1, <1>2, <1>5 DEF Solo, Running, swarm, books
  <2>2. \A j \in Job : On(j, c)' => j = c /\ job'[j].pc = "preconfig"
    BY <1>1, <1>4, <2>1 DEF Started, NoJob, Job
  <2> QED  BY <1>2, <2>1, <2>2
           DEF Solo, Knows, Booked, At, BuildPC, BuiltPC, GonePC, LaunchPC, UninstallPC
<1>6. CASE c \notin reload \ Driver
  <2>1. \A j \in Job : j \in reload \ Driver => ~On(j, c) /\ ~On(j, c)'
    BY <1>1, <1>3, <1>4, <1>6 DEF TypeOK
  <2>2. JobsSameFor(c)
    BY <1>1, <1>2, <2>1 DEF JobsSameFor
  <2>3. SameFor(c)
    BY <1>1 DEF SameFor, swarm, peers, books
  <2> QED  BY <1>1, <2>2, <2>3, SoloFrame
<1> QED  BY <1>5, <1>6

\* Every step keeps jobs alone with their components, unless they met.
LEMMA SoloNext ==
  ASSUME SoloInv, [Next]_vars
  PROVE  SoloInv'
<1>1. Named' /\ BootOK' /\ Named /\ BootOK
  BY NamedNext, BootNext DEF SoloInv
<1>2. SUFFICES ASSUME NEW c \in Component \ contended', phase' # "down"
               PROVE  Solo(c)'
  BY <1>1 DEF SoloInv
<1>3. CASE Boot
  <2>1. \A d \in Component : d \notin installed'
    BY <1>1, <1>3 DEF Boot, BootOK, books
  <2>2. \A j \in Job : On(j, c)' => j = c /\ job'[j].pc = "preconfig"
    BY <1>3 DEF Boot, On, Active, Started, NoJob
  <2>3. ~Running(c)' /\ ~Pending(c)'
    BY <1>3 DEF Boot, Running, Pending, Name
  <2> QED  BY <2>1, <2>2, <2>3
           DEF Solo, Knows, Booked, At, BuildPC, BuiltPC, GonePC, LaunchPC, UninstallPC
<1>4. CASE ReloadDrivers
  BY <1>2, <1>4, SoloReloadDrivers
<1>5. CASE ReloadApps
  BY <1>2, <1>5, SoloReloadApps
<1>6. CASE FinishReload \/ Quiet \/ UNCHANGED vars
  <2>1. /\ c \notin contended /\ phase # "down" /\ SameFor(c) /\ JobsSameFor(c)
        /\ failed' = failed
    BY <1>2, <1>6
       DEF FinishReload, Quiet, vars, boot, swarm, peers, books, SameFor, JobsSameFor, Pending
  <2>2. Solo(c)
    BY <2>1 DEF SoloInv
  <2> QED  BY <1>1, <2>1, <2>2, SoloFrame
<1>7. CASE Crash \/ \E j, k \in Job : ConcurrentMapWrites(j, k)
  BY <1>2, <1>7 DEF Crash, ConcurrentMapWrites, ProcessDies
<1>8. ASSUME NEW r \in Request, NEW d \in Component,
             InstallCommand(r, d) \/ UninstallCommand(r, d)
      PROVE  Solo(c)'
  BY <1>2, <1>8, SoloCommand
<1>9. ASSUME NEW j \in Job, Launch(j) \/ Uninstall(j)
      PROVE  Solo(c)'
  BY <1>2, <1>9, SoloJob
<1> QED
  BY <1>3, <1>4, <1>5, <1>6, <1>7, <1>8, <1>9 DEF Next
=============================================================================
