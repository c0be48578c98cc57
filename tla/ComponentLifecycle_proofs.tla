---------------------- MODULE ComponentLifecycle_proofs ----------------------
(***************************************************************************)
(* Proof that the variables of ComponentLifecycle keep their types, and     *)
(* that a goroutine stays on the component it was started for: the part of  *)
(* IInv on which all the others rest.                                       *)
(***************************************************************************)
EXTENDS ComponentInvariant, TLAPS

\* A goroutine that has not started is a job.
LEMMA NoJobType == NoJob \in JobRecord
BY DEF NoJob, JobRecord, PC

\* A goroutine that starts is a job, on its component.
LEMMA StartedType ==
  ASSUME NEW c \in Component, NEW l \in PC
  PROVE  /\ Started(l, c) \in JobRecord
         /\ Started(l, c).pc = l
         /\ Started(l, c).name = c
BY DEF Started, NoJob, JobRecord, PC

\* A goroutine that goes on keeps its locals.
LEMMA GotoFields ==
  ASSUME job \in [Job -> JobRecord], NEW j \in Job, NEW l \in PC, Goto(j, l)
  PROVE  /\ job' \in [Job -> JobRecord]
         /\ job'[j].pc = l
         /\ job'[j].name = job[j].name
         /\ job'[j].dns = job[j].dns
         /\ job'[j].victim = job[j].victim
         /\ job'[j].id = job[j].id
         /\ job'[j].listed = job[j].listed
         /\ \A k \in Job \ {j} : job'[k] = job[k]
BY DEF Goto, JobRecord

\* A goroutine that returns has no component.
LEMMA ReturnFields ==
  ASSUME job \in [Job -> JobRecord], NEW j \in Job, Return(j)
  PROVE  /\ job' \in [Job -> JobRecord]
         /\ job'[j].pc = "done"
         /\ job'[j].name = Nobody
         /\ \A k \in Job \ {j} : job'[k] = job[k]
BY DEF Return, JobRecord, NoJob, PC

\* A goroutine that learns a DNS server keeps its other locals.
LEMMA DnsFields ==
  ASSUME job \in [Job -> JobRecord], NEW j \in Job, NEW d \in BOOLEAN,
         job' = [job EXCEPT ![j].pc = "config", ![j].dns = d]
  PROVE  /\ job' \in [Job -> JobRecord]
         /\ job'[j].pc = "config"
         /\ job'[j].name = job[j].name
         /\ job'[j].dns = d
         /\ \A k \in Job \ {j} : job'[k] = job[k]
<1>1. "config" \in PC
  BY DEF PC, LaunchPC
<1> QED  BY <1>1 DEF JobRecord

\* A goroutine that lists services keeps its other locals.
LEMMA ListFields ==
  ASSUME job \in [Job -> JobRecord], NEW j \in Job, NEW l \in SUBSET ServiceRef,
         job' = [job EXCEPT ![j].pc = "dropsecrets", ![j].listed = l]
  PROVE  /\ job' \in [Job -> JobRecord]
         /\ job'[j].pc = "dropsecrets"
         /\ job'[j].name = job[j].name
         /\ job'[j].listed = l
         /\ \A k \in Job \ {j} : job'[k] = job[k]
<1>1. "dropsecrets" \in PC
  BY DEF PC, UninstallPC
<1>2. job'[j] = [job[j] EXCEPT !.pc = "dropsecrets", !.listed = l]
  OBVIOUS
<1>3. job'[j] \in JobRecord
  BY <1>1, <1>2 DEF JobRecord
<1>4. job'[j].pc = "dropsecrets" /\ job'[j].name = job[j].name /\ job'[j].listed = l
  BY <1>2 DEF JobRecord
<1>5. \A k \in Job \ {j} : job'[k] = job[k]
  OBVIOUS
<1>6. job' \in [Job -> JobRecord]
  BY <1>3
<1> QED  BY <1>4, <1>5, <1>6

\* Where PreConfig goes on.
LEMMA PreConfigJob ==
  ASSUME TypeOK, NEW j \in Job, PreConfig(j)
  PROVE  /\ job'[j].name = job[j].name
         /\ \/ net[job[j].name] = "none" /\ job'[j].pc = "netcreate"
            \/ /\ net[job[j].name] # "none" /\ job'[j].pc = "config"
               /\ job'[j].dns = (net[job[j].name] = "attached")
<1>1. CASE net[job[j].name] = "none"
  BY <1>1, GotoFields DEF PreConfig, TypeOK, PC, LaunchPC
<1>2. CASE net[job[j].name] # "none"
  <2> DEFINE d == (net[job[j].name] = "attached")
  <2>1. d \in BOOLEAN /\ job' = [job EXCEPT ![j].pc = "config", ![j].dns = d]
    BY <1>2 DEF PreConfig
  <2> HIDE DEF d
  <2>2. job'[j].pc = "config" /\ job'[j].name = job[j].name /\ job'[j].dns = d
    BY <2>1, DnsFields DEF TypeOK
  <2> QED  BY <1>2, <2>2 DEF d
<1> QED  BY <1>1, <1>2

\* Where PreConfig goes on when it has made the network.
LEMMA AttachJob ==
  ASSUME TypeOK, NEW j \in Job, AttachNetwork(j), job[j].name \in Component
  PROVE  /\ job'[j].name = job[j].name /\ job'[j].pc = "config"
         /\ \/ net'[job[j].name] = "attached" /\ job'[j].dns = TRUE
            \/ job[j].name \in failed' /\ net' = net
<1>1. CASE job' = [job EXCEPT ![j].pc = "config", ![j].dns = TRUE]
           /\ net' = [net EXCEPT ![job[j].name] = "attached"]
  <2>1. job'[j].pc = "config" /\ job'[j].name = job[j].name /\ job'[j].dns = TRUE
    BY <1>1, DnsFields DEF TypeOK
  <2> QED  BY <1>1, <2>1 DEF TypeOK
<1>2. CASE Goto(j, "config") /\ FailFor(job[j].name) /\ UNCHANGED net
  BY <1>2, GotoFields DEF TypeOK, FailFor, PC, LaunchPC
<1> QED  BY <1>1, <1>2 DEF AttachNetwork

\* A call of LaunchFromSLA changes the locals of its own goroutine only.
LEMMA LaunchJob ==
  ASSUME TypeOK, NEW j \in Job, Launch(j)
  PROVE  /\ job[j].pc \in LaunchPC
         /\ job' \in [Job -> JobRecord]
         /\ \A k \in Job \ {j} : job'[k] = job[k]
         /\ \/ job'[j].pc = "done"
            \/ /\ job'[j].pc \in LaunchPC /\ job'[j].name = job[j].name
               /\ job'[j].pc = "save" => j \in Request
         /\ UNCHANGED <<phase, reload, contended>>
<1> USE DEF TypeOK
<1>1. CASE PreConfig(j)
  BY <1>1, GotoFields DEF PreConfig, At, boot, LaunchPC, PC, JobRecord
<1>2. CASE CreateNetwork(j)
  BY <1>2, GotoFields DEF CreateNetwork, At, boot, LaunchPC, PC
<1>3. CASE AttachNetwork(j)
  BY <1>3, GotoFields DEF AttachNetwork, At, boot, LaunchPC, PC, JobRecord
<1>4. CASE Configure(j)
  BY <1>4, GotoFields, ReturnFields DEF Configure, At, boot, LaunchPC, PC
<1>5. CASE GenorateSecrets(j)
  BY <1>5, GotoFields DEF GenorateSecrets, RemoveSecret, CreateSecret, RegisterComponent, At, boot, LaunchPC, PC
<1>6. CASE ConnectEndpoints(j)
  BY <1>6, GotoFields DEF ConnectEndpoints, At, boot, LaunchPC, PC
<1>7. CASE CheckStore(j)
  BY <1>7, GotoFields DEF CheckStore, At, boot, LaunchPC, PC
<1>8. CASE CreateStore(j)
  BY <1>8, GotoFields DEF CreateStore, At, boot, LaunchPC, PC
<1>9. CASE AddPermissions(j)
  BY <1>9, GotoFields DEF AddPermissions, At, boot, LaunchPC, PC
<1>10. CASE CreateService(j)
  BY <1>10, GotoFields, ReturnFields DEF CreateService, At, Saves, boot, LaunchPC, PC
<1>11. CASE SaveSLA(j)
  BY <1>11, GotoFields DEF SaveSLA, At, boot, LaunchPC, PC
<1>12. CASE TrackInstalled(j)
  BY <1>12, ReturnFields DEF TrackInstalled, At, boot, LaunchPC, PC
<1> QED
  BY <1>1, <1>2, <1>3, <1>4, <1>5, <1>6, <1>7, <1>8, <1>9, <1>10, <1>11, <1>12 DEF Launch

\* The service that Uninstall takes to be the one to remove.
LEMMA FindJob ==
  ASSUME TypeOK, NEW j \in Job, FindService(j), job[j].name \in Component,
         Listed(job[j].name) # {}
  PROVE  LET c == job[j].name IN
         \E n \in Listed(c) :
           /\ c \in Listed(c) => n = c
           /\ job' \in [Job -> JobRecord]
           /\ \A k \in Job \ {j} : job'[k] = job[k]
           /\ job'[j].pc = "remove" /\ job'[j].name = c
           /\ job'[j].victim = n /\ job'[j].id = service[n]
           /\ n \in BeginsWith[c] /\ service[n] # Nobody
<1> DEFINE c == job[j].name
<1>1. PICK n \in Listed(c) :
        /\ c \in Listed(c) => n = c
        /\ job' = [job EXCEPT ![j].pc = "remove", ![j].victim = n, ![j].id = service[n]]
  BY DEF FindService
<1>2. n \in BeginsWith[c] /\ n \in Name /\ service[n] \in Job /\ service[n] # Nobody
  BY NamesAssumption DEF Listed, TypeOK
<1>3. "remove" \in PC /\ job[j] \in JobRecord
  BY DEF PC, UninstallPC, TypeOK
<1>4. job'[j] = [job[j] EXCEPT !.pc = "remove", !.victim = n, !.id = service[n]]
  BY <1>1 DEF TypeOK
<1>5. \A k \in Job \ {j} : job'[k] = job[k]
  BY <1>1 DEF TypeOK
<1>6. job'[j] \in JobRecord
  BY <1>2, <1>3, <1>4 DEF JobRecord
<1>7. job' \in [Job -> JobRecord]
  BY <1>1, <1>6 DEF TypeOK
<1>8. /\ job'[j].pc = "remove" /\ job'[j].name = c
      /\ job'[j].victim = n /\ job'[j].id = service[n]
  BY <1>3, <1>4 DEF JobRecord
<1> QED  BY <1>1, <1>2, <1>5, <1>7, <1>8

\* A call of Uninstall changes the locals of its own goroutine only.
LEMMA UninstallJob ==
  ASSUME TypeOK, NEW j \in Job, Uninstall(j), job[j].name \in Component
  PROVE  /\ job[j].pc \in UninstallPC
         /\ job' \in [Job -> JobRecord]
         /\ \A k \in Job \ {j} : job'[k] = job[k]
         /\ \/ job'[j].pc = "done"
            \/ /\ job'[j].pc \in UninstallPC /\ job'[j].name = job[j].name
               /\ job'[j].pc = "remove" =>
                    /\ job'[j].victim \in BeginsWith[job[j].name]
                    /\ job'[j].id # Nobody
               /\ job'[j].pc = "dropsecrets" =>
                    job'[j].listed \subseteq BeginsWith[job[j].name] \X Job
         /\ UNCHANGED <<phase, reload>>
         /\ contended \subseteq contended'
<1> USE DEF TypeOK
<1>1. CASE FindService(j)
  <2>1. CASE Listed(job[j].name) = {}
    BY <1>1, <2>1, ReturnFields DEF FindService, At, boot, UninstallPC, PC
  <2>2. CASE Listed(job[j].name) # {}
    <3>1. job[j].pc \in UninstallPC /\ UNCHANGED <<phase, reload, contended>>
      BY <1>1 DEF FindService, At, boot, UninstallPC
    <3> QED  BY <1>1, <2>2, <3>1, FindJob DEF UninstallPC
  <2> QED  BY <2>1, <2>2
<1>2. CASE RemoveService(j)
  BY <1>2, GotoFields DEF RemoveService, At, boot, UninstallPC, PC
<1>3. CASE ListSecrets(j)
  <2> DEFINE c == job[j].name
             l == {<<n, service[n]>> : n \in Listed(c)}
  <2>1. l \subseteq BeginsWith[c] \X Job /\ l \in SUBSET ServiceRef
    BY NamesAssumption DEF Listed, ServiceRef
  <2>2. job' = [job EXCEPT ![j].pc = "dropsecrets", ![j].listed = l]
    BY <1>3 DEF ListSecrets
  <2> HIDE DEF l
  <2>3. job[j].pc \in UninstallPC /\ UNCHANGED <<phase, reload, contended>>
    BY <1>3 DEF ListSecrets, At, boot, UninstallPC
  <2>4. /\ job' \in [Job -> JobRecord]
        /\ job'[j].pc = "dropsecrets" /\ job'[j].name = c /\ job'[j].listed = l
        /\ \A k \in Job \ {j} : job'[k] = job[k]
    BY <2>1, <2>2, ListFields
  <2> QED  BY <2>1, <2>3, <2>4 DEF UninstallPC
<1>4. CASE DropSecrets(j)
  BY <1>4, GotoFields DEF DropSecrets, At, boot, UninstallPC, PC
<1>5. CASE DisconnectEndpoints(j)
  BY <1>5, GotoFields DEF DisconnectEndpoints, At, boot, UninstallPC, PC
<1>6. CASE DeleteSLA(j)
  BY <1>6, GotoFields DEF DeleteSLA, At, boot, UninstallPC, PC
<1>7. CASE UntrackInstalled(j)
  BY <1>7, ReturnFields DEF UntrackInstalled, At, boot, UninstallPC, PC
<1> QED
  BY <1>1, <1>2, <1>3, <1>4, <1>5, <1>6, <1>7 DEF Uninstall

\* LaunchFromSLA keeps the types.
LEMMA LaunchType ==
  ASSUME TypeOK, NEW j \in Job, job[j].name \in Component, Launch(j)
  PROVE  TypeOK'
<1> USE DEF TypeOK, swarm, peers, books, boot
<1>1. job' \in [Job -> JobRecord] /\ UNCHANGED <<phase, reload, contended>>
  BY LaunchJob
<1>2. StoreOf[job[j].name] \in Store
  BY NamesAssumption
<1>3. CASE PreConfig(j)
  BY <1>1, <1>2, <1>3, NamesAssumption DEF PreConfig
<1>4. CASE CreateNetwork(j)
  BY <1>1, <1>2, <1>4, NamesAssumption DEF CreateNetwork, FailFor
<1>5. CASE AttachNetwork(j)
  BY <1>1, <1>2, <1>5, NamesAssumption DEF AttachNetwork, FailFor
<1>6. CASE Configure(j)
  BY <1>1, <1>2, <1>6, NamesAssumption DEF Configure, FailFor
<1>7. CASE GenorateSecrets(j)
  BY <1>1, <1>2, <1>7, NamesAssumption DEF GenorateSecrets, RemoveSecret, CreateSecret, RegisterComponent, FailFor
<1>8. CASE ConnectEndpoints(j)
  BY <1>1, <1>2, <1>8, NamesAssumption DEF ConnectEndpoints, FailFor
<1>9. CASE CheckStore(j)
  BY <1>1, <1>2, <1>9, NamesAssumption DEF CheckStore
<1>10. CASE CreateStore(j)
  BY <1>1, <1>2, <1>10, NamesAssumption DEF CreateStore, FailFor
<1>11. CASE AddPermissions(j)
  BY <1>1, <1>2, <1>11, NamesAssumption DEF AddPermissions, FailFor, SlaStores
<1>12. CASE CreateService(j)
  BY <1>1, <1>2, <1>12, NamesAssumption DEF CreateService, FailFor
<1>13. CASE SaveSLA(j)
  BY <1>1, <1>2, <1>13, NamesAssumption DEF SaveSLA, FailFor
<1>14. CASE TrackInstalled(j)
  BY <1>1, <1>2, <1>14, NamesAssumption DEF TrackInstalled
<1> QED
  BY <1>3, <1>4, <1>5, <1>6, <1>7, <1>8, <1>9, <1>10, <1>11, <1>12, <1>13, <1>14 DEF Launch

\* Uninstall keeps the types.
LEMMA UninstallType ==
  ASSUME TypeOK, NEW j \in Job, job[j].name \in Component, Uninstall(j)
  PROVE  TypeOK'
<1> USE DEF TypeOK, swarm, peers, books, boot
<1>1. job' \in [Job -> JobRecord] /\ UNCHANGED <<phase, reload>>
  BY UninstallJob
<1>2. StoreOf[job[j].name] \in Store
  BY NamesAssumption
<1>3. CASE FindService(j)
  BY <1>1, <1>2, <1>3, NamesAssumption DEF FindService
<1>4. CASE RemoveService(j)
  <2>1. contended' \subseteq Component
    BY <1>4 DEF RemoveService, Owners
  <2>2. service' \in [Name -> Job \cup {Nobody}] /\ failed' \subseteq Component
    BY <1>4, NamesAssumption DEF RemoveService, FailFor
  <2> QED  BY <1>1, <1>4, <2>1, <2>2 DEF RemoveService
<1>5. CASE ListSecrets(j)
  BY <1>1, <1>2, <1>5, NamesAssumption DEF ListSecrets
<1>6. CASE DropSecrets(j)
  BY <1>1, <1>2, <1>6, NamesAssumption DEF DropSecrets
<1>7. CASE DisconnectEndpoints(j)
  BY <1>1, <1>2, <1>7, NamesAssumption DEF DisconnectEndpoints, FailFor
<1>8. CASE DeleteSLA(j)
  BY <1>1, <1>2, <1>8, NamesAssumption DEF DeleteSLA, FailFor
<1>9. CASE UntrackInstalled(j)
  BY <1>1, <1>2, <1>9, NamesAssumption DEF UntrackInstalled
<1> QED
  BY <1>3, <1>4, <1>5, <1>6, <1>7, <1>8, <1>9 DEF Uninstall

-----------------------------------------------------------------------------
(* Types and what jobs are about: TypeOK /\ JobsNamed is inductive. *)

Named == TypeOK /\ JobsNamed

\* A goroutine at work is in one of the two handlers.
LEMMA ActiveJobs ==
  ASSUME TypeOK, NEW j \in Job
  PROVE  Active(j) <=> job[j].pc \in LaunchPC \cup UninstallPC
BY DEF TypeOK, JobRecord, PC, Active, LaunchPC, UninstallPC

\* Who makes a call of LaunchFromSLA, and on what.
LEMMA LaunchWho ==
  ASSUME Named, NEW j \in Job, Launch(j)
  PROVE  /\ job[j].pc \in LaunchPC /\ Active(j)
         /\ JobNamed(j) /\ job[j].name \in Component
<1>1. TypeOK /\ JobsNamed
  BY DEF Named
<1>2. job[j].pc \in LaunchPC
  BY <1>1, LaunchJob
<1>3. Active(j)
  BY <1>1, <1>2, ActiveJobs
<1> QED  BY <1>1, <1>2, <1>3 DEF JobsNamed, JobNamed

\* Who makes a call of Uninstall, and on what: API commands only.
LEMMA UninstallWho ==
  ASSUME Named, NEW j \in Job, Uninstall(j)
  PROVE  /\ job[j].pc \in UninstallPC /\ Active(j)
         /\ JobNamed(j) /\ job[j].name \in Component
         /\ j \in Request /\ j \notin Component
<1>1. TypeOK /\ JobsNamed
  BY DEF Named
<1>2. job[j].pc \in UninstallPC
  BY DEF Uninstall, At, UninstallPC, FindService, RemoveService, ListSecrets,
         DropSecrets, DisconnectEndpoints, DeleteSLA, UntrackInstalled
<1>3. Active(j)
  BY <1>1, <1>2, ActiveJobs
<1> QED  BY <1>1, <1>2, <1>3 DEF JobsNamed, JobNamed, LaunchPC, UninstallPC, Job

\* A call of LaunchFromSLA keeps jobs on components they were started for.
LEMMA NamedLaunch ==
  ASSUME Named, NEW j \in Job, Launch(j)
  PROVE  Named'
<1>0. TypeOK /\ JobsNamed
  BY DEF Named
<1>1. job[j].pc \in LaunchPC /\ Active(j)
  BY LaunchWho
<1>2. job[j].name \in Component
  BY LaunchWho
<1>3. /\ job' \in [Job -> JobRecord]
      /\ \A k \in Job \ {j} : job'[k] = job[k]
      /\ \/ job'[j].pc = "done"
         \/ /\ job'[j].pc \in LaunchPC /\ job'[j].name = job[j].name
            /\ job'[j].pc = "save" => j \in Request
      /\ UNCHANGED <<phase, reload, contended>>
  BY <1>0, LaunchJob
<1>4. TypeOK'
  BY <1>0, <1>2, LaunchType
<1>5. JobsNamed'
  <2> SUFFICES ASSUME NEW k \in Job, Active(k)'
               PROVE  JobNamed(k)'
    BY DEF JobsNamed
  <2>1. CASE k = j
    BY <2>1, <1>0, <1>1, <1>3, NamesAssumption
       DEF JobsNamed, JobNamed, At, Active, LaunchPC
  <2>2. CASE k # j
    BY <2>2, <1>0, <1>3 DEF JobsNamed, JobNamed, At, Active
  <2> QED  BY <2>1, <2>2
<1> QED  BY <1>4, <1>5 DEF Named

\* A call of Uninstall keeps jobs on components they were started for.
LEMMA NamedUninstall ==
  ASSUME Named, NEW j \in Job, Uninstall(j)
  PROVE  Named'
<1>1. TypeOK /\ JobsNamed
  BY DEF Named
<1>2. job[j].pc \in UninstallPC
  BY UninstallWho
<1>3. Active(j)
  BY UninstallWho
<1>4. job[j].name \in Component /\ j \notin Component
  BY UninstallWho
<1>5. TypeOK'
  BY <1>1, <1>4, UninstallType
<1>6. JobsNamed'
  <2> SUFFICES ASSUME NEW k \in Job, Active(k)'
               PROVE  JobNamed(k)'
    BY DEF JobsNamed
  <2>1. /\ job' \in [Job -> JobRecord]
        /\ \A i \in Job \ {j} : job'[i] = job[i]
        /\ \/ job'[j].pc = "done"
           \/ /\ job'[j].pc \in UninstallPC /\ job'[j].name = job[j].name
              /\ job'[j].pc = "remove" =>
                   /\ job'[j].victim \in BeginsWith[job[j].name]
                   /\ job'[j].id # Nobody
              /\ job'[j].pc = "dropsecrets" =>
                   job'[j].listed \subseteq BeginsWith[job[j].name] \X Job
        /\ UNCHANGED <<phase, reload>>
    BY <1>1, <1>4, UninstallJob
  <2>2. CASE k = j
    <3>1. phase' # "down"
      BY <1>1, <1>3, <2>1 DEF JobsNamed, JobNamed
    <3>2. job'[j].pc \in UninstallPC /\ job'[j].name = job[j].name
      BY <2>1, <2>2 DEF Active
    <3> QED  BY <2>1, <2>2, <3>1, <3>2, <1>4 DEF JobNamed, At, LaunchPC, UninstallPC
  <2>3. CASE k # j
    BY <1>1, <2>1, <2>3 DEF JobsNamed, JobNamed, At, Active
  <2> QED  BY <2>2, <2>3
<1> QED  BY <1>5, <1>6 DEF Named

\* A command starts a goroutine on its component.
LEMMA NamedCommand ==
  ASSUME Named, NEW r \in Request, NEW c \in Component,
         InstallCommand(r, c) \/ UninstallCommand(r, c)
  PROVE  Named'
<1>1. TypeOK /\ JobsNamed
  BY DEF Named
<1>2. r \in Job /\ r \notin Component
  BY NamesAssumption DEF Job
<1>3. PICK l \in {"preconfig", "find"} :
        /\ job' = [job EXCEPT ![r] = Started(l, c)]
        /\ l = "preconfig" => c \notin Builtin
  BY DEF InstallCommand, UninstallCommand
<1>4. l \in PC /\ l \in LaunchPC \cup UninstallPC
  BY DEF PC, LaunchPC, UninstallPC
<1>5. Started(l, c) \in JobRecord /\ Started(l, c).pc = l /\ Started(l, c).name = c
  BY <1>4, StartedType
<1>6. /\ phase # "down"
      /\ UNCHANGED <<phase, reload, swarm, peers, books, failed>>
      /\ contended' \subseteq Component
  BY <1>1 DEF InstallCommand, UninstallCommand, boot, TypeOK
<1>7. TypeOK'
  BY <1>1, <1>2, <1>3, <1>5, <1>6 DEF TypeOK, swarm, peers, books
<1>8. JobsNamed'
  <2> SUFFICES ASSUME NEW k \in Job, Active(k)'
               PROVE  JobNamed(k)'
    BY DEF JobsNamed
  <2>1. CASE k = r
    <3>1. job'[r].pc = l /\ job'[r].name = c
      BY <1>1, <1>2, <1>3, <1>5 DEF TypeOK
    <3> QED  BY <2>1, <3>1, <1>2, <1>3, <1>6 DEF JobNamed, At, LaunchPC
  <2>2. CASE k # r
    <3>1. job'[k] = job[k]
      BY <1>1, <1>2, <1>3, <2>2 DEF TypeOK
    <3> QED  BY <1>1, <1>6, <3>1 DEF JobsNamed, JobNamed, At, Active
  <2> QED  BY <2>1, <2>2
<1> QED  BY <1>7, <1>8 DEF Named

\* A process that has just died, or not yet started, has no job.
LEMMA NamedDeath ==
  ASSUME Named, ProcessDies
  PROVE  Named'
<1>1. \A j \in Job : job'[j] = NoJob /\ ~Active(j)'
  BY DEF ProcessDies, Active, NoJob
<1>2. TypeOK'
  BY NoJobType DEF Named, TypeOK, ProcessDies, swarm, peers
<1> QED  BY <1>1, <1>2 DEF Named, JobsNamed

\* Boot, ReloadDrivers and ReloadApps start the jobs of some components and
\* leave the others alone, or at Boot idle.
LEMMA NamedStart ==
  ASSUME Named, NEW some \in SUBSET Component,
         job' = [j \in Job |-> IF j \in some THEN Started("preconfig", j) ELSE job[j]],
         phase' \in {"serving", "drivers", "apps"},
         \A j \in Component : Active(j) => j \in Builtin \/ (phase' # "serving" /\ j \in reload'),
         \A j \in some : j \in Builtin \/ (phase' # "serving" /\ j \in reload')
  PROVE  job' \in [Job -> JobRecord] /\ JobsNamed'
<1>1. TypeOK /\ JobsNamed
  BY DEF Named
<1>2. "preconfig" \in PC /\ "preconfig" \in LaunchPC
  BY DEF PC, LaunchPC
<1>3. \A j \in some : /\ Started("preconfig", j) \in JobRecord
                       /\ Started("preconfig", j).pc = "preconfig"
                       /\ Started("preconfig", j).name = j
  BY <1>2, StartedType
<1>4. job' \in [Job -> JobRecord]
  BY <1>1, <1>3 DEF TypeOK
<1>5. ASSUME NEW k \in Job, Active(k)'
      PROVE  JobNamed(k)'
  <2>1. CASE k \in some
    <3>1. job'[k].pc = "preconfig" /\ job'[k].name = k
      BY <1>3, <2>1
    <3> QED  BY <1>2, <2>1, <3>1, NamesAssumption DEF JobNamed, At
  <2>2. CASE k \notin some
    <3>1. job'[k] = job[k]
      BY <2>2
    <3> QED  BY <1>1, <1>5, <3>1 DEF JobsNamed, JobNamed, At, Active
  <2> QED  BY <2>1, <2>2
<1> QED  BY <1>4, <1>5 DEF JobsNamed

\* Boot starts the goroutines of the builtin components only.
LEMMA NamedBoot ==
  ASSUME Named, Boot
  PROVE  Named'
<1> DEFINE idle == [j \in Job |-> NoJob]
<1>1. TypeOK /\ JobsNamed
  BY DEF Named
<1>2. "preconfig" \in PC /\ "preconfig" \in LaunchPC
  BY DEF PC, LaunchPC
<1>3. \A j \in Builtin : /\ Started("preconfig", j) \in JobRecord
                          /\ Started("preconfig", j).pc = "preconfig"
                          /\ Started("preconfig", j).name = j
  BY <1>2, StartedType, NamesAssumption
<1>4. job' \in [Job -> JobRecord]
  BY <1>3, NoJobType DEF Boot
<1>5. TypeOK'
  BY <1>1, <1>4 DEF TypeOK, Boot, books
<1>6. ASSUME NEW k \in Job, Active(k)'
      PROVE  JobNamed(k)'
  <2>1. k \in Builtin /\ job'[k] = Started("preconfig", k)
    BY <1>6 DEF Boot, Active, NoJob
  <2>2. job'[k].pc = "preconfig" /\ job'[k].name = k
    BY <2>1, <1>3
  <2> QED  BY <1>2, <2>1, <2>2, NamesAssumption DEF JobNamed, At, Boot
<1> QED  BY <1>5, <1>6 DEF Named, JobsNamed

\* reloadApps starts goroutines for what it read only.
LEMMA NamedReload ==
  ASSUME Named, ReloadDrivers \/ ReloadApps
  PROVE  Named'
<1>1. TypeOK /\ JobsNamed
  BY DEF Named
<1>2. \A j \in Component : Active(j) => j \in Builtin \/ (phase # "serving" /\ j \in reload)
  BY <1>1 DEF JobsNamed, JobNamed, Job
<1>3. CASE ReloadDrivers
  <2>1. reload' \cap Driver \in SUBSET Component /\ reload' \subseteq Component
    BY <1>1, <1>3 DEF ReloadDrivers, TypeOK
  <2>2. job' \in [Job -> JobRecord] /\ JobsNamed'
    BY <1>2, <1>3, <2>1, NamedStart DEF ReloadDrivers, Relaunch
  <2>3. TypeOK'
    BY <1>1, <1>3, <2>1, <2>2 DEF TypeOK, ReloadDrivers, swarm, peers, books
  <2> QED  BY <2>2, <2>3 DEF Named
<1>4. CASE ReloadApps
  <2>1. reload \ Driver \in SUBSET Component
    BY <1>1 DEF TypeOK
  <2>2. job' \in [Job -> JobRecord] /\ JobsNamed'
    BY <1>2, <1>4, <2>1, NamedStart DEF ReloadApps, Relaunch
  <2>3. TypeOK'
    BY <1>1, <1>4, <2>2 DEF TypeOK, ReloadApps, swarm, peers, books
  <2> QED  BY <2>2, <2>3 DEF Named
<1> QED  BY <1>3, <1>4

\* Steps that leave phase and goroutines alone.
LEMMA NamedUnchanged ==
  ASSUME Named, FinishReload \/ UNCHANGED vars
  PROVE  Named'
BY DEF Named, TypeOK, JobsNamed, JobNamed, Active, At, FinishReload,
       vars, boot, swarm, peers, books

\* Every step keeps jobs on components they were started for.
LEMMA NamedNext ==
  ASSUME Named, [Next]_vars
  PROVE  Named'
<1>1. CASE Boot
  BY <1>1, NamedBoot
<1>2. CASE ReloadDrivers \/ ReloadApps
  BY <1>2, NamedReload
<1>3. CASE FinishReload \/ Quiet \/ UNCHANGED vars
  BY <1>3, NamedUnchanged DEF Quiet
<1>4. CASE Crash
  BY <1>4, NamedDeath DEF Crash
<1>5. ASSUME NEW j \in Job, NEW k \in Job, ConcurrentMapWrites(j, k)
      PROVE  Named'
  BY <1>5, NamedDeath DEF ConcurrentMapWrites
<1>6. ASSUME NEW r \in Request, NEW c \in Component,
             InstallCommand(r, c) \/ UninstallCommand(r, c)
      PROVE  Named'
  BY <1>6, NamedCommand
<1>7. ASSUME NEW j \in Job, Launch(j) \/ Uninstall(j)
      PROVE  Named'
  BY <1>7, NamedLaunch, NamedUninstall
<1> QED
  BY <1>1, <1>2, <1>3, <1>4, <1>5, <1>6, <1>7 DEF Next

\* No goroutine runs before the first boot.
LEMMA NamedInit ==
  ASSUME Init
  PROVE  Named
BY NoJobType DEF Init, Named, TypeOK, JobsNamed, Active, NoJob

\* Every variable keeps its type, and every job at work has a component to work
\* on: the API commands of Start's select loop and the reloads never start a
\* goroutine without a name.
THEOREM TypeCorrect == Spec => []TypeOK
<1>1. Init => Named
  BY NamedInit
<1>2. Named /\ [Next]_vars => Named'
  BY NamedNext
<1>3. Named => TypeOK
  BY DEF Named
<1> QED  BY <1>1, <1>2, <1>3, PTL DEF Spec
=============================================================================
