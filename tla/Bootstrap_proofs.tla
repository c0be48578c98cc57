--------------------------- MODULE Bootstrap_proofs ---------------------------
(***************************************************************************)
(* Proofs that the safety properties of Bootstrap hold for any addresses,   *)
(* keys and failing calls, and any number of deaths.                        *)
(***************************************************************************)
EXTENDS Bootstrap, FiniteSetTheorems, TLAPS

-----------------------------------------------------------------------------
(* The invariant *)

\* Steps that need the core-network, and those with an old life cleaned up.
Networked == {"relay", "secrets", "public", "private", "update", "rebooting"} \cup After
Cleaned == {"drop", "network", "relay", "secrets", "public", "private", "update",
            "rebooting"}

\* A core-network has its relay, but for a death in between.
NetworkHeld ==
  /\ pc \in Networked => coreNetwork # None
  /\ coreNetwork # None /\ ~At("relay") /\ "relay" \notin spoilt => relay
  /\ pc \in After => resolver = coreNetwork \/ outlived

\* The two keys are made together, the public one first, and never go.
KeysHeld ==
  /\ "arbiter" \in others => secret["ZMQ_SECRET_KEY"] # None
  /\ "keys" \notin spoilt =>
       /\ secret["ZMQ_SECRET_KEY"] # None =>
            secret["ZMQ_PUBLIC_KEY"] = secret["ZMQ_SECRET_KEY"]
       /\ At("private") => secret["ZMQ_PUBLIC_KEY"] # None
       /\ secret["ZMQ_PUBLIC_KEY"] # None /\ secret["ZMQ_SECRET_KEY"] = None =>
            At("private") /\ pair = secret["ZMQ_PUBLIC_KEY"]

\* What there is of old services when the clean-up is over.
CleanHeld ==
  /\ exporting => pc \in {"store", "serve", "serving"}
  /\ bad => pc \in Cleaned \cup After \cup {"remove"}
  /\ pc = "remove" => bad /\ (others \subseteq listed \/ "remove" \in spoilt)
  /\ pc \in Cleaned =>
       /\ bad => others = {} \/ "remove" \in spoilt
       /\ ~bad => ~BadRestart

\* The CA is made when its public part is whole.
FilesHeld ==
  /\ writing => pc \in File
  /\ files["ca"] # "absent" \/ At("ca") => files["pub"] = "whole"
  /\ At("pub") /\ writing => files["ca"] = "absent"

\* The environment is that of the service, and an old store is cleaned up.
Kept == spoilt \cap {"alone", "remove"} = {}
StoreHeld ==
  /\ outlived => pc \in After
  /\ own = "gone" => pc = "off" \/ bad
  /\ pc # "off" /\ own \in Address => env = own \/ outlived \/ At("rebooting")
  /\ pc \in {"off", "check"} \cup File /\ ~labelled /\ Cardinality(others) = 1 =>
       "alone" \in spoilt
  /\ pc \in Cleaned \cup {"arbiter", "await", "store"} /\ Kept => CMStore \notin others
  /\ pc \in {"serve", "serving"} /\ Kept /\ own \in Address => storeDNS = own \/ outlived

BootInv == TypeOK /\ NetworkHeld /\ KeysHeld /\ CleanHeld /\ FilesHeld /\ StoreHeld

-----------------------------------------------------------------------------
(* Operators *)

\* A new pair is a pair.
LEMMA NewPairType ==
  ASSUME None \in KeysInUse
  PROVE  NewPair \in Pair
<1>1. \E p \in Pair : p \notin KeysInUse
  BY BootstrapAssumption DEF KeysInUse
<1> QED  BY <1>1 DEF NewPair

\* A key is kept, or becomes the one given, or could not be made.
LEMMA KeyStep ==
  ASSUME TypeOK, NEW n \in Secret, NEW key \in Pair \cup {None}, NEW next,
         CreateKey(n, key, next)
  PROVE  /\ pc' = next
         /\ secret' \in [Secret -> Pair \cup {"file", None}]
         /\ spoilt' \subseteq Wound /\ spoilt \subseteq spoilt'
         /\ \A m \in Secret \ {n} : secret'[m] = secret[m]
         /\ secret[n] # None => secret'[n] = secret[n]
         /\ secret[n] = None => \/ secret'[n] = key /\ spoilt' = spoilt
                                \/ "keys" \in spoilt'
BY DEF TypeOK, CreateKey, Goto, Wound

\* CreatePublicKey makes a pair when there is not one of each.
LEMMA PublicStep ==
  ASSUME TypeOK, CreatePublicKey
  PROVE  /\ pc = "public" /\ pc' = "private"
         /\ pair' \in Pair \cup {None}
         /\ secret' \in [Secret -> Pair \cup {"file", None}]
         /\ spoilt' \subseteq Wound /\ spoilt \subseteq spoilt'
         /\ \A m \in Secret \ {"ZMQ_PUBLIC_KEY"} : secret'[m] = secret[m]
         /\ secret["ZMQ_PUBLIC_KEY"] # None =>
              secret'["ZMQ_PUBLIC_KEY"] = secret["ZMQ_PUBLIC_KEY"]
         /\ secret["ZMQ_PUBLIC_KEY"] = None =>
              \/ secret'["ZMQ_PUBLIC_KEY"] = pair' /\ pair' \in Pair
              \/ "keys" \in spoilt'
<1>1. pair' \in Pair \cup {None} /\ (None \in KeysInUse => pair' \in Pair)
  BY NewPairType DEF CreatePublicKey
<1>2. PICK key \in Pair \cup {None} : key = pair'
  BY <1>1
<1>3. CreateKey("ZMQ_PUBLIC_KEY", key, "private")
  BY <1>2 DEF CreatePublicKey, CreateKey
<1>4. "ZMQ_PUBLIC_KEY" \in Secret /\ pc = "public"
  BY DEF Secret, CreatePublicKey, At
<1>5. secret["ZMQ_PUBLIC_KEY"] = None => None \in KeysInUse
  BY DEF KeysInUse
<1> QED  BY <1>1, <1>2, <1>3, <1>4, <1>5, KeyStep

\* CreateSecretKey gives the other half.
LEMMA PrivateStep ==
  ASSUME TypeOK, CreateSecretKey
  PROVE  /\ pc = "private" /\ pc' = "update" /\ pair' = None
         /\ secret' \in [Secret -> Pair \cup {"file", None}]
         /\ spoilt' \subseteq Wound /\ spoilt \subseteq spoilt'
         /\ \A m \in Secret \ {"ZMQ_SECRET_KEY"} : secret'[m] = secret[m]
         /\ secret["ZMQ_SECRET_KEY"] # None =>
              secret'["ZMQ_SECRET_KEY"] = secret["ZMQ_SECRET_KEY"]
         /\ secret["ZMQ_SECRET_KEY"] = None =>
              \/ secret'["ZMQ_SECRET_KEY"] = pair
              \/ "keys" \in spoilt'
<1>1. PICK key \in Pair \cup {None} : key = pair
  BY DEF TypeOK
<1>2. CreateKey("ZMQ_SECRET_KEY", key, "update")
  BY <1>1 DEF CreateSecretKey, CreateKey
<1>3. "ZMQ_SECRET_KEY" \in Secret /\ pc = "private" /\ pair' = None
  BY DEF Secret, CreateSecretKey, At
<1> QED  BY <1>1, <1>2, <1>3, KeyStep

-----------------------------------------------------------------------------
(* Types *)

\* A life that ends leaves values of the right types.
LEMMA TypeDies ==
  ASSUME TypeOK, NEW reboot \in BOOLEAN, Dies(reboot)
  PROVE  TypeOK'
<1>1. Wounds(reboot) \subseteq Wound
  BY DEF Wounds, Wound
<1> QED  BY <1>1 DEF TypeOK, Dies, world, Wound

\* Where ContainerManager.Start and the surroundings end a life.
Deaths ==
  \/ GenCertPanics \/ UpdateRefused \/ Rebooted \/ RebootedLate \/ ArbiterRefused
  \/ ArbiterLate \/ ExportRefused \/ ServeRefused \/ TaskStops \/ Crash \/ HostReboots

\* Each of them resets what the process knew.
LEMMA DeathsDie ==
  ASSUME Deaths
  PROVE  \E reboot \in BOOLEAN : Dies(reboot)
BY DEF Deaths, GenCertPanics, UpdateRefused, Rebooted, RebootedLate, ArbiterRefused,
       ArbiterLate, ExportRefused, ServeRefused, TaskStops, Crash, HostReboots, Fatal

\* Each step keeps the types.
LEMMA TypeNext ==
  ASSUME BootInv, [Next]_vars
  PROVE  TypeOK'
<1>1. TypeOK
  BY DEF BootInv
<1> USE <1>1 DEF TypeOK, locals, docker, world, Before, After
<1>2. ASSUME NEW f \in File, Generate(f)
      PROVE  TypeOK'
  <2>1. NextStep(f) \in File \cup {"check"}
    BY DEF NextStep, File
  <2>2. pc' \in Before /\ writing' \in BOOLEAN
    BY <1>2, <2>1 DEF Generate, Goto, At
  <2>3. files' \in [File -> {"absent", "empty", "whole"}]
    BY <1>2 DEF Generate
  <2> QED  BY <1>2, <2>2, <2>3 DEF Generate
<1>3. CASE Deaths
  BY <1>3, DeathsDie, TypeDies
<1>4. CASE CheckForAndFixBadRestarts
  <2>1. listed' \subseteq Service \cup {Self} /\ bad' \in BOOLEAN
    BY <1>4 DEF CheckForAndFixBadRestarts, Services
  <2>2. pc' \in {"remove", "network"}
    BY <1>4 DEF CheckForAndFixBadRestarts, Goto
  <2>3. UNCHANGED <<writing, pair, resolver, env, outlived, exporting, files, docker,
                    world, spoilt>>
    BY <1>4, Zenon DEF CheckForAndFixBadRestarts
  <2> QED  BY <2>1, <2>2, <2>3
<1>5. CASE RemoveCoreNetwork \/ StartCoreNetwork \/ StartCoreNetworkRelay
  BY <1>5 DEF RemoveCoreNetwork, StartCoreNetwork, StartCoreNetworkRelay, Goto
<1>6. CASE DropSecrets
  BY <1>6 DEF DropSecrets, Goto
<1>18. CASE CreateFileSecrets
  <2>1. secret' \in [Secret -> Pair \cup {"file", None}]
    BY <1>18 DEF CreateFileSecrets
  <2> QED  BY <1>18, <2>1 DEF CreateFileSecrets, Goto
<1>7. CASE CreatePublicKey
  BY <1>7, PublicStep DEF CreatePublicKey
<1>8. CASE CreateSecretKey
  BY <1>8, PrivateStep DEF CreateSecretKey
<1>9. CASE WriteResolver \/ StartArbiter \/ NotRebooted \/ ArbiterRuns
  BY <1>9 DEF WriteResolver, StartArbiter, NotRebooted, ArbiterRuns, Goto, Service
<1>10. CASE UpdateContainerManager
  <2>1. coreNetwork \in Address
    BY <1>10 DEF BootInv, NetworkHeld, Networked, UpdateContainerManager, At
  <2> QED  BY <1>10, <2>1 DEF UpdateContainerManager, Goto
<1>11. CASE StartExportService
  <2>1. others' \subseteq Service /\ exporting' \in BOOLEAN
    BY <1>11 DEF StartExportService, Service
  <2> QED  BY <1>11, <2>1 DEF StartExportService
<1>12. CASE LaunchCMStore
  <2>1. others' \subseteq Service /\ storeDNS' \in Address \cup {None}
    BY <1>12 DEF LaunchCMStore, Service
  <2>2. pc' = "serve"
    BY <1>12 DEF LaunchCMStore, Goto
  <2>3. UNCHANGED <<locals, files, own, coreNetwork, relay, secret, world, spoilt>>
    BY <1>12, Zenon DEF LaunchCMStore
  <2> QED  BY <2>1, <2>2, <2>3
<1>13. CASE Serve
  BY <1>13 DEF Serve, Goto, process
<1>14. ASSUME NEW s \in Service \cup {Self}, RemoveService(s)
       PROVE  TypeOK'
  <2>1. spoilt' \subseteq Wound
    BY <1>14 DEF RemoveService, Wound
  <2>2. others' \subseteq Service /\ own' \in Address \cup {"gone", "fresh"}
    BY <1>14 DEF RemoveService
  <2> QED  BY <1>14, <2>1, <2>2 DEF RemoveService
<1>15. CASE TaskStarts
  BY <1>15 DEF TaskStarts, Goto, File
<1>16. CASE CalmsDown \/ UserStarts
  BY <1>16 DEF CalmsDown, UserStarts, process
<1>17. CASE Quiet \/ UNCHANGED vars
  BY <1>17 DEF Quiet, vars, process
<1> QED
  BY <1>2, <1>3, <1>4, <1>5, <1>6, <1>7, <1>8, <1>9, <1>10, <1>11, <1>12, <1>13, <1>14,
     <1>15, <1>16, <1>17, <1>18
     DEF Next, Loader, Start, Export, Deaths

-----------------------------------------------------------------------------
(* The parts of the invariant *)

\* The core-network is there for the steps that need it, its relay too.
LEMMA NetworkNext ==
  ASSUME BootInv, [Next]_vars
  PROVE  NetworkHeld'
<1>1. TypeOK /\ NetworkHeld
  BY DEF BootInv
<1>2. None \notin Address
  BY BootstrapAssumption
<1> USE <1>1 DEF NetworkHeld, Networked, After, At, Goto, locals, docker, world
<1>3. ASSUME NEW f \in File, Generate(f)
      PROVE  NetworkHeld'
  <2>1. NextStep(f) \in File \cup {"check"}
    BY DEF NextStep, File
  <2>2. pc' \in File \cup {"check"}
    BY <1>3, <2>1 DEF Generate
  <2>3. pc \notin {"relay"}
    BY <1>3 DEF Generate, File
  <2> QED  BY <1>3, <2>2, <2>3 DEF Generate, File
<1>4. CASE Deaths
  <2>1. PICK reboot \in BOOLEAN : Dies(reboot)
    BY <1>4, DeathsDie
  <2> QED  BY <2>1 DEF Dies, Wounds
<1>5. CASE CheckForAndFixBadRestarts
  BY <1>5 DEF CheckForAndFixBadRestarts
<1>6. CASE RemoveCoreNetwork \/ DropSecrets \/ CreateFileSecrets
  BY <1>6 DEF RemoveCoreNetwork, DropSecrets, CreateFileSecrets
<1>7. CASE StartCoreNetwork \/ StartCoreNetworkRelay
  BY <1>7, <1>2 DEF StartCoreNetwork, StartCoreNetworkRelay
<1>8. CASE CreatePublicKey
  BY <1>8, PublicStep DEF CreatePublicKey
<1>9. CASE CreateSecretKey
  BY <1>9, PrivateStep DEF CreateSecretKey
<1>10. CASE WriteResolver \/ StartArbiter \/ NotRebooted \/ ArbiterRuns
  BY <1>10 DEF WriteResolver, StartArbiter, NotRebooted, ArbiterRuns
<1>11. CASE UpdateContainerManager
  BY <1>11 DEF UpdateContainerManager
<1>12. CASE StartExportService
  BY <1>12 DEF StartExportService
<1>13. CASE LaunchCMStore \/ Serve
  BY <1>13 DEF LaunchCMStore, Serve
<1>14. ASSUME NEW s \in Service \cup {Self}, RemoveService(s)
       PROVE  NetworkHeld'
  BY <1>14 DEF RemoveService
<1>15. CASE TaskStarts
  BY <1>15 DEF TaskStarts
<1>16. CASE CalmsDown \/ UserStarts
  BY <1>16 DEF CalmsDown, UserStarts, process
<1>17. CASE Quiet \/ UNCHANGED vars
  BY <1>17 DEF Quiet, vars, process
<1> QED
  BY <1>3, <1>4, <1>5, <1>6, <1>7, <1>8, <1>9, <1>10, <1>11, <1>12, <1>13, <1>14,
     <1>15, <1>16, <1>17
     DEF Next, Loader, Start, Export, Deaths

\* Only CreatePublicKey and CreateSecretKey make keys; nothing removes them.
LEMMA KeysNext ==
  ASSUME BootInv, [Next]_vars
  PROVE  KeysHeld'
<1>1. TypeOK /\ KeysHeld
  BY DEF BootInv
<1>2. None \notin Pair
  BY BootstrapAssumption
<1>3. {"ZMQ_PUBLIC_KEY", "ZMQ_SECRET_KEY"} \subseteq Secret
  BY DEF Secret
<1> USE <1>1, <1>3 DEF KeysHeld, At, Goto, locals, docker, world
<1>4. ASSUME NEW f \in File, Generate(f)
      PROVE  KeysHeld'
  <2>1. NextStep(f) \in File \cup {"check"}
    BY DEF NextStep, File
  <2>2. pc' # "private" /\ pc # "private"
    BY <1>4, <2>1 DEF Generate, File
  <2> QED  BY <1>4, <2>2 DEF Generate
<1>5. CASE Deaths
  <2>1. PICK reboot \in BOOLEAN : Dies(reboot)
    BY <1>5, DeathsDie
  <2> QED  BY <2>1 DEF Dies, Wounds
<1>6. CASE CheckForAndFixBadRestarts
  BY <1>6 DEF CheckForAndFixBadRestarts
<1>7. CASE RemoveCoreNetwork
  BY <1>7 DEF RemoveCoreNetwork
<1>8. CASE DropSecrets \/ CreateFileSecrets
  <2>1. \A n \in Spared : secret'[n] = secret[n]
    BY <1>8 DEF DropSecrets, CreateFileSecrets, Spared
  <2> QED  BY <1>8, <2>1 DEF DropSecrets, CreateFileSecrets, Spared
<1>9. CASE StartCoreNetwork \/ StartCoreNetworkRelay
  BY <1>9 DEF StartCoreNetwork, StartCoreNetworkRelay
<1>10. CASE CreatePublicKey
  <2>1. pc = "public" /\ pc' = "private" /\ others' = others /\ spoilt \subseteq spoilt'
    BY <1>10, PublicStep DEF CreatePublicKey
  <2>2. secret'["ZMQ_SECRET_KEY"] = secret["ZMQ_SECRET_KEY"]
    BY <1>10, PublicStep
  <2>3. secret["ZMQ_PUBLIC_KEY"] # None =>
          secret'["ZMQ_PUBLIC_KEY"] = secret["ZMQ_PUBLIC_KEY"]
    BY <1>10, PublicStep
  <2>4. secret["ZMQ_PUBLIC_KEY"] = None =>
          \/ secret'["ZMQ_PUBLIC_KEY"] = pair' /\ pair' \in Pair
          \/ "keys" \in spoilt'
    BY <1>10, PublicStep
  <2> QED  BY <2>1, <2>2, <2>3, <2>4, <1>2
<1>11. CASE CreateSecretKey
  <2>1. pc = "private" /\ pc' = "update" /\ others' = others /\ spoilt \subseteq spoilt'
    BY <1>11, PrivateStep DEF CreateSecretKey
  <2>2. secret'["ZMQ_PUBLIC_KEY"] = secret["ZMQ_PUBLIC_KEY"]
    BY <1>11, PrivateStep
  <2>3. secret["ZMQ_SECRET_KEY"] # None =>
          secret'["ZMQ_SECRET_KEY"] = secret["ZMQ_SECRET_KEY"]
    BY <1>11, PrivateStep
  <2>4. secret["ZMQ_SECRET_KEY"] = None =>
          secret'["ZMQ_SECRET_KEY"] = pair \/ "keys" \in spoilt'
    BY <1>11, PrivateStep
  <2> QED  BY <2>1, <2>2, <2>3, <2>4
<1>12. CASE WriteResolver \/ NotRebooted \/ ArbiterRuns
  BY <1>12 DEF WriteResolver, NotRebooted, ArbiterRuns
<1>13. CASE StartArbiter
  BY <1>13 DEF StartArbiter, CanStartArbiter
<1>14. CASE UpdateContainerManager
  BY <1>14 DEF UpdateContainerManager
<1>15. CASE StartExportService
  BY <1>15 DEF StartExportService
<1>16. CASE LaunchCMStore \/ Serve
  BY <1>16 DEF LaunchCMStore, Serve, CMStore
<1>17. ASSUME NEW s \in Service \cup {Self}, RemoveService(s)
       PROVE  KeysHeld'
  BY <1>17 DEF RemoveService
<1>18. CASE TaskStarts
  BY <1>18 DEF TaskStarts
<1>19. CASE CalmsDown \/ UserStarts
  BY <1>19 DEF CalmsDown, UserStarts, process
<1>20. CASE Quiet \/ UNCHANGED vars
  BY <1>20 DEF Quiet, vars, process
<1> QED
  BY <1>4, <1>5, <1>6, <1>7, <1>8, <1>9, <1>10, <1>11, <1>12, <1>13, <1>14,
     <1>15, <1>16, <1>17, <1>18, <1>19, <1>20
     DEF Next, Loader, Start, Export, Deaths

\* While an old life is cleaned up no service is started.
LEMMA CleanNext ==
  ASSUME BootInv, [Next]_vars
  PROVE  CleanHeld'
<1>1. TypeOK /\ CleanHeld
  BY DEF BootInv
<1>2. others' = others /\ own' = own /\ labelled' = labelled => BadRestart' = BadRestart
  BY DEF BadRestart, Services
<1> USE <1>1 DEF CleanHeld, Cleaned, After, At, Goto, locals, docker, world
<1>3. ASSUME NEW f \in File, Generate(f)
      PROVE  CleanHeld'
  <2>1. NextStep(f) \in File \cup {"check"}
    BY DEF NextStep, File
  <2>2. pc \in File /\ pc' \in File \cup {"check"}
    BY <1>3, <2>1 DEF Generate
  <2> QED  BY <1>3, <2>2 DEF Generate, File
<1>4. CASE Deaths
  <2>1. PICK reboot \in BOOLEAN : Dies(reboot)
    BY <1>4, DeathsDie
  <2> QED  BY <2>1 DEF Dies
<1>5. CASE CheckForAndFixBadRestarts
  BY <1>5, <1>2 DEF CheckForAndFixBadRestarts, Services
<1>6. CASE RemoveCoreNetwork
  BY <1>6 DEF RemoveCoreNetwork
<1>7. CASE DropSecrets \/ CreateFileSecrets
  BY <1>7, <1>2 DEF DropSecrets, CreateFileSecrets
<1>8. CASE StartCoreNetwork \/ StartCoreNetworkRelay
  BY <1>8, <1>2 DEF StartCoreNetwork, StartCoreNetworkRelay
<1>9. CASE CreatePublicKey
  BY <1>9, <1>2, PublicStep DEF CreatePublicKey
<1>10. CASE CreateSecretKey
  BY <1>10, <1>2, PrivateStep DEF CreateSecretKey
<1>11. CASE WriteResolver \/ StartArbiter \/ NotRebooted \/ ArbiterRuns
  BY <1>11 DEF WriteResolver, StartArbiter, NotRebooted, ArbiterRuns, UpToDate
<1>12. CASE UpdateContainerManager
  <2>1. own # "gone" /\ own' # "gone"
    BY <1>12, BootstrapAssumption
       DEF UpdateContainerManager, CanUpdate, BootInv, NetworkHeld, Networked, TypeOK
  <2>2. Services' = Services
    BY <1>12, <2>1 DEF Services, UpdateContainerManager
  <2>3. BadRestart' = BadRestart
    BY <2>2 DEF BadRestart
  <2> QED  BY <1>12, <2>3 DEF UpdateContainerManager
<1>13. CASE StartExportService
  BY <1>13 DEF StartExportService
<1>14. CASE LaunchCMStore \/ Serve
  BY <1>14 DEF LaunchCMStore, Serve
<1>15. ASSUME NEW s \in Service \cup {Self}, RemoveService(s)
       PROVE  CleanHeld'
  BY <1>15 DEF RemoveService
<1>16. CASE TaskStarts
  BY <1>16 DEF TaskStarts
<1>17. CASE CalmsDown
  BY <1>17, <1>2 DEF CalmsDown, process
<1>18. CASE UserStarts
  BY <1>18 DEF UserStarts, process
<1>19. CASE Quiet \/ UNCHANGED vars
  BY <1>19, <1>2 DEF Quiet, vars, process
<1> QED
  BY <1>3, <1>4, <1>5, <1>6, <1>7, <1>8, <1>9, <1>10, <1>11, <1>12, <1>13, <1>14,
     <1>15, <1>16, <1>17, <1>18, <1>19
     DEF Next, Loader, Start, Export, Deaths

\* Generate makes the CA last but one, after its public part.
LEMMA FilesNext ==
  ASSUME BootInv, [Next]_vars
  PROVE  FilesHeld'
<1>1. TypeOK /\ FilesHeld
  BY DEF BootInv
<1> USE <1>1 DEF FilesHeld, File, At, Goto, locals, docker, world
<1>2. ASSUME NEW f \in File, Generate(f)
      PROVE  FilesHeld'
  <2>1. files' \in [File -> {"absent", "empty", "whole"}]
        /\ \A g \in File \ {f} : files'[g] = files[g]
    BY <1>2 DEF Generate, TypeOK
  <2>2. CASE f = "pub"
    BY <1>2, <2>1, <2>2 DEF Generate, Missing, NextStep, TypeOK
  <2>3. CASE f # "pub"
    <3>1. files'["pub"] = files["pub"] /\ pc' # "pub"
      BY <1>2, <2>1, <2>3 DEF Generate, NextStep
    <3>2. writing' => pc' \in File
      BY <1>2, <2>3 DEF Generate
    <3>3. files'["ca"] # "absent" \/ pc' = "ca" => files["pub"] = "whole"
      BY <1>2, <2>1, <2>3 DEF Generate, NextStep
    <3> QED  BY <3>1, <3>2, <3>3
  <2> QED  BY <2>2, <2>3
<1>3. CASE Deaths
  <2>1. PICK reboot \in BOOLEAN : Dies(reboot)
    BY <1>3, DeathsDie
  <2> QED  BY <2>1 DEF Dies
<1>4. CASE CheckForAndFixBadRestarts
  BY <1>4 DEF CheckForAndFixBadRestarts
<1>5. CASE RemoveCoreNetwork \/ DropSecrets \/ CreateFileSecrets
  BY <1>5 DEF RemoveCoreNetwork, DropSecrets, CreateFileSecrets
<1>6. CASE StartCoreNetwork \/ StartCoreNetworkRelay
  BY <1>6 DEF StartCoreNetwork, StartCoreNetworkRelay
<1>7. CASE CreatePublicKey
  BY <1>7, PublicStep DEF CreatePublicKey
<1>8. CASE CreateSecretKey
  BY <1>8, PrivateStep DEF CreateSecretKey
<1>9. CASE WriteResolver \/ StartArbiter \/ NotRebooted \/ ArbiterRuns
  BY <1>9 DEF WriteResolver, StartArbiter, NotRebooted, ArbiterRuns
<1>10. CASE UpdateContainerManager
  BY <1>10 DEF UpdateContainerManager
<1>11. CASE StartExportService
  BY <1>11 DEF StartExportService
<1>12. CASE LaunchCMStore \/ Serve
  BY <1>12 DEF LaunchCMStore, Serve
<1>13. ASSUME NEW s \in Service \cup {Self}, RemoveService(s)
       PROVE  FilesHeld'
  BY <1>13 DEF RemoveService
<1>14. CASE TaskStarts
  BY <1>14 DEF TaskStarts
<1>15. CASE CalmsDown \/ UserStarts
  BY <1>15 DEF CalmsDown, UserStarts, process
<1>16. CASE Quiet \/ UNCHANGED vars
  BY <1>16 DEF Quiet, vars, process
<1> QED
  BY <1>2, <1>3, <1>4, <1>5, <1>6, <1>7, <1>8, <1>9, <1>10, <1>11, <1>12, <1>13, <1>14,
     <1>15, <1>16
     DEF Next, Loader, Start, Export, Deaths

\* Whatever runs when a life begins is seen by its clean-up, but for one service
\* when the manager's own has no label.
LEMMA OldStoreSeen ==
  ASSUME TypeOK, CMStore \in others, ~BadRestart, labelled => own # "gone"
  PROVE  ~labelled /\ Cardinality(others) = 1
<1>1. /\ IsFiniteSet(Services) /\ others \subseteq Services
      /\ IsFiniteSet(others) /\ Cardinality(others) \in Nat
      /\ Cardinality(Services) \in Nat /\ Cardinality(others) <= Cardinality(Services)
  <2> DEFINE All == (({CMStore} \cup {Self}) \cup {"arbiter"}) \cup {"export-service"}
  <2>1. IsFiniteSet(All)
    <3>1. IsFiniteSet({CMStore})
      BY FS_Singleton
    <3>2. IsFiniteSet({CMStore} \cup {Self})
      BY <3>1, FS_AddElement, Zenon
    <3>3. IsFiniteSet(({CMStore} \cup {Self}) \cup {"arbiter"})
      BY <3>2, FS_AddElement, Zenon
    <3> QED  BY <3>3, FS_AddElement, Zenon
  <2>2. Services \subseteq All /\ others \subseteq Services
    BY DEF TypeOK, Service, Services
  <2> QED  BY <2>1, <2>2, FS_Subset, FS_CardinalityType
<1>2. ~labelled
  <2> SUFFICES ASSUME labelled
               PROVE  FALSE
    OBVIOUS
  <2>1. Self \in Services /\ Self \notin {CMStore} /\ CMStore \in Services
    BY DEF Services, Self, CMStore
  <2>2. {Self, CMStore} \subseteq Services
    BY <2>1
  <2>3. Cardinality({Self, CMStore}) = 2
    <3>1. Cardinality({CMStore}) = 1 /\ IsFiniteSet({CMStore})
      BY FS_Singleton
    <3>2. {Self, CMStore} = {CMStore} \cup {Self}
      OBVIOUS
    <3>3. Cardinality({CMStore} \cup {Self}) = Cardinality({CMStore}) + 1
      BY <2>1, <3>1, FS_AddElement, Zenon
    <3> QED  BY <3>1, <3>2, <3>3
  <2>4. 2 <= Cardinality(Services)
    BY <1>1, <2>2, <2>3, FS_Subset
  <2> QED  BY <1>1, <2>4 DEF BadRestart
<1>3. Services = others
  BY <1>2 DEF Services
<1>4. Cardinality(others) # 0
  BY <1>1, FS_EmptySet
<1> QED  BY <1>1, <1>2, <1>3, <1>4 DEF BadRestart

\* A store is launched with the environment, when no old one is left.
LEMMA StoreNext ==
  ASSUME BootInv, [Next]_vars
  PROVE  StoreHeld'
<1>1. TypeOK /\ StoreHeld /\ CleanHeld
  BY DEF BootInv
<1> USE <1>1 DEF StoreHeld, Kept, Cleaned, After, File, At, Goto, locals, docker, world
<1>2. ASSUME NEW f \in File, Generate(f)
      PROVE  StoreHeld'
  <2>1. NextStep(f) \in File \cup {"check"}
    BY DEF NextStep
  <2>2. pc \in File /\ pc' \in File \cup {"check"}
    BY <1>2, <2>1 DEF Generate
  <2> QED  BY <1>2, <2>2 DEF Generate
<1>3. CASE Deaths
  <2>1. PICK reboot \in BOOLEAN : Dies(reboot)
    BY <1>3, DeathsDie
  <2> QED  BY <2>1 DEF Dies, Wounds
<1>4. CASE CheckForAndFixBadRestarts
  <2>1. CASE BadRestart
    BY <1>4, <2>1 DEF CheckForAndFixBadRestarts
  <2>2. CASE ~BadRestart
    <3>1. pc = "check" /\ ~bad
      BY <1>4 DEF CheckForAndFixBadRestarts, CleanHeld
    <3>2. own # "gone"
      BY <3>1
    <3>3. CMStore \in others => "alone" \in spoilt
      BY <3>1, <3>2, <2>2, OldStoreSeen
    <3> QED  BY <1>4, <2>2, <3>1, <3>3 DEF CheckForAndFixBadRestarts
  <2> QED  BY <2>1, <2>2
<1>5. CASE RemoveCoreNetwork
  BY <1>5 DEF RemoveCoreNetwork, CleanHeld
<1>6. CASE DropSecrets \/ CreateFileSecrets
  BY <1>6 DEF DropSecrets, CreateFileSecrets
<1>7. CASE StartCoreNetwork \/ StartCoreNetworkRelay
  BY <1>7 DEF StartCoreNetwork, StartCoreNetworkRelay
<1>8. CASE CreatePublicKey
  <2>1. /\ pc = "public" /\ pc' = "private" /\ spoilt \subseteq spoilt'
        /\ UNCHANGED <<own, others, env, outlived, bad, labelled, storeDNS>>
    BY <1>8, PublicStep DEF CreatePublicKey
  <2> QED  BY <2>1
<1>9. CASE CreateSecretKey
  <2>1. /\ pc = "private" /\ pc' = "update" /\ spoilt \subseteq spoilt'
        /\ UNCHANGED <<own, others, env, outlived, bad, labelled, storeDNS>>
    BY <1>9, PrivateStep DEF CreateSecretKey
  <2> QED  BY <2>1
<1>10. CASE WriteResolver \/ NotRebooted \/ ArbiterRuns
  BY <1>10 DEF WriteResolver, NotRebooted, ArbiterRuns
<1>11. CASE StartArbiter
  BY <1>11 DEF StartArbiter, CMStore
<1>12. CASE UpdateContainerManager
  <2>1. own' # "gone"
    BY <1>12, BootstrapAssumption DEF UpdateContainerManager, BootInv, NetworkHeld, Networked, TypeOK
  <2> QED  BY <1>12, <2>1 DEF UpdateContainerManager
<1>13. CASE StartExportService
  BY <1>13 DEF StartExportService, CleanHeld, CMStore
<1>14. CASE LaunchCMStore
  BY <1>14 DEF LaunchCMStore
<1>15. CASE Serve
  BY <1>15 DEF Serve
<1>16. ASSUME NEW s \in Service \cup {Self}, RemoveService(s)
       PROVE  StoreHeld'
  <2>1. /\ pc = "remove" /\ pc' = pc /\ bad /\ bad' = bad
        /\ UNCHANGED <<env, outlived, labelled>>
    BY <1>16 DEF RemoveService, CleanHeld
  <2>2. /\ own' = own \/ own' = "gone"
        /\ spoilt \subseteq spoilt'
    BY <1>16 DEF RemoveService
  <2>3. "gone" \notin Address
    BY BootstrapAssumption
  <2> QED  BY <2>1, <2>2, <2>3
<1>17. CASE TaskStarts
  <2>1. /\ pc = "off" /\ pc' = "pub" /\ own # "gone"
        /\ env' = IF own \in Address THEN own ELSE None
        /\ UNCHANGED <<own, others, outlived, bad, labelled, spoilt, storeDNS>>
    BY <1>17 DEF TaskStarts
  <2> QED  BY <2>1
<1>18. CASE CalmsDown \/ UserStarts
  BY <1>18, BootstrapAssumption DEF CalmsDown, UserStarts, process
<1>19. CASE Quiet \/ UNCHANGED vars
  BY <1>19 DEF Quiet, vars, process
<1> QED
  BY <1>2, <1>3, <1>4, <1>5, <1>6, <1>7, <1>8, <1>9, <1>10, <1>11, <1>12, <1>13, <1>14,
     <1>15, <1>16, <1>17, <1>18, <1>19
     DEF Next, Loader, Start, Export, Deaths

-----------------------------------------------------------------------------
(* The theorems *)

\* The first life begins with nothing.
LEMMA BootInit == Init => BootInv
<1> SUFFICES ASSUME Init PROVE BootInv
  OBVIOUS
<1>1. TypeOK
  BY DEF Init, TypeOK
<1>2. NetworkHeld
  BY DEF Init, NetworkHeld, Networked, After, At
<1>3. KeysHeld
  BY DEF Init, KeysHeld, At, Secret
<1>4. CleanHeld
  BY DEF Init, CleanHeld, Cleaned, After
<1>5. FilesHeld
  BY DEF Init, FilesHeld, At, File
<1>6. StoreHeld
  <2>1. others = {} /\ pc = "off" /\ own = "fresh" /\ outlived = FALSE
    BY DEF Init
  <2> QED  BY <2>1, FS_EmptySet DEF StoreHeld, Cleaned, File
<1> QED  BY <1>1, <1>2, <1>3, <1>4, <1>5, <1>6 DEF BootInv

\* The invariant holds in every reachable state.
LEMMA BootInvariant == Spec => []BootInv
<1>1. BootInv /\ [Next]_vars => BootInv'
  BY TypeNext, NetworkNext, KeysNext, CleanNext, FilesNext, StoreNext DEF BootInv
<1> QED  BY <1>1, BootInit, PTL DEF Spec

\* The variables of the bootstrap keep their types (TypeOK): whatever a life
\* leaves behind is something the next one may find.
THEOREM BootTypeCorrect == Spec => []TypeOK
<1>1. BootInv => TypeOK
  BY DEF BootInv
<1> QED  BY <1>1, BootInvariant, PTL

\* An arbiter that runs has the secret key of the public key (KeysMatch): of
\* CreatePublicKey and CreateSecretKey, and of the clean-up that spares both.
THEOREM KeysAlwaysMatch == Spec => []KeysMatch
<1>1. BootInv => KeysMatch
  BY DEF BootInv, KeysHeld, KeysMatch
<1> QED  BY <1>1, BootInvariant, PTL

\* What the manager itself calls after the update goes through the core-network
\* that runs (CoreNetworkReady): of StartCoreNetwork, which takes the one it finds,
\* and of WriteResolver; a manager that swarm did not restart in time is excepted.
THEOREM NetworkReady == Spec => []CoreNetworkReady
<1>1. BootInv => CoreNetworkReady
  BY DEF BootInv, NetworkHeld, CoreNetworkReady, Networked, After, At
<1> QED  BY <1>1, BootInvariant, PTL

\* The manager's store has the DNS server that the service was updated with
\* (StoreResolves): of LaunchCMStore, which reads it from the environment, and of
\* the clean-up, which removes the store of every life that had another.
THEOREM StoreAddressRight == Spec => []StoreResolves
<1>1. BootInv => StoreResolves
  <2> SUFFICES ASSUME BootInv, pc \in {"serve", "serving"}, own = coreNetwork,
                      ~outlived, spoilt \cap {"alone", "remove"} = {}
               PROVE  storeDNS = coreNetwork
    BY DEF StoreResolves
  <2>1. own \in Address
    BY DEF BootInv, TypeOK, NetworkHeld, Networked, After
  <2> QED  BY <2>1 DEF BootInv, StoreHeld, Kept
<1> QED  BY <1>1, BootInvariant, PTL

\* The restart updateContainerManager causes finds at most its own service
\* (UpdateIsNoBadRestart), which checkForAndFixBadRestarts takes for a good one.
THEOREM UpdateNoBadRestart == Spec => []UpdateIsNoBadRestart
<1>1. ASSUME BootInv, At("rebooting"), "remove" \notin spoilt
      PROVE  ~BadRestart
  <2>1. CASE ~bad
    BY <1>1, <2>1 DEF BootInv, CleanHeld, Cleaned, At
  <2>2. CASE bad
    <3>1. others = {}
      BY <1>1, <2>2 DEF BootInv, CleanHeld, Cleaned, At
    <3>2. Services = {} \/ Services = {Self}
      BY <3>1 DEF Services
    <3>3. Cardinality(Services) = 0 \/ Cardinality(Services) = 1
      BY <3>2, FS_EmptySet, FS_Singleton
    <3> QED  BY <3>3 DEF BadRestart
  <2> QED  BY <1>1, <2>1, <2>2 DEF BootInv, TypeOK
<1>2. BootInv => UpdateIsNoBadRestart
  BY <1>1 DEF UpdateIsNoBadRestart
<1> QED  BY <1>2, BootInvariant, PTL

\* There is no CA without its public part (PublicPartFirst): of GenRootCA, which
\* fills one file before it makes the other.
THEOREM PublicFirst == Spec => []PublicPartFirst
<1>1. BootInv => PublicPartFirst
  BY DEF BootInv, FilesHeld, PublicPartFirst
<1> QED  BY <1>1, BootInvariant, PTL
=============================================================================
