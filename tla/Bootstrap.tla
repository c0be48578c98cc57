------------------------------ MODULE Bootstrap ------------------------------
(***************************************************************************)
(* How the container manager builds a databox (app.go, databoxLoader.go,    *)
(* dockerHelpers.go, certificateGenerator.go and ContainerManager.Start): it*)
(* makes its certificates, cleans up after a life that ended badly, starts  *)
(* the core-network, makes the keys, updates its own swarm service, which   *)
(* restarts it, starts the arbiter and its store, settles its password and  *)
(* serves.                                                                  *)
(*                                                                         *)
(* The process may die between any two steps.  Files, docker's objects and  *)
(* the contents of the store outlive it; what the next life makes of them   *)
(* is the subject of this module.                                           *)
(***************************************************************************)
EXTENDS Naturals, FiniteSets

CONSTANTS
  Address,   \* addresses docker may give the databox-network container
  Pair,      \* ZMQ key pairs
  Labels,    \* may the manager's own service carry the label databox.type?
  Faults,    \* calls that may fail in this instance
  None       \* no address, no key

ASSUME BootstrapAssumption ==
  /\ Labels \subseteq BOOLEAN /\ Labels # {}
  /\ Faults \subseteq {"remove", "secret", "reboot", "arbiter"}
  /\ None \notin Address \cup Pair
  /\ Pair # {} /\ \A p \in Pair : Pair # {p}
  /\ {"fresh", "gone", "file"} \cap (Address \cup Pair) = {}

VARIABLES
  pc,          \* of the main goroutine: the step it is about to take
  writing,     \* has it created the file it is about to fill?
  bad,         \* badRestartDetected
  listed,      \* services that are still to be removed
  pair,        \* the key pair just made
  resolver,    \* the DNS server in /etc/resolv.conf
  env,         \* DATABOX_DNS_IP in its environment
  outlived,    \* has it waited in vain to be restarted with its update?
  exporting,   \* is startExportService still to create its service?
  files,       \* the certificates and tokens in ./certs
  own,         \* the manager's service: gone, fresh, or the address it was updated with
  others,      \* the other databox services
  coreNetwork, \* address of the databox-network container, if it runs
  relay,       \* does the container of the broadcast relay run?
  secret,      \* docker's secrets
  storeDNS,    \* the DNS server that the manager's store was given
  labelled,    \* does the manager's own service carry the label?
  calm,        \* have deaths, reboots and failing calls come to an end?
  spoilt       \* history: what deaths and failed calls left behind

locals  == <<writing, bad, listed, pair, resolver, env, outlived, exporting>>
process == <<pc, locals>>
docker  == <<own, others, coreNetwork, relay, secret, storeDNS>>
world   == <<labelled, calm>>
vars    == <<process, files, docker, world, spoilt>>

File == {"pub", "ca", "cert", "token"}
Secret == {"DATABOX_ROOT_CA", "CM_KEY", "ZMQ_PUBLIC_KEY", "ZMQ_SECRET_KEY"}
CMStore == "container-manager-core-store"
Service == {"arbiter", "export-service", CMStore}
Self == "container-manager"

Before == {"check", "remove", "drop", "network", "relay", "secrets", "public",
           "private", "update"} \cup File
After == {"arbiter", "await", "store", "serve", "serving"}

Wound == {"file", "keys", "relay", "alone", "remove"}

TypeOK ==
  /\ pc \in Before \cup After \cup {"off", "rebooting"}
  /\ writing \in BOOLEAN /\ bad \in BOOLEAN
  /\ listed \subseteq Service \cup {Self}
  /\ pair \in Pair \cup {None}
  /\ resolver \in Address \cup {None} /\ env \in Address \cup {None}
  /\ outlived \in BOOLEAN
  /\ exporting \in BOOLEAN
  /\ files \in [File -> {"absent", "empty", "whole"}]
  /\ own \in Address \cup {"gone", "fresh"}
  /\ others \subseteq Service
  /\ coreNetwork \in Address \cup {None}
  /\ relay \in BOOLEAN
  /\ secret \in [Secret -> Pair \cup {"file", None}]
  /\ storeDNS \in Address \cup {None}
  /\ labelled \in Labels
  /\ calm \in BOOLEAN
  /\ spoilt \subseteq Wound

-----------------------------------------------------------------------------
At(l) == pc = l
Goto(l) == pc' = l
MayFail(call) == ~calm /\ call \in Faults

\* What a death leaves behind that no later start repairs: a file made but not
\* filled, a public key without its private key, a core-network without its
\* relay, and a single old service that does not count as a bad restart.
Wounds(reboot) ==
  (IF writing /\ ~At("pub") THEN {"file"} ELSE {})
    \cup (IF (secret["ZMQ_PUBLIC_KEY"] = None) # (secret["ZMQ_SECRET_KEY"] = None)
            THEN {"keys"} ELSE {})
    \cup (IF At("relay") /\ ~reboot THEN {"relay"} ELSE {})
    \cup (IF ~labelled /\ Cardinality(others) = 1 THEN {"alone"} ELSE {})

\* Goroutines and what they know end; a reboot of the host ends the containers
\* that swarm does not look after, too.
Dies(reboot) ==
  /\ pc' = "off"
  /\ writing' = FALSE /\ bad' = FALSE /\ listed' = {} /\ pair' = None
  /\ resolver' = None /\ env' = None /\ outlived' = FALSE /\ exporting' = FALSE
  /\ coreNetwork' = IF reboot THEN None ELSE coreNetwork
  /\ relay' = (relay /\ ~reboot)
  /\ spoilt' = spoilt \cup Wounds(reboot)
  /\ UNCHANGED <<files, own, others, secret, storeDNS, world>>

Fatal == Dies(FALSE)   \* ChkErrFatal, or a panic

-----------------------------------------------------------------------------
(* main: certificates and tokens *)

\* Mutant: each file is looked at by itself.
MissingAlone(f) == files[f] = "absent"

\* A file is made if it is not there; the public part of the CA with the CA.
Missing(f) == files[IF f = "pub" THEN "ca" ELSE f] = "absent"

NextStep(f) == CASE f = "pub" -> "ca" [] f = "ca" -> "cert"
                 [] f = "cert" -> "token" [] f = "token" -> "check"

\* os.Create and Write are two steps.  A certificate is signed with the CA read
\* from its file, which panics when there is nothing in it.
Generate(f) ==
  /\ At(f)
  /\ \/ /\ ~writing /\ ~Missing(f)
        /\ Goto(NextStep(f))
        /\ UNCHANGED <<writing, files>>
     \/ /\ ~writing /\ Missing(f) /\ (f = "cert" => files["ca"] = "whole")
        /\ files' = [files EXCEPT ![f] = "empty"]
        /\ writing' = TRUE
        /\ UNCHANGED pc
     \/ /\ writing
        /\ files' = [files EXCEPT ![f] = "whole"]
        /\ writing' = FALSE
        /\ Goto(NextStep(f))
  /\ UNCHANGED <<bad, listed, pair, resolver, env, outlived, exporting, docker, world, spoilt>>

GenCertPanics ==
  /\ At("cert") /\ Missing("cert") /\ ~writing /\ files["ca"] # "whole"
  /\ Fatal

-----------------------------------------------------------------------------
(* checkForAndFixBadRestarts *)

Services == others \cup (IF labelled /\ own # "gone" THEN {Self} ELSE {})

\* Mutant: one old service is not enough.
BadRestartLate == Cardinality(Services) > 2

BadRestart == Cardinality(Services) > 1

CheckForAndFixBadRestarts ==
  /\ At("check")
  /\ IF BadRestart
       THEN bad' = TRUE /\ listed' = Services /\ Goto("remove")
       ELSE Goto("network") /\ UNCHANGED <<bad, listed>>
  /\ UNCHANGED <<writing, pair, resolver, env, outlived, exporting, files, docker,
                 world, spoilt>>

\* Every service listed is removed: the identifier of the manager's container,
\* which is to spare it, is never the one of a service.
RemoveService(s) ==
  /\ At("remove") /\ s \in listed
  /\ listed' = listed \ {s}
  /\ \/ /\ others' = others \ {s}
        /\ own' = IF s = Self THEN "gone" ELSE own
        /\ storeDNS' = IF s = CMStore THEN None ELSE storeDNS
        /\ UNCHANGED spoilt
     \/ /\ MayFail("remove")
        /\ spoilt' = spoilt \cup {"remove"}
        /\ UNCHANGED <<own, others, storeDNS>>
  /\ UNCHANGED <<pc, writing, bad, pair, resolver, env, outlived, exporting, files,
                 coreNetwork, relay, secret, world>>

\* The databox-network container goes, its relay stays: it has another name.
RemoveCoreNetwork ==
  /\ At("remove") /\ listed = {}
  /\ coreNetwork' = None
  /\ Goto("drop")
  /\ UNCHANGED <<locals, files, own, others, relay, secret, storeDNS, world, spoilt>>

\* The secrets a service was given cannot be removed.
UsedBySelf == IF own \in Address THEN {"ZMQ_PUBLIC_KEY", "DATABOX_ROOT_CA"} ELSE {}
UsedBy(s) == CASE s = "arbiter" -> {"CM_KEY", "ZMQ_SECRET_KEY"}
               [] s = CMStore ->
                    {"ZMQ_PUBLIC_KEY", "ZMQ_SECRET_KEY", "DATABOX_ROOT_CA"}
               [] s = "export-service" -> {"ZMQ_PUBLIC_KEY", "DATABOX_ROOT_CA"}
InUse == UsedBySelf \cup UNION {UsedBy(s) : s \in others}

\* Mutant: the clean-up takes all secrets.
SparesNone == {}

\* "dont delete the zmq keys"
Spared == {"ZMQ_PUBLIC_KEY", "ZMQ_SECRET_KEY"}

DropSecrets ==
  /\ At("drop")
  /\ secret' = [n \in Secret |-> IF n \in Spared \cup InUse THEN secret[n] ELSE None]
  /\ Goto("network")
  /\ UNCHANGED <<locals, files, own, others, coreNetwork, relay, storeDNS, world, spoilt>>

-----------------------------------------------------------------------------
(* startCoreNetwork, keys and secrets *)

\* A databox-network that runs is taken as it is, relay and all.
StartCoreNetwork ==
  /\ At("network")
  /\ IF coreNetwork # None
       THEN Goto("secrets") /\ UNCHANGED coreNetwork
       ELSE Goto("relay") /\ coreNetwork' \in Address
  /\ UNCHANGED <<locals, files, own, others, relay, secret, storeDNS, world, spoilt>>

StartCoreNetworkRelay ==
  /\ At("relay")
  /\ relay' = TRUE
  /\ Goto("secrets")
  /\ UNCHANGED <<locals, files, own, others, coreNetwork, secret, storeDNS,
                 world, spoilt>>

\* createSecretFromFileIfNotExists: docker takes no empty secret, and may make none;
\* either is logged.
FileOf(n) == IF n = "CM_KEY" THEN "token" ELSE "pub"
CreateFileSecrets ==
  /\ At("secrets")
  /\ \E made \in SUBSET {"DATABOX_ROOT_CA", "CM_KEY"} :
       /\ made # {"DATABOX_ROOT_CA", "CM_KEY"} => MayFail("secret")
       /\ secret' = [n \in Secret |-> IF n \in made /\ files[FileOf(n)] = "whole"
                                       THEN "file" ELSE secret[n]]
  /\ Goto("public")
  /\ UNCHANGED <<locals, files, own, others, coreNetwork, relay, storeDNS, world, spoilt>>

\* A new pair is made, which is dropped when both secrets are there,
KeysInUse == {secret["ZMQ_PUBLIC_KEY"], secret["ZMQ_SECRET_KEY"]}

NewPair == CHOOSE p \in Pair : p \notin KeysInUse

\* and createSecretIfNotExists keeps each half unless it has one.
CreateKey(n, key, next) ==
  \/ /\ secret' = [secret EXCEPT ![n] = IF @ = None THEN key ELSE @]
     /\ Goto(next)
     /\ UNCHANGED spoilt
  \/ /\ MayFail("secret") /\ secret[n] = None
     /\ spoilt' = spoilt \cup {"keys"}
     /\ Goto(next)
     /\ UNCHANGED secret

CreatePublicKey ==
  /\ At("public")
  /\ pair' = IF None \in KeysInUse THEN NewPair ELSE None
  /\ CreateKey("ZMQ_PUBLIC_KEY", pair', "private")
  /\ UNCHANGED <<writing, bad, listed, resolver, env, outlived, exporting, files, own,
                 others, coreNetwork, relay, storeDNS, world>>

CreateSecretKey ==
  /\ At("private")
  /\ CreateKey("ZMQ_SECRET_KEY", pair, "update")
  /\ pair' = None
  /\ UNCHANGED <<writing, bad, listed, resolver, env, outlived, exporting, files, own,
                 others, coreNetwork, relay, storeDNS, world>>

-----------------------------------------------------------------------------
(* updateContainerManager *)

\* The services whose name begins with container-manager: the first of them, in
\* whatever order, is taken to be its own.  The store's has a DNS server.
Found == {Self} \cup (others \cap {CMStore})

UpToDate(s) == (s = Self => own \in Address) /\ ~bad

\* Mutant: an up to date service has the resolver it was given.
KeepResolver ==
  /\ At("update") /\ \E s \in Found : UpToDate(s)
  /\ Goto("arbiter")
  /\ UNCHANGED <<locals, files, docker, world, spoilt>>

\* The service is up to date; its resolver may have moved.
WriteResolver ==
  /\ At("update") /\ \E s \in Found : UpToDate(s)
  /\ resolver' = coreNetwork
  /\ Goto("arbiter")
  /\ UNCHANGED <<writing, bad, listed, pair, env, outlived, exporting, files, docker,
                 world, spoilt>>

\* ServiceUpdate adds the DNS server and two secrets.  Docker refuses it when the
\* service has secrets of these names, as the store's has, or when they do not
\* exist.
CanUpdate ==
  own = "fresh" /\ secret["ZMQ_PUBLIC_KEY"] # None /\ secret["DATABOX_ROOT_CA"] # None

\* Mutant: the arbiter is started before the update.
UpdateLast ==
  /\ At("update") /\ ~UpToDate(Self) /\ CanUpdate
  /\ own' = coreNetwork
  /\ others' = others \cup {"arbiter"}
  /\ Goto("rebooting")
  /\ UNCHANGED <<locals, files, coreNetwork, relay, secret, storeDNS, world, spoilt>>

\* Mutant: the service is given the DNS server its task has.
UpdateWithResolver ==
  /\ At("update") /\ ~UpToDate(Self) /\ CanUpdate
  /\ own' = resolver
  /\ Goto("rebooting")
  /\ UNCHANGED <<locals, files, others, coreNetwork, relay, secret, storeDNS,
                 world, spoilt>>

UpdateContainerManager ==
  /\ At("update") /\ ~UpToDate(Self) /\ CanUpdate
  /\ own' = coreNetwork
  /\ Goto("rebooting")
  /\ UNCHANGED <<locals, files, others, coreNetwork, relay, secret, storeDNS,
                 world, spoilt>>

UpdateRefused ==
  /\ At("update") /\ \E s \in Found : ~UpToDate(s) /\ (s = Self => ~CanUpdate)
  /\ Fatal

\* Swarm stops the task to start one of the updated service.
Rebooted == At("rebooting") /\ Fatal

\* When it does not within 1000 seconds the manager goes on as if it had been up to
\* date, with neither a resolver nor the address in its environment,
NotRebooted ==
  /\ At("rebooting") /\ MayFail("reboot")
  /\ outlived' = TRUE
  /\ Goto("arbiter")
  /\ UNCHANGED <<writing, bad, listed, pair, resolver, env, exporting, files, docker,
                 world, spoilt>>

\* and may be stopped later.
RebootedLate == outlived /\ Fatal

-----------------------------------------------------------------------------
(* startArbiter, and ContainerManager.Start *)

CanStartArbiter ==
  "arbiter" \notin others /\ secret["CM_KEY"] # None /\ secret["ZMQ_SECRET_KEY"] # None

StartArbiter ==
  /\ At("arbiter") /\ CanStartArbiter
  /\ others' = others \cup {"arbiter"}
  /\ Goto("await")
  /\ UNCHANGED <<locals, files, own, coreNetwork, relay, secret, storeDNS, world, spoilt>>

ArbiterRefused == At("arbiter") /\ ~CanStartArbiter /\ Fatal

\* main waits until the arbiter runs; Start launches the export-service on the side.
ArbiterRuns ==
  /\ At("await")
  /\ exporting' = TRUE
  /\ Goto("store")
  /\ UNCHANGED <<writing, bad, listed, pair, resolver, env, outlived, files, docker,
                 world, spoilt>>

\* It does not run at the tenth poll.
ArbiterLate == At("await") /\ MayFail("arbiter") /\ Fatal

StartExportService ==
  /\ exporting /\ "export-service" \notin others
  /\ others' = others \cup {"export-service"}
  /\ exporting' = FALSE
  /\ UNCHANGED <<pc, writing, bad, listed, pair, resolver, env, outlived, files, own,
                 coreNetwork, relay, secret, storeDNS, world, spoilt>>

ExportRefused == exporting /\ "export-service" \in others /\ Fatal

\* The store is given the DNS server of the environment, which WriteResolver does
\* not change.  That there is a store already is logged.
LaunchCMStore ==
  /\ At("store")
  /\ others' = others \cup {CMStore}
  /\ storeDNS' = IF CMStore \in others THEN storeDNS ELSE env
  /\ Goto("serve")
  /\ UNCHANGED <<locals, files, own, coreNetwork, relay, secret, world, spoilt>>

\* The password is settled (module Access), and the servers begin.
Serve ==
  /\ At("serve") /\ files["cert"] = "whole"
  /\ Goto("serving")
  /\ UNCHANGED <<locals, files, docker, world, spoilt>>

ServeRefused == At("serve") /\ files["cert"] # "whole" /\ Fatal

-----------------------------------------------------------------------------
(* Surroundings *)

\* Mutant: the update does not give the address to the environment.
TaskStartsWithoutEnv ==
  /\ At("off") /\ own # "gone"
  /\ Goto("pub")
  /\ resolver' = IF own \in Address THEN own ELSE None
  /\ UNCHANGED <<writing, bad, listed, pair, env, outlived, exporting, files, docker,
                 world, spoilt>>

\* Swarm keeps a task of the manager's service, with the resolver and environment
\* it was given.
TaskStarts ==
  /\ At("off") /\ own # "gone"
  /\ Goto("pub")
  /\ resolver' = IF own \in Address THEN own ELSE None
  /\ env' = resolver'
  /\ UNCHANGED <<writing, bad, listed, pair, outlived, exporting, files, docker,
                 world, spoilt>>

\* and stops it when the service is gone.
TaskStops == ~At("off") /\ own = "gone" /\ Fatal

Crash == ~calm /\ ~At("off") /\ Fatal

HostReboots == ~calm /\ Dies(TRUE)

CalmsDown ==
  /\ ~calm
  /\ calm' = TRUE
  /\ UNCHANGED <<process, files, docker, labelled, spoilt>>

\* The user starts databox again.
UserStarts ==
  /\ At("off") /\ own = "gone"
  /\ own' = "fresh"
  /\ UNCHANGED <<process, files, others, coreNetwork, relay, secret, storeDNS,
                 world, spoilt>>

-----------------------------------------------------------------------------
Init ==
  /\ pc = "off" /\ writing = FALSE /\ bad = FALSE /\ listed = {} /\ pair = None
  /\ resolver = None /\ env = None /\ outlived = FALSE /\ exporting = FALSE
  /\ files = [f \in File |-> "absent"]
  /\ own = "fresh" /\ others = {} /\ coreNetwork = None /\ relay = FALSE
  /\ secret = [n \in Secret |-> None] /\ storeDNS = None
  /\ labelled \in Labels /\ calm = FALSE /\ spoilt = {}

\* main waits for ever on a channel that nobody writes to.
Quiet == At("serving") /\ ~exporting /\ UNCHANGED vars

Loader ==
  \/ \E f \in File : Generate(f)
  \/ GenCertPanics
  \/ CheckForAndFixBadRestarts \/ RemoveCoreNetwork \/ DropSecrets
  \/ StartCoreNetwork \/ StartCoreNetworkRelay
  \/ CreateFileSecrets \/ CreatePublicKey \/ CreateSecretKey
  \/ WriteResolver \/ UpdateContainerManager \/ UpdateRefused \/ Rebooted
  \/ NotRebooted \/ StartArbiter \/ ArbiterRefused \/ ArbiterRuns \/ ArbiterLate

Start == LaunchCMStore \/ Serve \/ ServeRefused

Export == StartExportService \/ ExportRefused

Next ==
  \/ Loader \/ Start \/ Export
  \/ \E s \in Service \cup {Self} : RemoveService(s)
  \/ TaskStarts \/ TaskStops \/ RebootedLate \/ Crash \/ HostReboots \/ CalmsDown
  \/ UserStarts \/ Quiet

Spec == Init /\ [][Next]_vars

-----------------------------------------------------------------------------
(* Properties *)

\* The arbiter has the secret key of the pair whose public key everybody else is
\* given, however often the process died, unless it died between making the two
\* or one could not be made: each start makes a pair, keeps each half only if
\* there is none, and the clean-up spares them.
KeysMatch ==
  "keys" \notin spoilt /\ "arbiter" \in others =>
    secret["ZMQ_PUBLIC_KEY"] = secret["ZMQ_SECRET_KEY"]

\* What the manager itself calls through the core-network is resolved by the
\* databox-network container that runs, be it another than the service was updated
\* with, unless the manager outlived its update, and the relay runs unless the
\* process died before it was started.  Of its store see StoreResolves.
CoreNetworkReady ==
  pc \in After =>
    /\ coreNetwork # None
    /\ resolver = coreNetwork \/ outlived
    /\ "relay" \notin spoilt => relay

\* A store has databox-network for its DNS server if that has not moved since the
\* manager's service was updated: no store is left from a life that had not been
\* given its address yet, unless the clean-up passed over it or failed.
StoreResolves ==
  pc \in {"serve", "serving"} /\ own = coreNetwork =>
    storeDNS = coreNetwork \/ outlived \/ spoilt \cap {"alone", "remove"} # {}

\* The restart that updateContainerManager causes is never taken for a bad one:
\* nothing else runs yet, or has been removed.
UpdateIsNoBadRestart ==
  At("rebooting") /\ "remove" \notin spoilt => ~BadRestart

\* There is no CA without its public part, which GenRootCA makes first and makes
\* again when it died before the rest: certificates could not be verified.
PublicPartFirst == files["ca"] # "absent" => files["pub"] = "whole"

-----------------------------------------------------------------------------
(* Liveness *)

\* The process runs, docker answers, and the user starts databox again when it
\* has removed itself; one day the process is killed from outside, and a call
\* fails, for the last time.  Swarm does not for ever stop it just before it
\* removes some service.
Fairness ==
  /\ WF_vars(Loader) /\ WF_vars(Start) /\ WF_vars(Export)
  /\ WF_vars(TaskStarts) /\ WF_vars(TaskStops) /\ WF_vars(UserStarts)
  /\ WF_vars(CalmsDown)
  /\ \A s \in Service \cup {Self} : SF_vars(RemoveService(s))

FairSpec == Spec /\ Fairness

\* The manager serves in the end and goes on serving, whatever state it died in,
\* but for a file left empty and a single old service it does not see.
ServesAgain == <>[](At("serving") \/ spoilt \cap {"file", "alone"} # {})
=============================================================================
