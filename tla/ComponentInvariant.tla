-------------------------- MODULE ComponentInvariant --------------------------
(***************************************************************************)
(* The inductive invariant behind the safety properties of                  *)
(* ComponentLifecycle: what holds of a component between any two calls of   *)
(* the jobs that work on it.  It follows a job from call to call, so that   *)
(* each property is what is left of it when the job is done.                *)
(***************************************************************************)
EXTENDS ComponentLifecycle

\* A launch before the service of its component is there, and after.
BuildPC == LaunchPC \ {"save", "track"}
BuiltPC == {"save", "track"}
\* An uninstall once the service of its component is gone.
GonePC  == UninstallPC \ {"find", "remove"}

\* From some call on.
AfterNetwork  == BuildPC \ {"preconfig", "netcreate", "netattach"}
AfterRegister == AfterNetwork \ {"config", "unsecret", "secret", "register"}
AfterConnect  == AfterRegister \ {"connect"}

\* What a job works on, and with what.
JobNamed(j) ==
  /\ phase # "down"
  /\ job[j].name \in Component
  /\ j \in Component => /\ job[j].name = j
                        /\ job[j].pc \in LaunchPC \ {"save"}
                        /\ j \in Builtin \/ (phase # "serving" /\ j \in reload)
  /\ j \in Request /\ job[j].pc \in LaunchPC => job[j].name \notin Builtin
  /\ At(j, "remove") => /\ job[j].victim \in BeginsWith[job[j].name]
                        /\ job[j].id # Nobody
  /\ At(j, "dropsecrets") => job[j].listed \subseteq BeginsWith[job[j].name] \X Job

JobsNamed == \A j \in Job : Active(j) => JobNamed(j)

\* How far Start has come.
BootOK ==
  /\ sla \cap Builtin = {}
  /\ phase = "down" => installed = {}
  /\ phase \in {"apps", "ready"} => \A c \in reload \cap Driver : ~Active(c)
  /\ phase = "ready" => \A c \in reload : ~Active(c)

\* A service holds the token of the launch that made it.
SecretsHeld == \A n \in Name : Running(n) => secret[n] = service[n]

\* A job that has the address of a DNS server read it off an attached network.
ResolversHeld ==
  /\ ResolverReachable
  /\ \A j \in Job : job[j].pc \in LaunchPC /\ job[j].dns => net[job[j].name] = "attached"

\* Permissions are there before the service is created.
GrantsHeld ==
  \A j \in Job : At(j, "create") =>
    job[j].name \in failed \/ SlaStores(job[j].name) \subseteq grants[job[j].name]

\* What a service that runs was given, and what it needs around it.
Whole(c) ==
  /\ Running(c) =>
       /\ arbiter[c] = service[c]
       /\ c \in HasStore => Running(StoreOf[c])
       /\ c \in connected
       /\ c \in resolver /\ net[c] = "attached"
  /\ Running(StoreOf[c]) => arbiter[StoreOf[c]] = service[StoreOf[c]]

\* What is listed as installed runs, and unless a call failed what runs is.
Booked(c) ==
  /\ c \in installed => Running(c)
  /\ Running(c) /\ c \notin failed => c \in installed

\* A job alone with its component knows whether it runs.
Knows(j, c) ==
  /\ job[j].pc \in BuildPC => ~Running(c) /\ c \notin installed
  /\ job[j].pc \in BuiltPC => Running(c) /\ c \notin installed
  /\ job[j].pc \in {"find", "remove"} => Booked(c)
  /\ At(j, "remove") => job[j].victim = c \/ ~Running(c)
  /\ job[j].pc \in GonePC /\ c \notin failed => ~Running(c)

\* One job at a time; without any, the books agree with docker.
Solo(c) ==
  /\ \A j, k \in Job : On(j, c) /\ On(k, c) => j = k
  /\ Pending(c) => ~Running(c) /\ c \notin installed /\ \A j \in Job : ~On(j, c)
  /\ \A j \in Job : On(j, c) => Knows(j, c)
  /\ (\A j \in Job : ~On(j, c)) => Booked(c)

\* What the calls made so far have left for the next, when they succeeded.
Ready(j, c) ==
  /\ job[j].pc \in AfterNetwork => job[j].dns /\ net[c] = "attached"
  /\ job[j].pc \in AfterRegister => arbiter[c] = j
  /\ job[j].pc \in AfterConnect => c \in connected
  /\ job[j].pc \in {"storeunsecret", "storesecret", "storeregister", "storecreate"} =>
       ~Running(StoreOf[c])
  /\ At(j, "storecreate") => arbiter[StoreOf[c]] = j
  /\ job[j].pc \in {"grant", "create"} /\ c \in HasStore => Running(StoreOf[c])

Prepared(c) ==
  /\ net[c] = "bare" => \E j \in Job : On(j, c) /\ At(j, "netattach")
  /\ \A j \in Job : On(j, c) => Ready(j, c)

\* What the SLA store says of the component, when no call failed.
Keeps(j, c) ==
  /\ j \in Component => c \in sla \cup Builtin
  /\ At(j, "track") => c \in sla \cup Builtin
  /\ At(j, "untrack") => c \notin sla

Saved(c) ==
  /\ Pending(c) => c \in sla
  /\ \A j \in Job : On(j, c) => Keeps(j, c)
  /\ Running(c) /\ (\A j \in Job : On(j, c) => ~At(j, "save")) => c \in sla \cup Builtin
  /\ c \in sla /\ phase \in {"drivers", "apps", "ready"} =>
       \/ Running(c) \/ Pending(c)
       \/ On(c, c)
       \/ \E r \in Request : On(r, c) /\ job[r].pc \in GonePC

IInv ==
  /\ TypeOK
  /\ JobsNamed
  /\ BootOK
  /\ SecretsHeld
  /\ ResolversHeld
  /\ GrantsHeld /\ PermissionsBeforeRun
  /\ \A c \in Component \ contended :
       /\ c \notin failed => Whole(c)
       /\ phase # "down" => Solo(c)
       /\ phase # "down" /\ c \notin failed => Prepared(c) /\ Saved(c)
=============================================================================
