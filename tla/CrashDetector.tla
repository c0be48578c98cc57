----------------------------- MODULE CrashDetector -----------------------------
(***************************************************************************)
(* How the container manager restarts components and notices crashes        *)
(* (crashDetectore, Restart and WaitForService of containerManager.go, the  *)
(* restart and uninstall commands of cmZestAPI.go).                         *)
(*                                                                         *)
(* Swarm replaces the container of a service whenever it ends.  What the    *)
(* container manager adds is to tell the core-network that the address      *)
(* changed, which it does for containers it ended itself.  The detector     *)
(* reads docker's events one at a time and has to tell a crash from a       *)
(* restart and from an uninstall; it restarts a crashed component itself,   *)
(* and reads no event until that restart returns.                           *)
(*                                                                         *)
(* A container is named by its service and the number of its task, which    *)
(* stands for its address as well: every new container has a new one.       *)
(***************************************************************************)
EXTENDS Naturals, Sequences

CONSTANTS
  Service,     \* apps, drivers and their stores
  Labelled,    \* those whose containers carry the label databox.type
  BeginsWith,  \* the services whose name begins with the name of a service
  Network,     \* those with a network of their own name: all but the stores
  Request,     \* restart and uninstall commands, each served by one goroutine
  Detector,    \* the goroutine of crashDetectore
  Timeout,     \* polls of WaitForService
  MaxCrashes,  \* bound on the number of crashes
  CallsFail    \* may docker not remove a service, the core-network not answer?

Worker == Request \cup {Detector}

ASSUME WorkersAssumption ==
  /\ Labelled \subseteq Service
  /\ BeginsWith \in [Service -> SUBSET Service]
  /\ \A n \in Service : n \in BeginsWith[n]
  /\ Network \subseteq Service
  /\ Detector \notin Request \cup Service
  /\ Timeout \in Nat
  /\ MaxCrashes \in Nat
  /\ CallsFail \in BOOLEAN

VARIABLES
  exists,             \* swarm: the services
  task,               \* swarm: per service, the number of its latest container
  up,                 \* swarm: the services whose latest container runs
  events,             \* docker's events that the detector has not read
  worker,             \* per goroutine: pc and locals
  restartDetected,    \* containers killed by a restart, says an event
  uninstallDetected,  \* services removed, says an event
  known,              \* per service: its address, as the core-network knows it
  crashes,            \* number of crashes so far
  ended,              \* history: containers ended on purpose while the detector reads
  taken,              \* history: services removed by an uninstall of another name
  disturbed           \* history: services that crashed, or whose restart or uninstall
                      \* met another goroutine, timed out or had a call fail

swarm == <<exists, task, up>>
flags == <<restartDetected, uninstallDetected>>
history == <<crashes, ended, taken, disturbed>>
vars == <<swarm, events, worker, flags, known, history>>

Container == Service \X Nat
RestartPC == {"list", "stop", "dying", "wait", "report"}
UninstallPC == {"find", "address", "remove", "disconnect"}
PC == RestartPC \cup UninstallPC \cup {"off", "select", "idle", "done"}

Event == [kind : {"kill", "die", "remove"}, name : Service, task : Nat]

WorkerRecord == [pc : PC, name : Service \cup {Detector}, old : Nat, new : Nat,
                 polls : 0..Timeout, victim : Service \cup {Detector}]

NoWork(l) == [pc |-> l, name |-> Detector, old |-> 0, new |-> 0, polls |-> 0,
              victim |-> Detector]
Working(l, n) == [NoWork(l) EXCEPT !.name = n]

TypeOK ==
  /\ exists \subseteq Service
  /\ task \in [Service -> Nat]
  /\ up \subseteq Service
  /\ events \in Seq(Event)
  /\ worker \in [Worker -> WorkerRecord]
  /\ restartDetected \subseteq Container
  /\ uninstallDetected \subseteq Service
  /\ known \in [Service -> Nat]
  /\ crashes \in 0..MaxCrashes
  /\ ended \subseteq Container
  /\ taken \subseteq Service
  /\ disturbed \subseteq Service

-----------------------------------------------------------------------------
At(w, l) == worker[w].pc = l
Goto(w, l) == worker' = [worker EXCEPT ![w].pc = l]

Works(w, l) == [worker EXCEPT ![w] = l]
Finish(w) == worker' = Works(w, NoWork(IF w = Detector THEN "select" ELSE "done"))
WorksOn(w, n) == n \in {worker[w].name, worker[w].victim}
Busy(n) == \E w \in Worker : WorksOn(w, n)

Running(n, k) == n \in up /\ task[n] = k
Watching == ~At(Detector, "off")

Say(kind, n, k) == [kind |-> kind, name |-> n, task |-> k]

\* The detector sees the events that happen once it has subscribed.
Emit(said) == events' = IF Watching THEN events \o said ELSE events
EndsOnPurpose(n) ==
  ended' = IF Watching /\ n \in up THEN ended \cup {<<n, task[n]>>} ELSE ended

-----------------------------------------------------------------------------
(* Swarm *)

\* The service has no container that runs: swarm starts one.
StartTask(n) ==
  /\ n \in exists \ up
  /\ task' = [task EXCEPT ![n] = @ + 1]
  /\ up' = up \cup {n}
  /\ UNCHANGED <<exists, events, worker, flags, known, history>>

\* The service is gone: swarm stops its container, by force if need be.
StopTask(n) ==
  /\ n \in up \ exists
  /\ up' = up \ {n}
  /\ \E forced \in BOOLEAN :
       Emit((IF forced THEN <<Say("kill", n, task[n])>> ELSE <<>>)
              \o <<Say("die", n, task[n])>>)
  /\ UNCHANGED <<exists, task, worker, flags, known, history>>

\* The component crashes.
CrashTask(n) ==
  /\ n \in up /\ crashes < MaxCrashes
  /\ crashes' = crashes + 1
  /\ up' = up \ {n}
  /\ Emit(<<Say("die", n, task[n])>>)
  /\ disturbed' = disturbed \cup {n}
  /\ UNCHANGED <<exists, task, worker, flags, known, ended, taken>>

-----------------------------------------------------------------------------
(* Restart *)

\* Restart looks for a container that runs, and gives up without one.
List(w) ==
  LET n == worker[w].name IN
  /\ At(w, "list")
  /\ IF n \in up
       THEN worker' = [worker EXCEPT ![w].pc = "stop", ![w].old = task[n]]
       ELSE Finish(w)
  /\ UNCHANGED <<swarm, events, flags, known, history>>

\* ContainerRemove kills the container.  When another restart is about to
\* remove it that is an error, and when it has ended the call fails or not,
\* depending on whether somebody has removed what is left of it.
Stop(w) ==
  LET n == worker[w].name
      k == worker[w].old IN
  /\ At(w, "stop")
  /\ \/ /\ Running(n, k)
        /\ \A v \in Worker : worker[v].name = n => ~At(v, "dying")
        /\ Emit(<<Say("kill", n, k)>>)
        /\ EndsOnPurpose(n)
        /\ Goto(w, "dying")
     \/ /\ Running(n, k) => \E v \in Worker : worker[v].name = n /\ At(v, "dying")
        /\ Finish(w)
        /\ UNCHANGED <<events, ended>>
     \/ /\ ~Running(n, k)
        /\ Goto(w, "wait")
        /\ UNCHANGED <<events, ended>>
  /\ UNCHANGED <<swarm, flags, known, crashes, taken, disturbed>>

\* It returns when the container is gone.
Stopped(w) ==
  LET n == worker[w].name
      k == worker[w].old IN
  /\ At(w, "dying")
  /\ IF Running(n, k)
       THEN up' = up \ {n} /\ Emit(<<Say("die", n, k)>>)
       ELSE UNCHANGED <<up, events>>
  /\ Goto(w, "wait")
  /\ UNCHANGED <<exists, task, flags, known, history>>

\* Mutant: polls are not counted.
WaitForEver(w) ==
  LET n == worker[w].name IN
  /\ At(w, "wait")
  /\ worker' = IF n \in up
                 THEN [worker EXCEPT ![w].pc = "report", ![w].new = task[n]]
                 ELSE worker
  /\ UNCHANGED <<swarm, events, flags, known, history>>

\* Mutant: the last poll is not the last.
WaitOnceMore(w) ==
  LET n == worker[w].name IN
  /\ At(w, "wait")
  /\ \/ /\ n \in up
        /\ worker' = [worker EXCEPT ![w].pc = "report", ![w].new = task[n]]
        /\ UNCHANGED disturbed
     \/ /\ n \notin up /\ worker[w].polls <= Timeout
        /\ worker' = [worker EXCEPT ![w].polls = @ + 1]
        /\ UNCHANGED disturbed
     \/ /\ n \notin up /\ worker[w].polls > Timeout
        /\ Finish(w)
        /\ disturbed' = disturbed \cup {n}
  /\ UNCHANGED <<swarm, events, flags, known, crashes, ended, taken>>

\* WaitForService polls until a container runs or its time is over.  What it
\* returns was read before it sleeps for another three seconds.
WaitForService(w) ==
  LET n == worker[w].name IN
  /\ At(w, "wait")
  /\ \/ /\ n \in up
        /\ worker' = [worker EXCEPT ![w].pc = "report", ![w].new = task[n]]
        /\ UNCHANGED disturbed
     \/ /\ n \notin up /\ worker[w].polls < Timeout
        /\ worker' = [worker EXCEPT ![w].polls = @ + 1]
        /\ UNCHANGED disturbed
     \/ /\ n \notin up /\ worker[w].polls = Timeout
        /\ Finish(w)
        /\ disturbed' = disturbed \cup {n}
  /\ UNCHANGED <<swarm, events, flags, known, crashes, ended, taken>>

\* Mutant: the two addresses are swapped.
ReportSwapped(w) ==
  LET n == worker[w].name IN
  /\ At(w, "report")
  /\ known' = [known EXCEPT ![n] = IF @ = worker[w].new THEN worker[w].old ELSE @]
  /\ Finish(w)
  /\ UNCHANGED <<swarm, events, flags, history>>

\* The core-network is told of both addresses, and replaces the one by the other.
ServiceRestart(w) ==
  LET n == worker[w].name IN
  /\ At(w, "report")
  /\ \/ /\ known' = [known EXCEPT ![n] = IF @ = worker[w].old THEN worker[w].new ELSE @]
        /\ UNCHANGED disturbed
     \/ /\ CallsFail
        /\ disturbed' = disturbed \cup {n}
        /\ UNCHANGED known
  /\ Finish(w)
  /\ UNCHANGED <<swarm, events, flags, crashes, ended, taken>>

Restart(w) == List(w) \/ Stop(w) \/ Stopped(w) \/ WaitForService(w) \/ ServiceRestart(w)

-----------------------------------------------------------------------------
(* Uninstall, as far as containers and addresses go *)

\* The docker name filter returns the services whose name begins with n.
Listed(n) == BeginsWith[n] \cap exists

\* The first service listed is the one to remove, and the exact name sorts
\* first: without it, that is a store of the component or another component.
Find(w) ==
  LET n == worker[w].name IN
  /\ At(w, "find")
  /\ \/ Listed(n) = {} /\ Finish(w) /\ UNCHANGED disturbed
     \/ \E m \in Listed(n) :
          /\ n \in Listed(n) => m = n
          /\ worker' = [worker EXCEPT ![w].pc = "address", ![w].victim = m]
          /\ disturbed' = IF m # n /\ Busy(m) THEN disturbed \cup {m} ELSE disturbed
  /\ UNCHANGED <<swarm, events, flags, known, crashes, ended, taken>>

\* NetworkOfService looks for the address of that service on the network of
\* that name, which a store does not have.  The address is empty (0) without
\* the network, and while no container runs.
NetworkOfService(w) ==
  LET m == worker[w].victim IN
  /\ At(w, "address")
  /\ worker' = [worker EXCEPT ![w].pc = "remove",
                              ![w].old = IF m \in up \cap Network THEN task[m] ELSE 0]
  /\ UNCHANGED <<swarm, events, flags, known, history>>

\* Only the first ServiceRemove of a service is an event; the error of another,
\* or of one that fails, is logged and the uninstall goes on.
RemoveService(w) ==
  LET m == worker[w].victim IN
  /\ At(w, "remove")
  /\ \/ /\ m \in exists
        /\ exists' = exists \ {m}
        /\ Emit(<<Say("remove", m, 0)>>)
        /\ EndsOnPurpose(m)
        /\ taken' = IF m # worker[w].name THEN taken \cup {m} ELSE taken
        /\ UNCHANGED disturbed
     \/ /\ m \notin exists \/ CallsFail
        /\ disturbed' = disturbed \cup {m}
        /\ UNCHANGED <<exists, events, ended, taken>>
  /\ Goto(w, "disconnect")
  /\ UNCHANGED <<task, up, flags, known, crashes>>

\* The core-network is told the name and the address read before the removal,
\* and forgets that the name has this address.
DisconnectEndpoints(w) ==
  LET n == worker[w].name IN
  /\ At(w, "disconnect")
  /\ \/ /\ known' = [known EXCEPT ![n] =
                        IF worker[w].victim = n /\ @ = worker[w].old THEN 0 ELSE @]
        /\ UNCHANGED disturbed
     \/ CallsFail /\ disturbed' = disturbed \cup {n} /\ UNCHANGED known
  /\ Finish(w)
  /\ UNCHANGED <<swarm, events, flags, crashes, ended, taken>>

Uninstall(w) ==
  Find(w) \/ NetworkOfService(w) \/ RemoveService(w) \/ DisconnectEndpoints(w)

\* processAPICommands starts a goroutine for each command, whatever runs.
Command(r, n) ==
  /\ At(r, "idle")
  /\ \E l \in {"list", "find"} : worker' = Works(r, Working(l, n))
  /\ disturbed' = IF Busy(n) THEN disturbed \cup {n} ELSE disturbed
  /\ UNCHANGED <<swarm, events, flags, known, crashes, ended, taken>>

-----------------------------------------------------------------------------
(* The detector *)

\* Start runs it when reloadApps is done.
Watch ==
  /\ At(Detector, "off")
  /\ Goto(Detector, "select")
  /\ UNCHANGED <<swarm, events, flags, known, history>>

NextIs(kind) == At(Detector, "select") /\ events # <<>> /\ Head(events).kind = kind

\* A service was removed.
NoteUninstall ==
  /\ NextIs("remove")
  /\ events' = Tail(events)
  /\ uninstallDetected' = uninstallDetected \cup {Head(events).name}
  /\ UNCHANGED <<swarm, worker, restartDetected, known, history>>

\* A container was killed with signal 9.
NoteRestart ==
  /\ NextIs("kill")
  /\ events' = Tail(events)
  /\ restartDetected' = restartDetected \cup {<<Head(events).name, Head(events).task>>}
  /\ UNCHANGED <<swarm, worker, uninstallDetected, known, history>>

\* Mutant: a flag stays.
KeepRestartFlag ==
  /\ NextIs("die")
  /\ <<Head(events).name, Head(events).task>> \in restartDetected
  /\ events' = Tail(events)
  /\ UNCHANGED <<swarm, worker, flags, known, history>>

\* A container ended that a restart killed,
EndOfRestart ==
  LET c == <<Head(events).name, Head(events).task>> IN
  /\ NextIs("die") /\ c \in restartDetected
  /\ events' = Tail(events)
  /\ restartDetected' = restartDetected \ {c}
  /\ UNCHANGED <<swarm, worker, uninstallDetected, known, history>>

\* or whose service was removed,
EndOfUninstall ==
  LET n == Head(events).name IN
  /\ NextIs("die")
  /\ <<n, Head(events).task>> \notin restartDetected
  /\ n \in uninstallDetected
  /\ events' = Tail(events)
  /\ uninstallDetected' = uninstallDetected \ {n}
  /\ UNCHANGED <<swarm, worker, restartDetected, known, history>>

\* Mutant: the detector does not look at the removed services.
RestartsRemoved ==
  LET n == Head(events).name IN
  /\ NextIs("die")
  /\ <<n, Head(events).task>> \notin restartDetected
  /\ events' = Tail(events)
  /\ worker' = Works(Detector, Working("list", n))
  /\ disturbed' = IF Busy(n) THEN disturbed \cup {n} ELSE disturbed
  /\ UNCHANGED <<swarm, flags, known, crashes, ended, taken>>

\* or that crashed: the detector calls Restart and waits for it to return.
EndOfCrash ==
  LET n == Head(events).name IN
  /\ NextIs("die")
  /\ <<n, Head(events).task>> \notin restartDetected
  /\ n \notin uninstallDetected
  /\ events' = Tail(events)
  /\ IF n \in Labelled
       THEN /\ worker' = Works(Detector, Working("list", n))
            /\ disturbed' = IF Busy(n) THEN disturbed \cup {n} ELSE disturbed
       ELSE UNCHANGED <<worker, disturbed>>
  /\ UNCHANGED <<swarm, flags, known, crashes, ended, taken>>

Detect == NoteUninstall \/ NoteRestart \/ EndOfRestart \/ EndOfUninstall \/ EndOfCrash

-----------------------------------------------------------------------------
Init ==
  /\ exists = Service /\ up = Service
  /\ task = [n \in Service |-> 1] /\ known = [n \in Service |-> 1]
  /\ events = <<>>
  /\ worker = [w \in Worker |-> NoWork(IF w = Detector THEN "off" ELSE "idle")]
  /\ restartDetected = {} /\ uninstallDetected = {}
  /\ crashes = 0 /\ ended = {} /\ taken = {} /\ disturbed = {}

\* All commands are served and no event is left.
Quiet ==
  /\ \A r \in Request : At(r, "done")
  /\ At(Detector, "select") /\ events = <<>>
  /\ up = exists

Next ==
  \/ Watch \/ Detect
  \/ \E n \in Service : StartTask(n) \/ StopTask(n) \/ CrashTask(n)
  \/ \E r \in Request, n \in Service : Command(r, n)
  \/ \E w \in Worker : Restart(w) \/ Uninstall(w)
  \/ Quiet /\ UNCHANGED vars

Spec == Init /\ [][Next]_vars

-----------------------------------------------------------------------------
(* Properties *)

\* The detector restarts nothing that was restarted or uninstalled on purpose
\* while it reads events, however late it reads of it: crashDetectore tells the
\* three apart by the order of docker's events alone.
SparesEnded ==
  [][At(Detector, "select") /\ At(Detector, "list")'
       => <<Head(events).name, Head(events).task>> \notin ended]_vars

\* The core-network knows the address of each service, and of those that are gone
\* no longer but for the stores, which have no network to read it from, and for
\* what an uninstall of another name took: unless the service crashed, a call for
\* it failed or timed out, or two goroutines met on it.  Restart reports the
\* address before and the one after, and Uninstall the one before.
AddressKnown ==
  \A n \in Service \ disturbed : ~Busy(n) =>
    known[n] = IF n \in exists \cup taken \cup (Service \ Network) THEN task[n] ELSE 0

\* Each flag of a restart waits for an event that clears it, so that the map
\* does not grow and no flag hides a later crash.
FlagsCleared ==
  \A c \in restartDetected :
    \/ Running(c[1], c[2])
    \/ \E i \in 1..Len(events) :
         events[i].kind = "die" /\ <<events[i].name, events[i].task>> = c

-----------------------------------------------------------------------------
(* Liveness *)

\* The goroutine of the detector runs and docker answers it.  Nothing is asked
\* of swarm or of the other goroutines.
Fairness == WF_vars(Watch) /\ WF_vars(Detect) /\ WF_vars(Restart(Detector))

FairSpec == Spec /\ Fairness

\* Whatever it waits for, the detector comes back to read what happened.
EventsRead == []<>(At(Detector, "select") /\ events = <<>>)
=============================================================================
