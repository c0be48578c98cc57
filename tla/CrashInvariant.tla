---------------------------- MODULE CrashInvariant ----------------------------
(***************************************************************************)
(* Why the detector of CrashDetector spares what ended on purpose: where    *)
(* the flags of a container are, and in which order the events about it     *)
(* wait to be read.  And why the core-network knows the address of what     *)
(* runs: what each step of a restart or uninstall knows of it.              *)
(***************************************************************************)
EXTENDS CrashDetector

\* A goroutine at work is on a service.
WorkersNamed ==
  \A w \in Worker :
    /\ worker[w].pc \in RestartPC \cup UninstallPC => worker[w].name \in Service
    /\ worker[w].pc \in {"address", "remove", "disconnect"} => worker[w].victim \in Service

Typed == TypeOK /\ WorkersNamed

IsDie(i, n, k) == events[i].kind = "die" /\ events[i].name = n /\ events[i].task = k
IsKill(i, n, k) == events[i].kind = "kill" /\ events[i].name = n /\ events[i].task = k
IsRemoval(i, n) == events[i].kind = "remove" /\ events[i].name = n

\* Before it subscribes the detector has seen and flagged nothing.
NothingSeen == events = <<>> /\ ended = {} /\ restartDetected = {} /\ uninstallDetected = {}

\* A container ends once, and does not run when its end waits to be read.
EndsOnce ==
  \A n \in Service, k \in Nat, i \in 1..Len(events) : IsDie(i, n, k) =>
    /\ k <= task[n] /\ ~Running(n, k)
    /\ \A j \in 1..Len(events) : IsDie(j, n, k) => i = j

\* What ends after its service was removed is the last container of the service.
RemovedLast ==
  \A n \in Service :
    /\ n \in uninstallDetected =>
         /\ n \notin exists
         /\ \A k \in Nat, i \in 1..Len(events) : IsDie(i, n, k) => k = task[n]
    /\ \A j \in 1..Len(events) : IsRemoval(j, n) =>
         /\ n \notin exists
         /\ \A k \in Nat, i \in 1..Len(events) : i > j /\ IsDie(i, n, k) => k = task[n]

\* Once the first i - 1 events are read, the container has a flag.
Flagged(i, n, k) ==
  \/ <<n, k>> \in restartDetected
  \/ \E j \in 1..Len(events) : j < i /\ IsKill(j, n, k)
  \/ /\ k = task[n] /\ n \notin exists
     /\ \/ n \in uninstallDetected
        \/ \E j \in 1..Len(events) : j < i /\ IsRemoval(j, n)

\* A container that was ended on purpose has one when its end is read.
EndedFlagged ==
  \A n \in Service, k \in Nat : <<n, k>> \in ended =>
    /\ k <= task[n]
    /\ \A i \in 1..Len(events) : IsDie(i, n, k) => Flagged(i, n, k)
    /\ Running(n, k) => Flagged(Len(events) + 1, n, k)

SparesInv ==
  /\ ~Watching => NothingSeen
  /\ EndsOnce
  /\ RemovedLast
  /\ EndedFlagged

-----------------------------------------------------------------------------
(* The flags of restarts *)

\* The end of a container that was killed is read after its kill.
KillsEnd ==
  \A n \in Service, k \in Nat, i \in 1..Len(events) : IsKill(i, n, k) =>
    \/ Running(n, k)
    \/ \E j \in 1..Len(events) : j > i /\ IsDie(j, n, k)

FlagsInv ==
  /\ ~Watching => NothingSeen
  /\ KillsEnd
  /\ FlagsCleared

-----------------------------------------------------------------------------
(* Addresses *)

\* A goroutine that is not at work has no service, and one that has not found
\* what to remove removes nothing.
IdleNameless ==
  \A w \in Worker :
    /\ worker[w].pc \notin RestartPC \cup UninstallPC => worker[w].name = Detector
    /\ worker[w].pc \notin {"address", "remove", "disconnect"} => worker[w].victim = Detector

\* What is known of the service when nobody works on it.
Settled(n) ==
  /\ n \in exists => n \in up
  /\ known[n] = IF n \in exists \cup taken \cup (Service \ Network) THEN task[n] ELSE 0

\* The address that an uninstall reads.
AddressRead(n) == IF n \in Network THEN task[n] ELSE 0

\* What it is at each step of the only goroutine that restarts it,
RestartStage(w, n) ==
  /\ worker[w].pc \in {"list", "stop", "dying"} => Settled(n)
  /\ worker[w].pc \in {"stop", "dying"} => worker[w].old = task[n]
  /\ worker[w].pc = "wait" =>
       IF n \in exists THEN known[n] = worker[w].old ELSE Settled(n) /\ n \notin up
  /\ worker[w].pc = "report" =>
       /\ n \in exists \cap up
       /\ known[n] = worker[w].old /\ worker[w].new = task[n]

\* or takes it for the service to remove, in its own name or another,
RemoveStage(w, n) ==
  /\ worker[w].pc \in {"address", "remove"} => n \in exists /\ Settled(n)
  /\ worker[w].pc = "remove" => worker[w].old = AddressRead(n)
  /\ worker[w].pc = "disconnect" =>
       /\ n \notin exists
       /\ IF worker[w].name = n
            THEN known[n] = task[n] /\ worker[w].old = AddressRead(n) /\ n \notin taken
            ELSE n \in taken /\ Settled(n)

\* or removes another service in its name.
Stage(w, n) ==
  IF worker[w].victim = n THEN RemoveStage(w, n)
  ELSE /\ worker[w].pc \in RestartPC => RestartStage(w, n)
       /\ worker[w].pc \in UninstallPC => Settled(n)

Followed(n) ==
  /\ n \in exists => n \notin taken
  /\ \A v, w \in Worker : WorksOn(v, n) /\ WorksOn(w, n) => v = w
  /\ ~Busy(n) => Settled(n)
  /\ \A w \in Worker : WorksOn(w, n) => Stage(w, n)

AddressInv ==
  /\ IdleNameless
  /\ \A n \in Service : task[n] # 0
  /\ \A n \in Service \ disturbed : Followed(n)
=============================================================================
