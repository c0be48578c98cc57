------------------------- MODULE CrashDetector_proofs -------------------------
(***************************************************************************)
(* Proofs that the detector restarts nothing that was ended on purpose and  *)
(* that none of its flags stays, and that the core-network knows the        *)
(* addresses of what runs, whatever the services, commands and crashes and  *)
(* however many events wait.                                                *)
(***************************************************************************)
EXTENDS CrashInvariant, TLAPS

-----------------------------------------------------------------------------
(* Types *)

\* A goroutine that goes on keeps its locals.
LEMMA GotoWorker ==
  ASSUME TypeOK, NEW w \in Worker, NEW l \in PC, Goto(w, l)
  PROVE  /\ worker' \in [Worker -> WorkerRecord]
         /\ worker'[w].pc = l /\ worker'[w].name = worker[w].name
         /\ worker'[w].victim = worker[w].victim
         /\ \A v \in Worker \ {w} : worker'[v] = worker[v]
BY DEF TypeOK, Goto, WorkerRecord

\* A goroutine that has not started has no locals.
LEMMA FreshWorker ==
  ASSUME NEW l \in PC
  PROVE  NoWork(l) \in WorkerRecord /\ NoWork(l).pc = l
BY WorkersAssumption DEF NoWork, WorkerRecord

\* A goroutine that starts has a service.
LEMMA StartedWorker ==
  ASSUME NEW l \in PC, NEW n \in Service
  PROVE  /\ Working(l, n) \in WorkerRecord
         /\ Working(l, n).pc = l /\ Working(l, n).name = n
BY WorkersAssumption DEF NoWork, Working, WorkerRecord

\* A goroutine that returns goes back to its start.
LEMMA FinishWorker ==
  ASSUME TypeOK, NEW w \in Worker, Finish(w)
  PROVE  /\ worker' \in [Worker -> WorkerRecord]
         /\ worker'[w].pc \in {"select", "done"}
         /\ \A v \in Worker \ {w} : worker'[v] = worker[v]
<1>1. {"select", "done"} \subseteq PC
  BY DEF PC
<1>2. /\ NoWork("select") \in WorkerRecord /\ NoWork("select").pc = "select"
      /\ NoWork("done") \in WorkerRecord /\ NoWork("done").pc = "done"
  BY <1>1, FreshWorker
<1> QED  BY <1>2 DEF TypeOK, Finish, Works

\* Events are of the container that they are said of.
LEMMA EventType ==
  ASSUME NEW kind \in {"kill", "die", "remove"}, NEW n \in Service, NEW k \in Nat
  PROVE  /\ Say(kind, n, k) \in Event
         /\ Say(kind, n, k).kind = kind
         /\ Say(kind, n, k).name = n
         /\ Say(kind, n, k).task = k
BY DEF Say, Event

\* What a step does to the goroutine that takes it.
Moves == /\ worker' \in [Worker -> WorkerRecord]
         /\ WorkersNamed'
         /\ Watching' = Watching

\* A goroutine that moves on keeps the types and names of all.
LEMMA MoveOne ==
  ASSUME Typed, NEW w \in Worker, worker' \in [Worker -> WorkerRecord],
         \A v \in Worker \ {w} : worker'[v] = worker[v],
         worker[w].pc # "off", worker'[w].pc # "off",
         worker'[w].pc \in RestartPC \cup UninstallPC => worker'[w].name \in Service,
         worker'[w].pc \in {"address", "remove", "disconnect"} => worker'[w].victim \in Service
  PROVE  Moves
<1>1. Watching' = Watching
  BY DEF Watching, At, Worker
<1> QED  BY <1>1 DEF Moves, Typed, WorkersNamed

\* It moves on within its handler,
LEMMA MoveGoto ==
  ASSUME Typed, NEW w \in Worker, NEW l \in RestartPC \cup UninstallPC, Goto(w, l),
         worker[w].pc \in RestartPC \cup UninstallPC,
         l \in {"address", "remove", "disconnect"} => worker[w].victim \in Service
  PROVE  Moves
<1>1. l \in PC /\ l # "off" /\ worker[w].pc # "off" /\ worker[w].name \in Service
  BY DEF PC, RestartPC, UninstallPC, Typed, WorkersNamed
<1>2. TypeOK
  BY DEF Typed
<1>3. /\ worker' \in [Worker -> WorkerRecord]
      /\ worker'[w].pc = l /\ worker'[w].name = worker[w].name
      /\ worker'[w].victim = worker[w].victim
      /\ \A v \in Worker \ {w} : worker'[v] = worker[v]
  BY <1>1, <1>2, GotoWorker
<1> QED  BY <1>1, <1>3, MoveOne

\* returns from it,
LEMMA MoveFinish ==
  ASSUME Typed, NEW w \in Worker, Finish(w), worker[w].pc # "off"
  PROVE  Moves
<1>1. TypeOK
  BY DEF Typed
<1>2. /\ worker' \in [Worker -> WorkerRecord]
      /\ worker'[w].pc \in {"select", "done"}
      /\ \A v \in Worker \ {w} : worker'[v] = worker[v]
  BY <1>1, FinishWorker
<1>3. worker'[w].pc # "off" /\ worker'[w].pc \notin RestartPC \cup UninstallPC
  BY <1>2 DEF RestartPC, UninstallPC
<1> QED  BY <1>2, <1>3, MoveOne

\* or starts on a service.
LEMMA MoveStart ==
  ASSUME Typed, NEW w \in Worker, NEW n \in Service, NEW l \in {"list", "find"},
         worker' = Works(w, Working(l, n)), worker[w].pc # "off"
  PROVE  Moves
<1>1. l \in PC /\ l # "off"
  BY DEF PC, RestartPC, UninstallPC
<1>2. /\ Working(l, n) \in WorkerRecord
      /\ Working(l, n).pc = l /\ Working(l, n).name = n
  BY <1>1, StartedWorker
<1>3. /\ worker' \in [Worker -> WorkerRecord]
      /\ worker'[w] = Working(l, n)
      /\ \A v \in Worker \ {w} : worker'[v] = worker[v]
  BY <1>2 DEF Works, Typed, TypeOK
<1> QED  BY <1>1, <1>2, <1>3, MoveOne

\* Restart finds a container,
LEMMA MoveStop ==
  ASSUME Typed, NEW w \in Worker, At(w, "list"), NEW k \in Nat,
         worker' = [worker EXCEPT ![w].pc = "stop", ![w].old = k]
  PROVE  Moves
<1>1. "stop" \in PC /\ worker[w].pc # "off" /\ worker[w].name \in Service
  BY DEF PC, RestartPC, At, Typed, WorkersNamed
<1>2. /\ worker' \in [Worker -> WorkerRecord]
      /\ worker'[w].pc = "stop" /\ worker'[w].name = worker[w].name
      /\ \A v \in Worker \ {w} : worker'[v] = worker[v]
  BY <1>1 DEF Typed, TypeOK, WorkerRecord
<1> QED  BY <1>1, <1>2, MoveOne

\* finds the next one,
LEMMA MoveReport ==
  ASSUME Typed, NEW w \in Worker, At(w, "wait"), NEW k \in Nat,
         worker' = [worker EXCEPT ![w].pc = "report", ![w].new = k]
  PROVE  Moves
<1>1. "report" \in PC /\ worker[w].pc # "off" /\ worker[w].name \in Service
  BY DEF PC, RestartPC, At, Typed, WorkersNamed
<1>2. /\ worker' \in [Worker -> WorkerRecord]
      /\ worker'[w].pc = "report" /\ worker'[w].name = worker[w].name
      /\ \A v \in Worker \ {w} : worker'[v] = worker[v]
  BY <1>1 DEF Typed, TypeOK, WorkerRecord
<1> QED  BY <1>1, <1>2, MoveOne

\* or polls again.
LEMMA MovePoll ==
  ASSUME Typed, NEW w \in Worker, At(w, "wait"), worker[w].polls < Timeout,
         worker' = [worker EXCEPT ![w].polls = @ + 1]
  PROVE  Moves
<1>1. worker[w].pc # "off" /\ worker[w].name \in Service
  BY DEF RestartPC, At, Typed, WorkersNamed
<1>2. worker[w] \in WorkerRecord /\ worker[w].polls + 1 \in 0..Timeout
  BY WorkersAssumption DEF Typed, TypeOK, WorkerRecord
<1>3. /\ worker' \in [Worker -> WorkerRecord]
      /\ worker'[w].pc = worker[w].pc /\ worker'[w].name = worker[w].name
      /\ worker'[w].victim = worker[w].victim
      /\ \A v \in Worker \ {w} : worker'[v] = worker[v]
  BY <1>2 DEF Typed, TypeOK, WorkerRecord
<1>4. worker[w].pc = "wait"
  BY DEF At
<1> QED  BY <1>1, <1>3, <1>4, MoveOne

\* An uninstall finds the service to remove,
LEMMA MoveFind ==
  ASSUME Typed, NEW w \in Worker, At(w, "find"), NEW m \in Service,
         worker' = [worker EXCEPT ![w].pc = "address", ![w].victim = m]
  PROVE  Moves
<1>1. "address" \in PC /\ worker[w].pc # "off" /\ worker[w].name \in Service
  BY DEF PC, UninstallPC, At, Typed, WorkersNamed
<1>2. /\ worker' \in [Worker -> WorkerRecord]
      /\ worker'[w].pc = "address" /\ worker'[w].name = worker[w].name
      /\ worker'[w].victim = m
      /\ \A v \in Worker \ {w} : worker'[v] = worker[v]
  BY <1>1 DEF Typed, TypeOK, WorkerRecord
<1> QED  BY <1>1, <1>2, MoveOne

\* and reads its address.
LEMMA MoveAddress ==
  ASSUME Typed, NEW w \in Worker, At(w, "address"), NEW k \in Nat,
         worker' = [worker EXCEPT ![w].pc = "remove", ![w].old = k]
  PROVE  Moves
<1>1. /\ "remove" \in PC /\ worker[w].pc # "off"
      /\ worker[w].name \in Service /\ worker[w].victim \in Service
  BY DEF PC, UninstallPC, At, Typed, WorkersNamed
<1>2. /\ worker' \in [Worker -> WorkerRecord]
      /\ worker'[w].pc = "remove" /\ worker'[w].name = worker[w].name
      /\ worker'[w].victim = worker[w].victim
      /\ \A v \in Worker \ {w} : worker'[v] = worker[v]
  BY <1>1 DEF Typed, TypeOK, WorkerRecord
<1> QED  BY <1>1, <1>2, MoveOne

\* The events that the detector has not read stay events.
LEMMA EmitType ==
  ASSUME Typed, NEW said \in Seq(Event), Emit(said)
  PROVE  events' \in Seq(Event)
BY DEF Typed, TypeOK, Emit

\* What is ended on purpose is a container.
LEMMA EndsType ==
  ASSUME Typed, NEW n \in Service, EndsOnPurpose(n)
  PROVE  ended' \subseteq Container
BY DEF Typed, TypeOK, EndsOnPurpose, Container

\* Steps of a restart.
LEMMA TypedRestart ==
  ASSUME Typed, NEW w \in Worker, Restart(w)
  PROVE  Typed' /\ Watching' = Watching
<1>0. TypeOK
  BY DEF Typed
<1>n. ASSUME NEW l \in RestartPC, At(w, l)
      PROVE  /\ worker[w].pc \in RestartPC \cup UninstallPC /\ worker[w].pc # "off"
             /\ worker[w].name \in Service
             /\ worker[w].old \in Nat /\ worker[w].new \in Nat
  BY <1>n, <1>0 DEF At, RestartPC, Typed, WorkersNamed, TypeOK, WorkerRecord
<1>p. {"list", "stop", "dying", "wait", "report"} = RestartPC
  BY DEF RestartPC
<1>1. CASE List(w)
  <2>1. At(w, "list") /\ worker[w].name \in Service /\ worker[w].pc # "off"
    BY <1>1, <1>n, <1>p DEF List
  <2>2. Moves
    <3>1. CASE worker[w].name \in up
      BY <3>1, <2>1, <1>0, <1>1, MoveStop DEF List, TypeOK
    <3>2. CASE worker[w].name \notin up
      BY <3>2, <2>1, <1>1, MoveFinish DEF List
    <3> QED  BY <3>1, <3>2
  <2> QED  BY <2>2, <1>0, <1>1 DEF List, Moves, Typed, TypeOK, swarm, flags, history
<1>2. CASE Stop(w)
  <2>1. /\ At(w, "stop") /\ worker[w].name \in Service /\ worker[w].pc # "off"
        /\ worker[w].old \in Nat /\ worker[w].pc \in RestartPC \cup UninstallPC
    BY <1>2, <1>n, <1>p DEF Stop
  <2>2. Moves
    BY <2>1, <1>p, <1>2, MoveGoto, MoveFinish DEF Stop
  <2>3. events' \in Seq(Event) /\ ended' \subseteq Container
    <3>1. CASE Emit(<<Say("kill", worker[w].name, worker[w].old)>>)
                 /\ EndsOnPurpose(worker[w].name)
      <4>1. <<Say("kill", worker[w].name, worker[w].old)>> \in Seq(Event)
        BY <2>1, EventType
      <4> QED  BY <4>1, <3>1, <2>1, EmitType, EndsType
    <3>2. CASE UNCHANGED <<events, ended>>
      BY <3>2, <1>0 DEF TypeOK
    <3> QED  BY <3>1, <3>2, <1>2 DEF Stop
  <2> QED  BY <2>2, <2>3, <1>0, <1>2 DEF Stop, Moves, Typed, TypeOK, swarm, flags
<1>3. CASE Stopped(w)
  <2>1. /\ At(w, "dying") /\ worker[w].name \in Service /\ worker[w].pc # "off"
        /\ worker[w].old \in Nat /\ worker[w].pc \in RestartPC \cup UninstallPC
    BY <1>3, <1>n, <1>p DEF Stopped
  <2>2. Moves
    BY <2>1, <1>p, <1>3, MoveGoto DEF Stopped
  <2>3. events' \in Seq(Event) /\ up' \subseteq Service
    <3>1. <<Say("die", worker[w].name, worker[w].old)>> \in Seq(Event)
      BY <2>1, EventType
    <3> QED  BY <3>1, <1>0, <1>3, EmitType DEF Stopped, TypeOK
  <2> QED  BY <2>2, <2>3, <1>0, <1>3 DEF Stopped, Moves, Typed, TypeOK, flags, history
<1>4. CASE WaitForService(w)
  <2>1. At(w, "wait") /\ worker[w].name \in Service /\ worker[w].pc # "off"
    BY <1>4, <1>n, <1>p DEF WaitForService
  <2>2. Moves
    <3>1. CASE worker[w].name \in up
      BY <3>1, <2>1, <1>0, <1>4, MoveReport DEF WaitForService, TypeOK
    <3>2. CASE worker[w].name \notin up /\ worker[w].polls < Timeout
                 /\ worker' = [worker EXCEPT ![w].polls = @ + 1]
      BY <3>2, <2>1, MovePoll
    <3>3. CASE Finish(w)
      BY <3>3, <2>1, MoveFinish
    <3> QED  BY <3>1, <3>2, <3>3, <1>4 DEF WaitForService
  <2>3. disturbed' \subseteq Service
    BY <2>1, <1>0, <1>4 DEF WaitForService, TypeOK
  <2> QED  BY <2>2, <2>3, <1>0, <1>4 DEF WaitForService, Moves, Typed, TypeOK, swarm, flags
<1>5. CASE ServiceRestart(w)
  <2>1. /\ At(w, "report") /\ worker[w].name \in Service /\ worker[w].pc # "off"
        /\ worker[w].new \in Nat
    BY <1>5, <1>n, <1>p DEF ServiceRestart
  <2>2. Moves
    BY <2>1, <1>5, MoveFinish DEF ServiceRestart
  <2>3. disturbed' \subseteq Service /\ known' \in [Service -> Nat]
    BY <2>1, <1>0, <1>5 DEF ServiceRestart, TypeOK
  <2> QED  BY <2>2, <2>3, <1>0, <1>5 DEF ServiceRestart, Moves, Typed, TypeOK, swarm, flags
<1> QED  BY <1>1, <1>2, <1>3, <1>4, <1>5 DEF Restart

\* Steps of an uninstall.
LEMMA TypedUninstall ==
  ASSUME Typed, NEW w \in Worker, Uninstall(w)
  PROVE  Typed' /\ Watching' = Watching
<1>0. TypeOK
  BY DEF Typed
<1>p. {"find", "address", "remove", "disconnect"} = UninstallPC
  BY DEF UninstallPC
<1>n. /\ worker[w].pc \in RestartPC \cup UninstallPC /\ worker[w].pc # "off"
      /\ worker[w].name \in Service
      /\ worker[w].pc # "find" => worker[w].victim \in Service
  BY <1>0 DEF At, UninstallPC, Typed, WorkersNamed, Uninstall, Find, NetworkOfService,
              RemoveService, DisconnectEndpoints
<1>1. CASE Find(w)
  <2>1. Moves /\ disturbed' \subseteq Service
    <3>1. CASE Finish(w) /\ UNCHANGED disturbed
      BY <3>1, <1>0, <1>n, MoveFinish DEF TypeOK
    <3>2. CASE \E m \in Listed(worker[w].name) :
                 /\ worker' = [worker EXCEPT ![w].pc = "address", ![w].victim = m]
                 /\ disturbed' \subseteq disturbed \cup {m}
      <4>1. PICK m \in Listed(worker[w].name) :
                 /\ worker' = [worker EXCEPT ![w].pc = "address", ![w].victim = m]
                 /\ disturbed' \subseteq disturbed \cup {m}
        BY <3>2
      <4>2. m \in Service /\ At(w, "find") /\ disturbed \subseteq Service
        BY <1>0, <1>1 DEF Listed, TypeOK, Find
      <4> QED  BY <4>1, <4>2, MoveFind
    <3> QED  BY <3>1, <3>2, <1>1 DEF Find
  <2> QED  BY <2>1, <1>0, <1>1 DEF Find, Moves, Typed, TypeOK, swarm, flags, history
<1>2. CASE NetworkOfService(w)
  <2>1. PICK k \in Nat : worker' = [worker EXCEPT ![w].pc = "remove", ![w].old = k]
    <3>1. (IF worker[w].victim \in up \cap Network THEN task[worker[w].victim] ELSE 0) \in Nat
      BY <1>0 DEF TypeOK
    <3> QED  BY <3>1, <1>2 DEF NetworkOfService
  <2>2. Moves
    BY <2>1, <1>2, MoveAddress DEF NetworkOfService
  <2> QED  BY <2>2, <1>0, <1>2
           DEF NetworkOfService, Moves, Typed, TypeOK, swarm, flags, history
<1>3. CASE RemoveService(w)
  <2>1. worker[w].victim \in Service
    BY <1>3, <1>n DEF RemoveService, At
  <2>2. Moves
    BY <2>1, <1>n, <1>p, <1>3, MoveGoto DEF RemoveService
  <2>3. <<Say("remove", worker[w].victim, 0)>> \in Seq(Event)
    BY <2>1, EventType
  <2>4. events' \in Seq(Event) /\ ended' \subseteq Container
    <3>1. CASE Emit(<<Say("remove", worker[w].victim, 0)>>) /\ EndsOnPurpose(worker[w].victim)
      BY <3>1, <2>1, <2>3, EmitType, EndsType
    <3>2. CASE UNCHANGED <<events, ended>>
      BY <3>2, <1>0 DEF TypeOK
    <3> QED  BY <3>1, <3>2, <1>3 DEF RemoveService
  <2>5. exists' \subseteq Service /\ taken' \subseteq Service /\ disturbed' \subseteq Service
    BY <2>1, <1>0, <1>3 DEF RemoveService, TypeOK
  <2> QED  BY <2>2, <2>4, <2>5, <1>0, <1>3 DEF RemoveService, Moves, Typed, TypeOK, flags
<1>4. CASE DisconnectEndpoints(w)
  <2>1. Moves
    BY <1>n, <1>4, MoveFinish DEF DisconnectEndpoints
  <2>2. disturbed' \subseteq Service
    BY <1>n, <1>0, <1>4 DEF DisconnectEndpoints, TypeOK
  <2>3. known' \in [Service -> Nat]
    <3>1. /\ [known EXCEPT ![worker[w].name] = 0] \in [Service -> Nat]
          /\ [known EXCEPT ![worker[w].name] = known[worker[w].name]] \in [Service -> Nat]
      BY <1>0, <1>n DEF TypeOK
    <3> QED  BY <3>1, <1>0, <1>4 DEF DisconnectEndpoints, TypeOK
  <2> QED  BY <2>1, <2>2, <2>3, <1>0, <1>4
           DEF DisconnectEndpoints, Moves, Typed, TypeOK, swarm, flags
<1> QED  BY <1>1, <1>2, <1>3, <1>4 DEF Uninstall

\* Steps of swarm.
LEMMA TypedSwarm ==
  ASSUME Typed, NEW n \in Service, StartTask(n) \/ StopTask(n) \/ CrashTask(n)
  PROVE  Typed' /\ Watching' = Watching
<1>0. TypeOK /\ task[n] \in Nat
  BY DEF Typed, TypeOK
<1>1. worker' = worker /\ Watching' = Watching /\ WorkersNamed'
  BY DEF StartTask, StopTask, CrashTask, Watching, At, Typed, WorkersNamed
<1>2. /\ Say("kill", n, task[n]) \in Event
      /\ Say("die", n, task[n]) \in Event
  BY <1>0, EventType
<1>3. events' \in Seq(Event)
  <2>1. CASE StartTask(n)
    BY <2>1, <1>0 DEF StartTask, TypeOK
  <2>2. CASE StopTask(n)
    <3> DEFINE said(forced) == (IF forced THEN <<Say("kill", n, task[n])>> ELSE <<>>)
                                 \o <<Say("die", n, task[n])>>
    <3>1. PICK forced \in BOOLEAN : Emit(said(forced))
      BY <2>2 DEF StopTask
    <3>2. said(forced) \in Seq(Event)
      BY <1>2
    <3> HIDE DEF said
    <3> QED  BY <3>1, <3>2, EmitType
  <2>3. CASE CrashTask(n)
    <3>1. <<Say("die", n, task[n])>> \in Seq(Event)
      BY <1>2
    <3> QED  BY <3>1, <2>3, EmitType DEF CrashTask
  <2> QED  BY <2>1, <2>2, <2>3
<1>4. exists' \subseteq Service /\ up' \subseteq Service
  BY <1>0 DEF StartTask, StopTask, CrashTask, TypeOK
<1>6. task' \in [Service -> Nat]
  <2>1. [task EXCEPT ![n] = @ + 1] \in [Service -> Nat]
    BY <1>0 DEF TypeOK
  <2> QED  BY <2>1, <1>0 DEF StartTask, StopTask, CrashTask, TypeOK
<1>5. crashes' \in 0..MaxCrashes /\ disturbed' \subseteq Service
  BY <1>0, WorkersAssumption DEF StartTask, StopTask, CrashTask, TypeOK, history
<1> QED  BY <1>0, <1>1, <1>3, <1>4, <1>5, <1>6
         DEF StartTask, StopTask, CrashTask, Typed, TypeOK, flags, history

\* The command loop starts a goroutine.
LEMMA TypedCommand ==
  ASSUME Typed, NEW r \in Request, NEW n \in Service, Command(r, n)
  PROVE  Typed' /\ Watching' = Watching
<1>0. TypeOK /\ r \in Worker /\ worker[r].pc # "off"
  BY DEF Typed, Worker, Command, At
<1>1. Moves
  BY <1>0, MoveStart DEF Command
<1> QED  BY <1>0, <1>1 DEF Command, Moves, Typed, TypeOK, swarm, flags

\* The detector reads an event.
LEMMA TypedDetect ==
  ASSUME Typed, Detect
  PROVE  Typed' /\ Watching' = Watching
<1>0. TypeOK /\ events # <<>> /\ worker[Detector].pc # "off" /\ Detector \in Worker
  BY DEF Typed, Worker, Detect, NoteUninstall, NoteRestart, EndOfRestart, EndOfUninstall,
         EndOfCrash, NextIs, At
<1>1. Head(events) \in Event /\ Tail(events) \in Seq(Event)
  BY <1>0 DEF TypeOK
<1>2. Head(events).name \in Service /\ Head(events).task \in Nat
  BY <1>1 DEF Event
<1>3. events' \in Seq(Event)
  BY <1>1 DEF Detect, NoteUninstall, NoteRestart, EndOfRestart, EndOfUninstall, EndOfCrash
<1>4. restartDetected' \subseteq Container /\ uninstallDetected' \subseteq Service
  BY <1>0, <1>2 DEF Detect, NoteUninstall, NoteRestart, EndOfRestart, EndOfUninstall,
                    EndOfCrash, TypeOK, Container, flags
<1>5. Moves /\ disturbed' \subseteq Service
  <2>1. CASE UNCHANGED <<worker, disturbed>>
    BY <2>1, <1>0 DEF Moves, Typed, TypeOK, WorkersNamed, Watching, At
  <2>2. CASE /\ worker' = Works(Detector, Working("list", Head(events).name))
             /\ disturbed' \subseteq disturbed \cup {Head(events).name}
    BY <2>2, <1>0, <1>2, MoveStart DEF TypeOK
  <2> QED  BY <2>1, <2>2 DEF Detect, NoteUninstall, NoteRestart, EndOfRestart,
                             EndOfUninstall, EndOfCrash, history
<1>6. UNCHANGED <<swarm, known, crashes, ended, taken>>
  BY DEF Detect, NoteUninstall, NoteRestart, EndOfRestart, EndOfUninstall, EndOfCrash, history
<1> QED  BY <1>0, <1>3, <1>4, <1>5, <1>6 DEF Moves, Typed, TypeOK, swarm

\* The detector subscribes.
LEMMA TypedWatch ==
  ASSUME Typed, Watch
  PROVE  Typed'
<1>1. TypeOK /\ Detector \in Worker /\ "select" \in PC
  BY DEF Typed, Worker, PC
<1>2. /\ worker' \in [Worker -> WorkerRecord]
      /\ worker'[Detector].pc = "select"
      /\ \A v \in Worker \ {Detector} : worker'[v] = worker[v]
  BY <1>1, GotoWorker DEF Watch
<1> QED  BY <1>1, <1>2 DEF Watch, Typed, TypeOK, WorkersNamed, RestartPC, UninstallPC,
                           swarm, flags, history

\* Every step keeps types and names.
LEMMA TypedNext ==
  ASSUME Typed, [Next]_vars
  PROVE  Typed'
<1>1. CASE UNCHANGED vars
  BY <1>1 DEF vars, swarm, flags, history, Typed, TypeOK, WorkersNamed
<1>2. CASE Next
  BY <1>1, <1>2, TypedWatch, TypedDetect, TypedSwarm, TypedCommand, TypedRestart,
     TypedUninstall DEF Next
<1> QED  BY <1>1, <1>2

\* Before the first step.
LEMMA TypedInit ==
  ASSUME Init
  PROVE  Typed
<1>1. {"off", "idle"} \subseteq PC
  BY DEF PC
<1>2. /\ NoWork("off") \in WorkerRecord /\ NoWork("off").pc = "off"
      /\ NoWork("idle") \in WorkerRecord /\ NoWork("idle").pc = "idle"
  BY <1>1, FreshWorker
<1> QED  BY <1>2, WorkersAssumption
         DEF Init, Typed, TypeOK, WorkersNamed, RestartPC, UninstallPC, Container

\* The variables of CrashDetector keep their types: in particular no restart
\* polls more often than WaitForService allows.
THEOREM DetectorTypeCorrect == Spec => []TypeOK
<1>1. Init => Typed
  BY TypedInit
<1>2. Typed /\ [Next]_vars => Typed'
  BY TypedNext
<1>3. Typed => TypeOK
  BY DEF Typed
<1> QED  BY <1>1, <1>2, <1>3, PTL DEF Spec

-----------------------------------------------------------------------------
(* What ended on purpose is spared. *)

\* All that SparesInv speaks of.
Seen == <<swarm, events, flags, ended>>

\* Steps that touch nothing of it.
LEMMA SparesFrame ==
  ASSUME SparesInv, UNCHANGED Seen, ~Watching' => ~Watching
  PROVE  SparesInv'
BY DEF SparesInv, NothingSeen, EndsOnce, RemovedLast, EndedFlagged, Flagged, IsDie, IsKill,
       IsRemoval, Running,
       Seen, swarm, flags

\* Whoever leaves events and swarm alone does.
LEMMA SparesQuiet ==
  ASSUME SparesInv, UNCHANGED <<swarm, events, flags, ended>>, ~Watching' => ~Watching
  PROVE  SparesInv'
BY SparesFrame DEF Seen

\* Events are said last.
LEMMA EmitOne ==
  ASSUME Typed, NEW e \in Event, Emit(<<e>>), Watching
  PROVE  /\ Len(events) \in Nat
         /\ Len(events') = Len(events) + 1
         /\ \A i \in 1..Len(events) : events'[i] = events[i]
         /\ events'[Len(events) + 1] = e
BY DEF Typed, TypeOK, Emit

\* Events are read first.
LEMMA ReadOne ==
  ASSUME Typed, events # <<>>, events' = Tail(events)
  PROVE  /\ Len(events) \in Nat \ {0}
         /\ Head(events) = events[1] /\ Head(events) \in Event
         /\ Len(events') = Len(events) - 1
         /\ \A i \in 1..Len(events') : events'[i] = events[i + 1]
BY DEF Typed, TypeOK

\* While the detector is not there, nothing happens that it should know of.
LEMMA SparesUnseen ==
  ASSUME SparesInv, ~Watching', UNCHANGED <<events, flags, ended>>, ~Watching
  PROVE  SparesInv'
<1>1. NothingSeen'
  BY DEF SparesInv, NothingSeen, flags
<1>2. \A i \in 1..Len(events') : FALSE
  BY <1>1 DEF NothingSeen
<1> QED  BY <1>1, <1>2 DEF SparesInv, EndsOnce, RemovedLast, EndedFlagged, NothingSeen

\* Swarm starts a container: a new one.
LEMMA SparesStart ==
  ASSUME Typed, SparesInv, NEW n \in Service, StartTask(n)
  PROVE  SparesInv'
<1>0. /\ TypeOK /\ task \in [Service -> Nat] /\ n \in exists /\ n \notin up
      /\ task' = [task EXCEPT ![n] = @ + 1] /\ up' = up \cup {n}
      /\ UNCHANGED <<exists, events, restartDetected, uninstallDetected, ended>>
      /\ Watching' = Watching
  BY DEF Typed, TypeOK, StartTask, flags, history, Watching, At
<1>1. EndsOnce'
  BY <1>0 DEF SparesInv, EndsOnce, IsDie, Running
<1>2. RemovedLast'
  <2> SUFFICES ASSUME NEW d \in Service
               PROVE  /\ d \in uninstallDetected =>
                           /\ d \notin exists
                           /\ \A k \in Nat, i \in 1..Len(events) : IsDie(i, d, k) => k = task'[d]
                      /\ \A j \in 1..Len(events) : IsRemoval(j, d) =>
                           /\ d \notin exists
                           /\ \A k \in Nat, i \in 1..Len(events) :
                                i > j /\ IsDie(i, d, k) => k = task'[d]
    BY <1>0 DEF RemovedLast, IsDie, IsRemoval
  <2>1. d \notin exists => task'[d] = task[d]
    BY <1>0
  <2> QED  BY <2>1 DEF SparesInv, RemovedLast
<1>3. EndedFlagged'
  <2> SUFFICES ASSUME NEW m \in Service, NEW k \in Nat, <<m, k>> \in ended'
               PROVE  /\ k <= task'[m]
                      /\ \A i \in 1..Len(events') : IsDie(i, m, k)' => Flagged(i, m, k)'
                      /\ Running(m, k)' => Flagged(Len(events) + 1, m, k)'
    BY <1>0 DEF EndedFlagged
  <2>1. /\ k <= task[m]
        /\ \A i \in 1..Len(events) : IsDie(i, m, k) => Flagged(i, m, k)
        /\ Running(m, k) => Flagged(Len(events) + 1, m, k)
    BY <1>0 DEF SparesInv, EndedFlagged
  <2>2. \A i \in Nat : Flagged(i, m, k) => Flagged(i, m, k)'
    BY <1>0 DEF Flagged, IsKill, IsRemoval
  <2>3. Running(m, k)' => Running(m, k)
    BY <1>0, <2>1 DEF Running
  <2>4. Len(events) + 1 \in Nat /\ 1..Len(events) \subseteq Nat
    BY <1>0 DEF TypeOK
  <2>5. k <= task'[m]
    BY <2>1, <1>0
  <2> QED  BY <2>1, <2>2, <2>3, <2>4, <2>5, <1>0 DEF IsDie
<1> QED  BY <1>0, <1>1, <1>2, <1>3 DEF SparesInv, NothingSeen

\* A container ends, and docker says so, or that it killed it first.
LEMMA SparesEnd ==
  ASSUME Typed, SparesInv, NEW n \in Service, n \in up, up' = up \ {n},
         NEW m \in 1..2, Len(events') = Len(events) + m,
         \A i \in 1..Len(events) : events'[i] = events[i],
         events'[Len(events) + m] = Say("die", n, task[n]),
         m = 2 => events'[Len(events) + 1] = Say("kill", n, task[n]),
         UNCHANGED <<exists, task, flags, ended>>, Watching, Watching'
  PROVE  SparesInv'
<1>0. /\ TypeOK /\ task \in [Service -> Nat] /\ Len(events) \in Nat
      /\ UNCHANGED <<restartDetected, uninstallDetected>>
  BY DEF Typed, TypeOK, flags
<1>1. ASSUME NEW i \in 1..Len(events'), NEW d \in Service, NEW k \in Nat
      PROVE  /\ IsDie(i, d, k)' => \/ i \in 1..Len(events) /\ IsDie(i, d, k)
                                   \/ i = Len(events') /\ d = n /\ k = task[n]
             /\ IsRemoval(i, d)' => i \in 1..Len(events) /\ IsRemoval(i, d)
  <2>1. CASE i \in 1..Len(events)
    BY <2>1 DEF IsDie, IsRemoval
  <2>2. CASE i = Len(events) + m
    BY <2>2 DEF IsDie, IsRemoval, Say
  <2>3. CASE i = Len(events) + 1 /\ m = 2
    BY <2>3 DEF IsDie, IsRemoval, Say
  <2> QED  BY <2>1, <2>2, <2>3, <1>0
<1>2. EndsOnce'
  <2> SUFFICES ASSUME NEW d \in Service, NEW k \in Nat, NEW i \in 1..Len(events'), IsDie(i, d, k)'
               PROVE  /\ k <= task[d] /\ ~Running(d, k)'
                      /\ \A j \in 1..Len(events') : IsDie(j, d, k)' => i = j
    BY DEF EndsOnce
  <2>1. k <= task[d] /\ ~Running(d, k)'
    BY <1>0, <1>1 DEF SparesInv, EndsOnce, Running
  <2>2. ASSUME NEW j \in 1..Len(events'), IsDie(j, d, k)'
        PROVE  i = j
    BY <2>2, <1>0, <1>1 DEF SparesInv, EndsOnce, Running
  <2> QED  BY <2>1, <2>2
<1>3. RemovedLast'
  <2> SUFFICES ASSUME NEW d \in Service
               PROVE  /\ d \in uninstallDetected =>
                           /\ d \notin exists
                           /\ \A k \in Nat, i \in 1..Len(events') : IsDie(i, d, k)' => k = task[d]
                      /\ \A j \in 1..Len(events') : IsRemoval(j, d)' =>
                           /\ d \notin exists
                           /\ \A k \in Nat, i \in 1..Len(events') :
                                i > j /\ IsDie(i, d, k)' => k = task[d]
    BY <1>0 DEF RemovedLast
  <2> QED  BY <1>0, <1>1 DEF SparesInv, RemovedLast
<1>4. EndedFlagged'
  <2> SUFFICES ASSUME NEW d \in Service, NEW k \in Nat, <<d, k>> \in ended
               PROVE  /\ k <= task[d]
                      /\ \A i \in 1..Len(events') : IsDie(i, d, k)' => Flagged(i, d, k)'
                      /\ (Running(d, k)' => Flagged(Len(events) + 1, d, k)')
    BY <1>0 DEF EndedFlagged
  <2>1. /\ k <= task[d]
        /\ \A i \in 1..Len(events) : IsDie(i, d, k) => Flagged(i, d, k)
        /\ Running(d, k) => Flagged(Len(events) + 1, d, k)
    BY DEF SparesInv, EndedFlagged
  <2>2. ASSUME NEW i \in Nat, NEW j \in Nat, i <= j, Flagged(i, d, k)
        PROVE  Flagged(j, d, k)'
    BY <2>2, <1>0 DEF Flagged, IsKill, IsRemoval
  <2>3. Running(d, k)' => Running(d, k)
    BY DEF Running
  <2>4. ASSUME NEW i \in 1..Len(events'), IsDie(i, d, k)'
        PROVE  Flagged(i, d, k)'
    <3>1. CASE i \in 1..Len(events) /\ IsDie(i, d, k)
      BY <3>1, <2>1, <2>2, <1>0
    <3>2. CASE i = Len(events') /\ d = n /\ k = task[n]
      <4>1. Running(d, k)
        BY <3>2 DEF Running
      <4> QED  BY <4>1, <3>2, <2>1, <2>2, <1>0
    <3> QED  BY <3>1, <3>2, <2>4, <1>1
  <2>5. Running(d, k)' => Flagged(Len(events) + 1, d, k)'
    BY <2>1, <2>2, <2>3, <1>0
  <2> QED  BY <2>1, <2>4, <2>5
<1> QED  BY <1>2, <1>3, <1>4 DEF SparesInv

\* A flag that a container will have stays when something is said after it.
LEMMA FlagStays ==
  ASSUME Typed, NEW e \in Event, Emit(<<e>>), Watching, exists' \subseteq exists,
         UNCHANGED <<task, flags>>,
         NEW d \in Service, NEW k \in Nat, NEW i \in Nat, NEW j \in Nat, i <= j,
         Flagged(i, d, k)
  PROVE  Flagged(j, d, k)'
<1>1. /\ Len(events) \in Nat
      /\ Len(events') = Len(events) + 1
      /\ \A h \in 1..Len(events) : events'[h] = events[h]
  BY EmitOne
<1> QED  BY <1>1 DEF Flagged, IsKill, IsRemoval, flags

\* Something ends on purpose: docker says that it killed the container, or that
\* the service was removed, while the container still runs.
LEMMA SparesPurpose ==
  ASSUME Typed, SparesInv, NEW n \in Service, NEW e \in Event, Emit(<<e>>), EndsOnPurpose(n),
         e.kind # "die", e.kind = "remove" => e.name = n /\ n \in exists,
         exists' = IF e.kind = "remove" THEN exists \ {n} ELSE exists,
         e.kind = "kill" => e.name = n /\ e.task = task[n],
         UNCHANGED <<task, up, flags>>, Watching, Watching'
  PROVE  SparesInv'
<1>0. /\ TypeOK /\ task \in [Service -> Nat] /\ exists' \subseteq exists
      /\ Len(events) \in Nat /\ Len(events') = Len(events) + 1
      /\ \A i \in 1..Len(events) : events'[i] = events[i]
      /\ events'[Len(events) + 1] = e
      /\ UNCHANGED <<restartDetected, uninstallDetected>>
  BY EmitOne DEF Typed, TypeOK, flags
<1>1. ASSUME NEW i \in 1..Len(events'), NEW d \in Service, NEW k \in Nat
      PROVE  /\ IsDie(i, d, k)' => i \in 1..Len(events) /\ IsDie(i, d, k)
             /\ IsRemoval(i, d)' => \/ i \in 1..Len(events) /\ IsRemoval(i, d)
                                    \/ /\ i = Len(events') /\ d = n
                                       /\ n \in exists /\ n \notin exists'
  <2>1. CASE i \in 1..Len(events)
    BY <2>1, <1>0 DEF IsDie, IsRemoval
  <2>2. CASE i = Len(events) + 1
    BY <2>2, <1>0 DEF IsDie, IsRemoval
  <2> QED  BY <2>1, <2>2, <1>0
<1>2. EndsOnce'
  BY <1>0, <1>1 DEF SparesInv, EndsOnce, Running
<1>3. RemovedLast'
  <2> SUFFICES ASSUME NEW d \in Service
               PROVE  /\ d \in uninstallDetected =>
                           /\ d \notin exists'
                           /\ \A k \in Nat, i \in 1..Len(events') : IsDie(i, d, k)' => k = task[d]
                      /\ \A j \in 1..Len(events') : IsRemoval(j, d)' =>
                           /\ d \notin exists'
                           /\ \A k \in Nat, i \in 1..Len(events') :
                                i > j /\ IsDie(i, d, k)' => k = task[d]
    BY <1>0 DEF RemovedLast
  <2> QED  BY <1>0, <1>1 DEF SparesInv, RemovedLast
<1>4. EndedFlagged'
  <2> SUFFICES ASSUME NEW d \in Service, NEW k \in Nat, <<d, k>> \in ended'
               PROVE  /\ k <= task[d]
                      /\ \A i \in 1..Len(events') : IsDie(i, d, k)' => Flagged(i, d, k)'
                      /\ (Running(d, k)' => Flagged(Len(events) + 1, d, k)')
    BY <1>0 DEF EndedFlagged
  <2>1. CASE <<d, k>> \in ended
    <3>1. /\ k <= task[d]
          /\ \A i \in 1..Len(events) : IsDie(i, d, k) => Flagged(i, d, k)
          /\ Running(d, k) => Flagged(Len(events) + 1, d, k)
      BY <2>1 DEF SparesInv, EndedFlagged
    <3>2. ASSUME NEW i \in Nat, NEW j \in Nat, i <= j, Flagged(i, d, k)
          PROVE  Flagged(j, d, k)'
      BY <3>2, <1>0, FlagStays
    <3>3. ASSUME NEW i \in 1..Len(events'), IsDie(i, d, k)'
          PROVE  Flagged(i, d, k)'
      BY <3>3, <3>1, <3>2, <1>0, <1>1
    <3>4. Running(d, k)' => Flagged(Len(events) + 1, d, k)'
      BY <3>1, <3>2, <1>0 DEF Running
    <3> QED  BY <3>1, <3>3, <3>4
  <2>2. CASE <<d, k>> \notin ended
    <3>1. d = n /\ k = task[n] /\ Running(d, k)
      BY <2>2 DEF EndsOnPurpose, Running
    <3>2. \A i \in 1..Len(events') : ~IsDie(i, d, k)'
      BY <3>1, <1>0, <1>1 DEF SparesInv, EndsOnce
    <3>3. Flagged(Len(events) + 1, d, k)'
      <4>1. PICK h \in 1..Len(events') : h = Len(events) + 1
        BY <1>0
      <4>2. events'[h] = e
        BY <4>1, <1>0
      <4>3. CASE e.kind = "kill"
        <5>1. IsKill(h, d, k)'
          BY <4>2, <4>3, <3>1 DEF IsKill
        <5> QED  BY <5>1, <4>1, <1>0 DEF Flagged
      <4>4. CASE e.kind = "remove"
        <5>1. IsRemoval(h, d)' /\ d \notin exists'
          BY <4>2, <4>4, <3>1 DEF IsRemoval
        <5> QED  BY <5>1, <4>1, <3>1, <1>0 DEF Flagged
      <4> QED  BY <4>3, <4>4 DEF Event
    <3> QED  BY <3>1, <3>2, <3>3, <1>0
  <2> QED  BY <2>1, <2>2
<1> QED  BY <1>2, <1>3, <1>4 DEF SparesInv

\* The detector reads an event, and turns it into a flag or clears one.
LEMMA SparesRead ==
  ASSUME Typed, SparesInv, events # <<>>, events' = Tail(events), UNCHANGED <<swarm, ended>>,
         Watching, Watching',
         \A d \in uninstallDetected' : d \in uninstallDetected \/ IsRemoval(1, d),
         \A d \in Service : IsRemoval(1, d) => d \in uninstallDetected',
         \A d \in Service : d \in uninstallDetected =>
           d \in uninstallDetected' \/ \E k \in Nat : IsDie(1, d, k),
         \A d \in Service, k \in Nat : IsKill(1, d, k) => <<d, k>> \in restartDetected',
         \A d \in Service, k \in Nat : <<d, k>> \in restartDetected =>
           <<d, k>> \in restartDetected' \/ IsDie(1, d, k)
  PROVE  SparesInv'
<1>0. /\ Len(events) \in Nat \ {0} /\ Len(events') = Len(events) - 1
      /\ \A i \in 1..Len(events') : i + 1 \in 1..Len(events) /\ events'[i] = events[i + 1]
      /\ UNCHANGED <<exists, task, up, ended>>
  BY ReadOne DEF swarm
<1>1. \A i \in 1..Len(events'), d \in Service, k \in Nat :
        /\ IsDie(i, d, k)' <=> IsDie(i + 1, d, k)
        /\ IsKill(i, d, k)' <=> IsKill(i + 1, d, k)
        /\ IsRemoval(i, d)' <=> IsRemoval(i + 1, d)
  BY <1>0 DEF IsDie, IsKill, IsRemoval
<1>2. EndsOnce'
  <2> SUFFICES ASSUME NEW d \in Service, NEW k \in Nat, NEW i \in 1..Len(events'), IsDie(i, d, k)'
               PROVE  /\ k <= task[d] /\ ~Running(d, k)
                      /\ \A j \in 1..Len(events') : IsDie(j, d, k)' => i = j
    BY <1>0 DEF EndsOnce, Running
  <2>1. i + 1 \in 1..Len(events) /\ IsDie(i + 1, d, k)
    BY <1>0, <1>1
  <2>2. /\ k <= task[d] /\ ~Running(d, k)
        /\ \A j \in 1..Len(events) : IsDie(j, d, k) => i + 1 = j
    BY <2>1 DEF SparesInv, EndsOnce
  <2>3. ASSUME NEW j \in 1..Len(events'), IsDie(j, d, k)'
        PROVE  i = j
    <3>1. j + 1 \in 1..Len(events) /\ IsDie(j + 1, d, k)
      BY <2>3, <1>0, <1>1
    <3> QED  BY <3>1, <2>2
  <2> QED  BY <2>2, <2>3
<1>3. RemovedLast'
  <2> SUFFICES ASSUME NEW d \in Service
               PROVE  /\ d \in uninstallDetected' =>
                           /\ d \notin exists
                           /\ \A k \in Nat, i \in 1..Len(events') : IsDie(i, d, k)' => k = task[d]
                      /\ \A j \in 1..Len(events') : IsRemoval(j, d)' =>
                           /\ d \notin exists
                           /\ \A k \in Nat, i \in 1..Len(events') :
                                i > j /\ IsDie(i, d, k)' => k = task[d]
    BY <1>0 DEF RemovedLast
  <2>1. /\ d \in uninstallDetected =>
             /\ d \notin exists
             /\ \A k \in Nat, i \in 1..Len(events) : IsDie(i, d, k) => k = task[d]
        /\ \A j \in 1..Len(events) : IsRemoval(j, d) =>
             /\ d \notin exists
             /\ \A k \in Nat, i \in 1..Len(events) : i > j /\ IsDie(i, d, k) => k = task[d]
    BY DEF SparesInv, RemovedLast
  <2>2. CASE d \in uninstallDetected
    BY <2>1, <2>2, <1>0, <1>1
  <2>3. CASE IsRemoval(1, d)
    <3>1. 1 \in 1..Len(events) /\ \A i \in 1..Len(events') : i + 1 > 1
      BY <1>0
    <3> QED  BY <2>1, <2>3, <3>1, <1>0, <1>1
  <2>4. ASSUME NEW j \in 1..Len(events'), IsRemoval(j, d)'
        PROVE  /\ d \notin exists
               /\ \A k \in Nat, i \in 1..Len(events') : i > j /\ IsDie(i, d, k)' => k = task[d]
    <3>1. j + 1 \in 1..Len(events) /\ IsRemoval(j + 1, d)
      BY <2>4, <1>0, <1>1
    <3>2. \A i \in 1..Len(events') : i > j => i + 1 > j + 1
      OBVIOUS
    <3> QED  BY <3>1, <3>2, <2>1, <1>0, <1>1
  <2> QED  BY <2>2, <2>3, <2>4
<1>4. EndedFlagged'
  <2> SUFFICES ASSUME NEW d \in Service, NEW k \in Nat, <<d, k>> \in ended
               PROVE  /\ k <= task[d]
                      /\ \A i \in 1..Len(events') : IsDie(i, d, k)' => Flagged(i, d, k)'
                      /\ (Running(d, k) => Flagged(Len(events) + 1, d, k)')
    BY <1>0 DEF EndedFlagged, Running
  <2>1. /\ k <= task[d]
        /\ \A i \in 1..Len(events) : IsDie(i, d, k) => Flagged(i, d, k)
        /\ Running(d, k) => Flagged(Len(events) + 1, d, k)
    BY DEF SparesInv, EndedFlagged
  <2>2. 1 \in 1..Len(events)
    BY <1>0
  <2>3. ASSUME NEW i \in 1..(Len(events') + 1), Flagged(i + 1, d, k), ~IsDie(1, d, k)
        PROVE  Flagged(i, d, k)'
    <3>1. CASE <<d, k>> \in restartDetected
      BY <3>1, <2>3 DEF Flagged
    <3>2. ASSUME NEW j \in 1..Len(events), j < i + 1, IsKill(j, d, k)
          PROVE  Flagged(i, d, k)'
      <4>1. CASE j = 1
        BY <4>1, <3>2 DEF Flagged
      <4>2. CASE j > 1
        <5>1. PICK h \in 1..Len(events') : h + 1 = j
          BY <4>2, <3>2, <1>0
        <5>2. IsKill(h, d, k)' /\ h < i
          BY <5>1, <3>2, <1>0, <1>1
        <5> QED  BY <5>2 DEF Flagged
      <4> QED  BY <4>1, <4>2
    <3>3. CASE k = task[d] /\ d \notin exists /\ d \in uninstallDetected
      <4>1. \A h \in Nat : IsDie(1, d, h) => h = task[d]
        BY <3>3, <2>2 DEF SparesInv, RemovedLast
      <4>2. d \in uninstallDetected'
        BY <4>1, <3>3, <2>3
      <4> QED  BY <4>2, <3>3, <1>0 DEF Flagged
    <3>4. ASSUME NEW j \in 1..Len(events), j < i + 1, IsRemoval(j, d), k = task[d], d \notin exists
          PROVE  Flagged(i, d, k)'
      <4>1. CASE j = 1
        BY <4>1, <3>4, <1>0 DEF Flagged
      <4>2. CASE j > 1
        <5>1. PICK h \in 1..Len(events') : h + 1 = j
          BY <4>2, <3>4, <1>0
        <5>2. IsRemoval(h, d)' /\ h < i
          BY <5>1, <3>4, <1>0, <1>1
        <5> QED  BY <5>2, <3>4, <1>0 DEF Flagged
      <4> QED  BY <4>1, <4>2
    <3> QED  BY <3>1, <3>2, <3>3, <3>4, <2>3 DEF Flagged
  <2>4. ASSUME NEW i \in 1..Len(events'), IsDie(i, d, k)'
        PROVE  Flagged(i, d, k)'
    <3>1. i + 1 \in 1..Len(events) /\ IsDie(i + 1, d, k) /\ i + 1 # 1
      BY <2>4, <1>0, <1>1
    <3>2. ~IsDie(1, d, k)
      BY <3>1, <2>2 DEF SparesInv, EndsOnce
    <3> QED  BY <3>1, <3>2, <2>1, <2>3, <1>0
  <2>5. ASSUME Running(d, k)
        PROVE  Flagged(Len(events) + 1, d, k)'
    <3>1. ~IsDie(1, d, k)
      BY <2>5, <2>2 DEF SparesInv, EndsOnce
    <3>0. Len(events) \in 1..(Len(events') + 1) /\ Len(events) = Len(events') + 1
      BY <1>0
    <3>2. PICK i \in 1..(Len(events') + 1) : i = Len(events') + 1 /\ i = Len(events)
      BY <3>0
    <3>3. Flagged(i, d, k)'
      BY <2>5, <3>1, <3>2, <2>1, <2>3
    <3> QED  BY <3>2, <3>3
  <2> QED  BY <2>1, <2>4, <2>5
<1> QED  BY <1>2, <1>3, <1>4 DEF SparesInv

\* Steps of swarm.
LEMMA SparesSwarm ==
  ASSUME Typed, SparesInv, NEW n \in Service, StartTask(n) \/ StopTask(n) \/ CrashTask(n)
  PROVE  SparesInv'
<1>0. Typed' /\ Watching' = Watching /\ task[n] \in Nat /\ events \in Seq(Event)
  BY TypedSwarm DEF Typed, TypeOK
<1>1. CASE StartTask(n)
  BY <1>1, SparesStart
<1>2. CASE ~Watching /\ ~StartTask(n)
  <2>1. UNCHANGED <<events, flags, ended>>
    BY <1>2 DEF StopTask, CrashTask, Emit, history
  <2> QED  BY <2>1, <1>2, <1>0, SparesUnseen
<1>3. CASE Watching /\ StopTask(n)
  <2>1. PICK forced \in BOOLEAN :
          events' = events \o ((IF forced THEN <<Say("kill", n, task[n])>> ELSE <<>>)
                                 \o <<Say("die", n, task[n])>>)
    BY <1>3 DEF StopTask, Emit
  <2>2. Say("kill", n, task[n]) \in Event /\ Say("die", n, task[n]) \in Event
    BY <1>0, EventType
  <2>3. n \in up /\ up' = up \ {n} /\ UNCHANGED <<exists, task, flags, ended>>
    BY <1>3 DEF StopTask, history
  <2>4. CASE forced
    <3>1. events' = events \o <<Say("kill", n, task[n]), Say("die", n, task[n])>>
      BY <2>1, <2>2, <2>4
    <3>2. /\ Len(events') = Len(events) + 2
          /\ \A i \in 1..Len(events) : events'[i] = events[i]
          /\ events'[Len(events) + 1] = Say("kill", n, task[n])
          /\ events'[Len(events) + 2] = Say("die", n, task[n])
      BY <3>1, <2>2, <1>0
    <3> QED  BY <3>2, <2>3, <1>0, <1>3, SparesEnd
  <2>5. CASE ~forced
    <3>1. events' = events \o <<Say("die", n, task[n])>>
      BY <2>1, <2>2, <2>5
    <3>2. /\ Len(events') = Len(events) + 1
          /\ \A i \in 1..Len(events) : events'[i] = events[i]
          /\ events'[Len(events) + 1] = Say("die", n, task[n])
      BY <3>1, <2>2, <1>0
    <3> QED  BY <3>2, <2>3, <1>0, <1>3, SparesEnd
  <2> QED  BY <2>4, <2>5
<1>4. CASE Watching /\ CrashTask(n)
  <2>1. /\ n \in up /\ up' = up \ {n} /\ UNCHANGED <<exists, task, flags, ended>>
        /\ Emit(<<Say("die", n, task[n])>>)
    BY <1>4 DEF CrashTask
  <2>2. Say("die", n, task[n]) \in Event
    BY <1>0, EventType
  <2>3. /\ Len(events') = Len(events) + 1
        /\ \A i \in 1..Len(events) : events'[i] = events[i]
        /\ events'[Len(events) + 1] = Say("die", n, task[n])
    BY <2>1, <2>2, <1>4, EmitOne
  <2> QED  BY <2>1, <2>3, <1>0, <1>4, SparesEnd
<1> QED  BY <1>1, <1>2, <1>3, <1>4

\* Steps of a restart.
LEMMA SparesRestart ==
  ASSUME Typed, SparesInv, NEW w \in Worker, Restart(w)
  PROVE  SparesInv'
<1>0. Typed' /\ Watching' = Watching /\ TypeOK
  BY TypedRestart DEF Typed
<1>1. ASSUME At(w, "stop") \/ At(w, "dying")
      PROVE  worker[w].name \in Service /\ worker[w].old \in Nat
  BY <1>1, <1>0 DEF At, RestartPC, Typed, WorkersNamed, TypeOK, WorkerRecord
<1>2. CASE UNCHANGED <<swarm, events, flags, ended>>
  BY <1>2, <1>0, SparesQuiet
<1>3. CASE Stop(w) /\ ~UNCHANGED <<events, ended>>
  <2> DEFINE n == worker[w].name
             e == Say("kill", n, worker[w].old)
  <2>1. /\ Running(n, worker[w].old) /\ Emit(<<e>>) /\ EndsOnPurpose(n)
        /\ UNCHANGED <<exists, task, up, flags>> /\ n \in Service /\ worker[w].old \in Nat
    BY <1>1, <1>3 DEF Stop, swarm
  <2>2. /\ e \in Event /\ e.kind = "kill" /\ e.name = n /\ e.task = task[n]
    BY <2>1, EventType DEF Running
  <2>3. CASE Watching
    <3> HIDE DEF e, n
    <3> QED  BY <2>1, <2>2, <2>3, <1>0, SparesPurpose
  <2>4. CASE ~Watching
    BY <2>1, <2>4, <1>0, SparesUnseen DEF Emit, EndsOnPurpose
  <2> QED  BY <2>3, <2>4
<1>4. CASE Stopped(w) /\ Running(worker[w].name, worker[w].old)
  <2> DEFINE n == worker[w].name
             e == Say("die", n, worker[w].old)
  <2>1. /\ n \in up /\ up' = up \ {n} /\ Emit(<<e>>)
        /\ UNCHANGED <<exists, task, flags, ended>> /\ n \in Service /\ worker[w].old = task[n]
        /\ worker[w].old \in Nat
    BY <1>1, <1>4 DEF Stopped, Running, history
  <2>2. e \in Event /\ e = Say("die", n, task[n])
    BY <2>1, EventType
  <2>3. CASE Watching
    <3>1. /\ Len(events') = Len(events) + 1
          /\ \A i \in 1..Len(events) : events'[i] = events[i]
          /\ events'[Len(events) + 1] = Say("die", n, task[n])
      BY <2>1, <2>2, <2>3, EmitOne
    <3> HIDE DEF n, e
    <3> QED  BY <2>1, <2>3, <3>1, <1>0, SparesEnd
  <2>4. CASE ~Watching
    BY <2>1, <2>4, <1>0, SparesUnseen DEF Emit
  <2> QED  BY <2>3, <2>4
<1> QED  BY <1>2, <1>3, <1>4
         DEF Restart, List, Stop, Stopped, WaitForService, ServiceRestart, swarm, history

\* Steps of an uninstall.
LEMMA SparesUninstall ==
  ASSUME Typed, SparesInv, NEW w \in Worker, Uninstall(w)
  PROVE  SparesInv'
<1>0. Typed' /\ Watching' = Watching /\ TypeOK
  BY TypedUninstall DEF Typed
<1>1. CASE UNCHANGED <<swarm, events, flags, ended>>
  BY <1>1, <1>0, SparesQuiet
<1>2. CASE RemoveService(w) /\ exists' # exists
  <2> DEFINE n == worker[w].victim
             e == Say("remove", n, 0)
  <2>1. /\ n \in exists /\ n \in Service /\ exists' = exists \ {n}
        /\ Emit(<<e>>) /\ EndsOnPurpose(n)
        /\ UNCHANGED <<task, up, flags>>
    BY <1>2, <1>0 DEF RemoveService, TypeOK
  <2>2. e \in Event /\ e.kind = "remove" /\ e.name = n
    BY <2>1, EventType
  <2>3. CASE Watching
    <3> HIDE DEF e, n
    <3> QED  BY <2>1, <2>2, <2>3, <1>0, SparesPurpose
  <2>4. CASE ~Watching
    BY <2>1, <2>4, <1>0, SparesUnseen DEF Emit, EndsOnPurpose
  <2> QED  BY <2>3, <2>4
<1>3. ASSUME RemoveService(w), exists' = exists
      PROVE  UNCHANGED <<swarm, events, flags, ended>>
  BY <1>3 DEF RemoveService, swarm
<1> QED  BY <1>1, <1>2, <1>3
         DEF Uninstall, Find, NetworkOfService, RemoveService, DisconnectEndpoints, swarm, history

\* Steps of the detector.
LEMMA SparesDetect ==
  ASSUME Typed, SparesInv, Detect
  PROVE  SparesInv'
<1>0. /\ Watching /\ Watching' /\ events # <<>> /\ events' = Tail(events)
      /\ UNCHANGED <<swarm, ended>> /\ TypeOK
  BY TypedDetect DEF Typed, Detect, NoteUninstall, NoteRestart, EndOfRestart, EndOfUninstall,
                     EndOfCrash, NextIs, At, Watching, history
<1> DEFINE h == events[1]
<1>1. Head(events) = h /\ h \in Event
  BY <1>0, ReadOne
<1>2. /\ h.name \in Service /\ h.task \in Nat
      /\ \A d \in Service, k \in Nat :
           /\ IsDie(1, d, k) <=> h.kind = "die" /\ h.name = d /\ h.task = k
           /\ IsKill(1, d, k) <=> h.kind = "kill" /\ h.name = d /\ h.task = k
           /\ IsRemoval(1, d) <=> h.kind = "remove" /\ h.name = d
  BY <1>1 DEF Event, IsDie, IsKill, IsRemoval
<1>3. /\ uninstallDetected \subseteq Service
      /\ restartDetected \subseteq Service \X Nat
  BY <1>0 DEF TypeOK, Container
<1> HIDE DEF h
<1>4. CASE NoteUninstall
  <2>1. /\ h.kind = "remove" /\ uninstallDetected' = uninstallDetected \cup {h.name}
        /\ restartDetected' = restartDetected
    BY <1>1, <1>4 DEF NoteUninstall, NextIs
  <2> QED  BY <2>1, <1>0, <1>2, <1>3, SparesRead
<1>5. CASE NoteRestart
  <2>1. /\ h.kind = "kill" /\ restartDetected' = restartDetected \cup {<<h.name, h.task>>}
        /\ uninstallDetected' = uninstallDetected
    BY <1>1, <1>5 DEF NoteRestart, NextIs
  <2> QED  BY <2>1, <1>0, <1>2, <1>3, SparesRead
<1>6. CASE EndOfRestart
  <2>1. /\ h.kind = "die" /\ restartDetected' = restartDetected \ {<<h.name, h.task>>}
        /\ uninstallDetected' = uninstallDetected
    BY <1>1, <1>6 DEF EndOfRestart, NextIs
  <2> QED  BY <2>1, <1>0, <1>2, <1>3, SparesRead
<1>7. CASE EndOfUninstall
  <2>1. /\ h.kind = "die" /\ uninstallDetected' = uninstallDetected \ {h.name}
        /\ restartDetected' = restartDetected
    BY <1>1, <1>7 DEF EndOfUninstall, NextIs
  <2> QED  BY <2>1, <1>0, <1>2, <1>3, SparesRead
<1>8. CASE EndOfCrash
  <2>1. h.kind = "die" /\ UNCHANGED <<restartDetected, uninstallDetected>>
    BY <1>1, <1>8 DEF EndOfCrash, NextIs, flags
  <2> QED  BY <2>1, <1>0, <1>2, <1>3, SparesRead
<1> QED  BY <1>4, <1>5, <1>6, <1>7, <1>8 DEF Detect

\* Every step.
LEMMA SparesNext ==
  ASSUME Typed, SparesInv, [Next]_vars
  PROVE  SparesInv'
<1>1. CASE UNCHANGED vars
  BY <1>1, SparesQuiet DEF vars, history, Watching, At
<1>2. CASE Watch
  BY <1>2, SparesQuiet DEF Watch, history, Watching
<1>3. ASSUME NEW r \in Request, NEW n \in Service, Command(r, n)
      PROVE  SparesInv'
  <2>1. Watching' = Watching
    BY <1>3, TypedCommand
  <2> QED  BY <2>1, <1>3, SparesQuiet DEF Command
<1> QED  BY <1>1, <1>2, <1>3, SparesDetect, SparesSwarm, SparesRestart, SparesUninstall DEF Next

\* The detector takes a container for crashed only if it was not ended on
\* purpose.
LEMMA SparesStep ==
  ASSUME Typed, SparesInv, Next, At(Detector, "select"), At(Detector, "list")'
  PROVE  <<Head(events).name, Head(events).task>> \notin ended
<1>0. TypeOK /\ Detector \in Worker
  BY DEF Typed, Worker
<1>1. CASE EndOfCrash
  <2>1. /\ events # <<>> /\ Head(events).kind = "die"
        /\ <<Head(events).name, Head(events).task>> \notin restartDetected
        /\ Head(events).name \notin uninstallDetected
    BY <1>1 DEF EndOfCrash, NextIs
  <2>2. /\ 1 \in 1..Len(events) /\ Head(events) = events[1]
        /\ events[1].name \in Service /\ events[1].task \in Nat
    <3>1. events \in Seq(Event)
      BY <1>0 DEF TypeOK
    <3>2. 1 \in 1..Len(events) /\ Head(events) = events[1]
      BY <2>1, <3>1
    <3>3. events[1] \in Event
      BY <3>1, <3>2
    <3> QED  BY <3>2, <3>3 DEF Event
  <2>3. IsDie(1, events[1].name, events[1].task)
    BY <2>1, <2>2 DEF IsDie
  <2>4. ~Flagged(1, events[1].name, events[1].task)
    BY <2>1, <2>2 DEF Flagged
  <2> QED  BY <2>2, <2>3, <2>4 DEF SparesInv, EndedFlagged
<1>2. ASSUME worker' = worker
      PROVE  FALSE
  BY <1>2 DEF At
<1>3. ASSUME NEW w \in Worker, Restart(w) \/ Uninstall(w)
      PROVE  FALSE
  <2>1. w # Detector
    BY <1>3 DEF Restart, List, Stop, Stopped, WaitForService, ServiceRestart,
                Uninstall, Find, NetworkOfService, RemoveService, DisconnectEndpoints, At
  <2>2. worker'[Detector] = worker[Detector]
    BY <2>1, <1>0, <1>3 DEF Restart, List, Stop, Stopped, WaitForService, ServiceRestart,
                Uninstall, Find, NetworkOfService, RemoveService, DisconnectEndpoints, Goto,
                Finish, Works, TypeOK
  <2> QED  BY <2>2 DEF At
<1>4. ASSUME NEW r \in Request, NEW n \in Service, Command(r, n)
      PROVE  FALSE
  <2>1. worker'[Detector] = worker[Detector]
    BY <1>4, <1>0, WorkersAssumption DEF Command, Works, TypeOK
  <2> QED  BY <2>1 DEF At
<1>5. CASE Watch
  BY <1>5 DEF Watch, At
<1> QED
  BY <1>1, <1>2, <1>3, <1>4, <1>5
     DEF Next, Detect, NoteUninstall, NoteRestart, EndOfRestart, EndOfUninstall, StartTask,
         StopTask, CrashTask, vars

\* The detector restarts nothing that a command restarted or uninstalled while
\* it reads events: for all services, commands and crashes, and however many
\* events wait while it is busy with a restart of its own.
THEOREM DetectorSparesEnded == Spec => SparesEnded
<1>1. Init => Typed /\ SparesInv
  <2> SUFFICES ASSUME Init
               PROVE  Typed /\ SparesInv
    OBVIOUS
  <2>1. NothingSeen /\ \A i \in 1..Len(events) : FALSE
    BY DEF Init, NothingSeen
  <2> QED  BY <2>1, TypedInit DEF SparesInv, EndsOnce, RemovedLast, EndedFlagged, NothingSeen
<1>2. Typed /\ SparesInv /\ [Next]_vars => (Typed /\ SparesInv)'
  BY TypedNext, SparesNext
<1>3. Typed /\ SparesInv /\ [Next]_vars =>
        [At(Detector, "select") /\ At(Detector, "list")'
           => <<Head(events).name, Head(events).task>> \notin ended]_vars
  BY SparesStep
<1> QED  BY <1>1, <1>2, <1>3, PTL DEF Spec, SparesEnded

-----------------------------------------------------------------------------
(* The flags of restarts are cleared. *)

\* What the events say of the end of a container that has been killed.
Awaited(n, k, i) ==
  Running(n, k) \/ \E j \in 1..Len(events) : j > i /\ IsDie(j, n, k)

\* A flagged container runs, or an event of its end waits.
LEMMA FlagAwaited ==
  ASSUME Typed, FlagsCleared, NEW n \in Service, NEW k \in Nat, <<n, k>> \in restartDetected
  PROVE  Awaited(n, k, 0)
<1>1. \/ Running(n, k)
      \/ \E i \in 1..Len(events) :
           events[i].kind = "die" /\ <<events[i].name, events[i].task>> = <<n, k>>
  BY DEF FlagsCleared
<1> QED  BY <1>1 DEF Awaited, IsDie

\* It is enough that this holds after a step.
LEMMA AwaitedFlag ==
  ASSUME Typed',
         \A n \in Service, k \in Nat : <<n, k>> \in restartDetected' => Awaited(n, k, 0)'
  PROVE  FlagsCleared'
<1> SUFFICES ASSUME NEW c \in restartDetected'
             PROVE  \/ Running(c[1], c[2])'
                    \/ \E i \in 1..Len(events') :
                         events'[i].kind = "die" /\ <<events'[i].name, events'[i].task>> = c
  BY DEF FlagsCleared
<1>1. c = <<c[1], c[2]>> /\ c[1] \in Service /\ c[2] \in Nat
  BY DEF Typed, TypeOK, Container
<1>2. Awaited(c[1], c[2], 0)'
  BY <1>1
<1> QED  BY <1>1, <1>2 DEF Awaited, IsDie

\* Steps that end nothing and say nothing.
LEMMA FlagsFrame ==
  ASSUME Typed', FlagsInv, UNCHANGED <<events, flags, ended>>, ~Watching' => ~Watching,
         \A n \in Service, k \in Nat : Running(n, k) => Running(n, k)'
  PROVE  FlagsInv'
<1>1. KillsEnd'
  BY DEF FlagsInv, KillsEnd, IsKill, IsDie
<1>2. FlagsCleared'
  BY DEF FlagsInv, FlagsCleared, flags, Typed, TypeOK, Container
<1> QED  BY <1>1, <1>2 DEF FlagsInv, NothingSeen, flags

\* While the detector is not there, no flag is.
LEMMA FlagsUnseen ==
  ASSUME FlagsInv, ~Watching', UNCHANGED <<events, flags, ended>>, ~Watching
  PROVE  FlagsInv'
<1>1. NothingSeen'
  BY DEF FlagsInv, NothingSeen, flags
<1>2. \A i \in 1..Len(events') : FALSE
  BY <1>1 DEF NothingSeen
<1> QED  BY <1>1, <1>2 DEF FlagsInv, KillsEnd, FlagsCleared, NothingSeen

\* Docker says m things of a container that runs, and if it ends, says so last.
LEMMA FlagsSaid ==
  ASSUME Typed, Typed', FlagsInv, NEW m \in 1..2,
         Len(events') = Len(events) + m,
         \A i \in 1..Len(events) : events'[i] = events[i],
         \A h \in 1..Len(events'), d \in Service, k \in Nat :
           h > Len(events) /\ IsKill(h, d, k)' =>
             Running(d, k) /\ (Running(d, k)' \/ h < Len(events')),
         \A h \in 1..Len(events'), d \in Service, k \in Nat :
           h = Len(events') /\ Running(d, k) => Running(d, k)' \/ IsDie(h, d, k)',
         UNCHANGED flags, Watching'
  PROVE  FlagsInv'
<1>0. Len(events) \in Nat /\ restartDetected' = restartDetected
  BY DEF Typed, TypeOK, flags
<1>1. ASSUME NEW d \in Service, NEW k \in Nat, NEW i \in 0..(Len(events) + m - 1),
             Running(d, k) \/ Awaited(d, k, i)
      PROVE  Awaited(d, k, i)'
  <2>1. CASE Running(d, k)
    <3>1. PICK h \in 1..Len(events') : h = Len(events') /\ h > i
      BY <1>0
    <3> QED  BY <2>1, <3>1 DEF Awaited
  <2>2. CASE \E j \in 1..Len(events) : j > i /\ IsDie(j, d, k)
    BY <2>2, <1>0 DEF Awaited, IsDie
  <2> QED  BY <1>1, <2>1, <2>2 DEF Awaited
<1>2. KillsEnd'
  <2> SUFFICES ASSUME NEW d \in Service, NEW k \in Nat, NEW i \in 1..Len(events'), IsKill(i, d, k)'
               PROVE  Awaited(d, k, i)'
    BY DEF KillsEnd, Awaited
  <2>1. CASE i \in 1..Len(events)
    <3>1. IsKill(i, d, k)
      BY <2>1 DEF IsKill
    <3>2. Awaited(d, k, i)
      BY <2>1, <3>1 DEF FlagsInv, KillsEnd, Awaited
    <3> QED  BY <2>1, <3>2, <1>0, <1>1
  <2>2. CASE i \notin 1..Len(events)
    <3>2. Running(d, k) /\ (Running(d, k)' \/ i < Len(events'))
      BY <2>2, <1>0
    <3>3. CASE Running(d, k)'
      BY <3>3 DEF Awaited
    <3>4. CASE i < Len(events')
      <4>1. i \in 0..(Len(events) + m - 1)
        BY <3>4, <1>0
      <4> QED  BY <4>1, <3>2, <1>1
    <3> QED  BY <3>2, <3>3, <3>4
  <2> QED  BY <2>1, <2>2
<1>3. FlagsCleared'
  <2> SUFFICES ASSUME NEW d \in Service, NEW k \in Nat, <<d, k>> \in restartDetected
               PROVE  Awaited(d, k, 0)'
    BY <1>0, AwaitedFlag
  <2>1. Awaited(d, k, 0)
    BY FlagAwaited DEF FlagsInv
  <2> QED  BY <2>1, <1>0, <1>1
<1> QED  BY <1>2, <1>3 DEF FlagsInv

\* The detector reads an event: a kill sets the flag, the end clears it.
LEMMA FlagsRead ==
  ASSUME Typed, Typed', FlagsInv, events # <<>>, events' = Tail(events),
         UNCHANGED swarm, Watching',
         \A d \in Service, k \in Nat :
           <<d, k>> \in restartDetected' =>
             /\ <<d, k>> \in restartDetected \/ IsKill(1, d, k)
             /\ ~IsDie(1, d, k)
  PROVE  FlagsInv'
<1>0. /\ Len(events) \in Nat \ {0} /\ Len(events') = Len(events) - 1
      /\ \A i \in 1..Len(events') : i + 1 \in 1..Len(events) /\ events'[i] = events[i + 1]
  BY ReadOne
<1>1. ASSUME NEW d \in Service, NEW k \in Nat, NEW i \in Nat, Awaited(d, k, i + 1)
      PROVE  Awaited(d, k, i)'
  <2>1. CASE Running(d, k)
    BY <2>1 DEF Awaited, Running, swarm
  <2>2. ASSUME NEW j \in 1..Len(events), j > i + 1, IsDie(j, d, k)
        PROVE  Awaited(d, k, i)'
    <3>1. PICK h \in 1..Len(events') : h + 1 = j
      BY <2>2, <1>0
    <3>2. h > i /\ IsDie(h, d, k)'
      BY <2>2, <3>1, <1>0 DEF IsDie
    <3> QED  BY <3>2 DEF Awaited
  <2> QED  BY <1>1, <2>1, <2>2 DEF Awaited
<1>2. KillsEnd'
  <2> SUFFICES ASSUME NEW d \in Service, NEW k \in Nat, NEW i \in 1..Len(events'), IsKill(i, d, k)'
               PROVE  Awaited(d, k, i)'
    BY DEF KillsEnd, Awaited
  <2>1. i + 1 \in 1..Len(events) /\ IsKill(i + 1, d, k)
    BY <1>0 DEF IsKill
  <2>2. Awaited(d, k, i + 1)
    BY <2>1 DEF FlagsInv, KillsEnd, Awaited
  <2> QED  BY <2>2, <1>1
<1>3. FlagsCleared'
  <2> SUFFICES ASSUME NEW d \in Service, NEW k \in Nat, <<d, k>> \in restartDetected'
               PROVE  Awaited(d, k, 0)'
    BY AwaitedFlag
  <2>1. ~IsDie(1, d, k)
    OBVIOUS
  <2>2. Awaited(d, k, 1)
    <3>1. CASE <<d, k>> \in restartDetected
      <4>1. Awaited(d, k, 0)
        BY <3>1, FlagAwaited DEF FlagsInv
      <4>2. \A j \in 1..Len(events) : j > 0 /\ IsDie(j, d, k) => j > 1
        BY <2>1, <1>0
      <4> QED  BY <4>1, <4>2 DEF Awaited
    <3>2. CASE IsKill(1, d, k)
      BY <3>2, <1>0 DEF FlagsInv, KillsEnd, Awaited
    <3> QED  BY <3>1, <3>2
  <2>3. 0 \in Nat /\ 0 + 1 = 1
    OBVIOUS
  <2> QED  BY <2>2, <2>3, <1>1
<1> QED  BY <1>2, <1>3 DEF FlagsInv

\* Steps of swarm.
LEMMA FlagsSwarm ==
  ASSUME Typed, FlagsInv, NEW n \in Service, StartTask(n) \/ StopTask(n) \/ CrashTask(n)
  PROVE  FlagsInv'
<1>0. Typed' /\ Watching' = Watching /\ task[n] \in Nat /\ events \in Seq(Event)
  BY TypedSwarm DEF Typed, TypeOK
<1>1. CASE StartTask(n)
  <2>1. /\ UNCHANGED <<events, flags, ended>> /\ n \notin up /\ up' = up \cup {n}
        /\ task' = [task EXCEPT ![n] = @ + 1] /\ task \in [Service -> Nat]
    BY <1>1 DEF StartTask, history, Typed, TypeOK
  <2> QED  BY <2>1, <1>0, FlagsFrame DEF Running
<1>2. CASE ~Watching /\ ~StartTask(n)
  <2>1. UNCHANGED <<events, flags, ended>>
    BY <1>2 DEF StopTask, CrashTask, Emit, history
  <2> QED  BY <2>1, <1>2, <1>0, FlagsUnseen
<1>3. CASE Watching /\ ~StartTask(n)
  <2>1. /\ n \in up /\ up' = up \ {n} /\ UNCHANGED <<task, flags>>
    BY <1>3 DEF StopTask, CrashTask
  <2>2. PICK m \in 1..2 :
          /\ Len(events') = Len(events) + m
          /\ \A i \in 1..Len(events) : events'[i] = events[i]
          /\ m = 2 => events'[Len(events) + 1] = Say("kill", n, task[n])
          /\ events'[Len(events) + m] = Say("die", n, task[n])
    <3>1. Say("kill", n, task[n]) \in Event /\ Say("die", n, task[n]) \in Event
      BY <1>0, EventType
    <3>2. \/ events' = events \o <<Say("kill", n, task[n]), Say("die", n, task[n])>>
          \/ events' = events \o <<Say("die", n, task[n])>>
      <4>1. CASE StopTask(n)
        <5>1. PICK forced \in BOOLEAN :
                events' = events \o ((IF forced THEN <<Say("kill", n, task[n])>> ELSE <<>>)
                                       \o <<Say("die", n, task[n])>>)
          BY <4>1, <1>3 DEF StopTask, Emit
        <5>2. CASE forced
          BY <5>1, <5>2, <3>1
        <5>3. CASE ~forced
          BY <5>1, <5>3, <3>1
        <5> QED  BY <5>2, <5>3
      <4>2. CASE CrashTask(n)
        BY <4>2, <1>3 DEF CrashTask, Emit
      <4> QED  BY <4>1, <4>2, <1>3
    <3>3. CASE events' = events \o <<Say("kill", n, task[n]), Say("die", n, task[n])>>
      <4>1. /\ Len(events') = Len(events) + 2
            /\ \A i \in 1..Len(events) : events'[i] = events[i]
            /\ events'[Len(events) + 1] = Say("kill", n, task[n])
            /\ events'[Len(events) + 2] = Say("die", n, task[n])
        BY <3>1, <3>3, <1>0
      <4> QED  BY <4>1
    <3>4. CASE events' = events \o <<Say("die", n, task[n])>>
      <4>1. /\ Len(events') = Len(events) + 1
            /\ \A i \in 1..Len(events) : events'[i] = events[i]
            /\ events'[Len(events) + 1] = Say("die", n, task[n])
        BY <3>1, <3>4, <1>0
      <4> QED  BY <4>1
    <3> QED  BY <3>2, <3>3, <3>4
  <2>3. Len(events) \in Nat
    BY <1>0
  <2>4. ASSUME NEW h \in 1..Len(events'), NEW d \in Service, NEW k \in Nat
        PROVE  /\ h > Len(events) /\ IsKill(h, d, k)' => Running(d, k) /\ h < Len(events')
               /\ h = Len(events') /\ Running(d, k) => Running(d, k)' \/ IsDie(h, d, k)'
    <3>1. CASE h = Len(events) + m
      BY <3>1, <2>1, <2>2, <2>3 DEF IsKill, IsDie, Running, Say
    <3>2. CASE h = Len(events) + 1 /\ m = 2
      BY <3>2, <2>1, <2>2, <2>3 DEF IsKill, Running, Say
    <3> QED  BY <3>1, <3>2, <2>2, <2>3
  <2> QED  BY <2>1, <2>2, <2>4, <1>0, <1>3, FlagsSaid
<1> QED  BY <1>1, <1>2, <1>3

\* Docker says one thing: it killed what runs, or what it had killed has ended,
\* or a service was removed.
LEMMA FlagsOne ==
  ASSUME Typed, Typed', FlagsInv, NEW e \in Event, Emit(<<e>>), UNCHANGED <<task, flags>>,
         Watching, Watching',
         \/ e.kind = "kill" /\ Running(e.name, e.task) /\ UNCHANGED up
         \/ e.kind = "die" /\ Running(e.name, e.task) /\ up' = up \ {e.name}
         \/ e.kind = "remove" /\ UNCHANGED up
  PROVE  FlagsInv'
<1>1. /\ Len(events) \in Nat /\ Len(events') = Len(events) + 1
      /\ \A i \in 1..Len(events) : events'[i] = events[i]
      /\ events'[Len(events) + 1] = e
  BY EmitOne
<1>2. ASSUME NEW h \in 1..Len(events'), NEW d \in Service, NEW k \in Nat, h = Len(events) + 1
      PROVE  /\ IsKill(h, d, k)' => Running(d, k) /\ Running(d, k)'
             /\ Running(d, k) => Running(d, k)' \/ IsDie(h, d, k)'
  BY <1>1, <1>2 DEF IsKill, IsDie, Running
<1>3. ASSUME NEW h \in 1..Len(events'), NEW d \in Service, NEW k \in Nat
      PROVE  /\ h > Len(events) /\ IsKill(h, d, k)' =>
                  Running(d, k) /\ (Running(d, k)' \/ h < Len(events'))
             /\ h = Len(events') /\ Running(d, k) => Running(d, k)' \/ IsDie(h, d, k)'
  <2>1. h > Len(events) \/ h = Len(events') => h = Len(events) + 1
    BY <1>1
  <2> QED  BY <2>1, <1>2
<1>4. 1 \in 1..2
  OBVIOUS
<1> QED  BY <1>1, <1>3, <1>4, FlagsSaid

\* Steps of a restart.
LEMMA FlagsRestart ==
  ASSUME Typed, FlagsInv, NEW w \in Worker, Restart(w)
  PROVE  FlagsInv'
<1>0. Typed' /\ Watching' = Watching /\ TypeOK
  BY TypedRestart DEF Typed
<1>1. ASSUME At(w, "stop") \/ At(w, "dying")
      PROVE  worker[w].name \in Service /\ worker[w].old \in Nat
  BY <1>1, <1>0 DEF At, RestartPC, Typed, WorkersNamed, TypeOK, WorkerRecord
<1>2. CASE UNCHANGED <<swarm, events, flags, ended>>
  BY <1>2, <1>0, FlagsFrame DEF Running, swarm
<1>3. CASE Stop(w) /\ ~UNCHANGED <<events, ended>>
  <2> DEFINE n == worker[w].name
             e == Say("kill", n, worker[w].old)
  <2>1. /\ Running(n, worker[w].old) /\ Emit(<<e>>) /\ EndsOnPurpose(n)
        /\ UNCHANGED <<task, up, flags>> /\ n \in Service /\ worker[w].old \in Nat
        /\ UNCHANGED swarm
    BY <1>1, <1>3 DEF Stop, swarm
  <2>2. e \in Event /\ e.kind = "kill" /\ e.name = n /\ e.task = worker[w].old
    BY <2>1, EventType
  <2>3. CASE Watching
    <3> HIDE DEF e, n
    <3> QED  BY <2>1, <2>2, <2>3, <1>0, FlagsOne
  <2>4. CASE ~Watching
    BY <2>1, <2>4, <1>0, FlagsUnseen DEF Emit, EndsOnPurpose
  <2> QED  BY <2>3, <2>4
<1>4. CASE Stopped(w) /\ Running(worker[w].name, worker[w].old)
  <2> DEFINE n == worker[w].name
             e == Say("die", n, worker[w].old)
  <2>1. /\ Running(n, worker[w].old) /\ up' = up \ {n} /\ Emit(<<e>>)
        /\ UNCHANGED <<task, flags, ended>> /\ n \in Service /\ worker[w].old \in Nat
    BY <1>1, <1>4 DEF Stopped, history
  <2>2. e \in Event /\ e.kind = "die" /\ e.name = n /\ e.task = worker[w].old
    BY <2>1, EventType
  <2>3. CASE Watching
    <3> HIDE DEF e, n
    <3> QED  BY <2>1, <2>2, <2>3, <1>0, FlagsOne
  <2>4. CASE ~Watching
    BY <2>1, <2>4, <1>0, FlagsUnseen DEF Emit
  <2> QED  BY <2>3, <2>4
<1> QED  BY <1>2, <1>3, <1>4
         DEF Restart, List, Stop, Stopped, WaitForService, ServiceRestart, swarm, history

\* Steps of an uninstall.
LEMMA FlagsUninstall ==
  ASSUME Typed, FlagsInv, NEW w \in Worker, Uninstall(w)
  PROVE  FlagsInv'
<1>0. Typed' /\ Watching' = Watching /\ TypeOK
  BY TypedUninstall DEF Typed
<1>1. CASE UNCHANGED <<swarm, events, flags, ended>>
  BY <1>1, <1>0, FlagsFrame DEF Running, swarm
<1>2. CASE RemoveService(w) /\ exists' # exists
  <2> DEFINE n == worker[w].victim
             e == Say("remove", n, 0)
  <2>1. /\ n \in Service /\ Emit(<<e>>) /\ EndsOnPurpose(n) /\ UNCHANGED <<task, up, flags>>
    BY <1>2, <1>0 DEF RemoveService, TypeOK
  <2>2. e \in Event /\ e.kind = "remove"
    BY <2>1, EventType
  <2>3. CASE Watching
    <3> HIDE DEF e, n
    <3> QED  BY <2>1, <2>2, <2>3, <1>0, FlagsOne
  <2>4. CASE ~Watching
    BY <2>1, <2>4, <1>0, FlagsUnseen DEF Emit, EndsOnPurpose
  <2> QED  BY <2>3, <2>4
<1>3. ASSUME RemoveService(w), exists' = exists
      PROVE  UNCHANGED <<swarm, events, flags, ended>>
  BY <1>3 DEF RemoveService, swarm
<1> QED  BY <1>1, <1>2, <1>3
         DEF Uninstall, Find, NetworkOfService, RemoveService, DisconnectEndpoints, swarm, history

\* Steps of the detector.
LEMMA FlagsDetect ==
  ASSUME Typed, FlagsInv, Detect
  PROVE  FlagsInv'
<1>0. /\ Typed' /\ Watching' /\ events # <<>> /\ events' = Tail(events)
      /\ UNCHANGED swarm /\ TypeOK
  BY TypedDetect DEF Typed, Detect, NoteUninstall, NoteRestart, EndOfRestart, EndOfUninstall,
                     EndOfCrash, NextIs, At, Watching
<1>1. Head(events) = events[1]
  BY <1>0, ReadOne
<1>2. ASSUME NEW d \in Service, NEW k \in Nat, <<d, k>> \in restartDetected'
      PROVE  (<<d, k>> \in restartDetected \/ IsKill(1, d, k)) /\ ~IsDie(1, d, k)
  <2>1. CASE NoteUninstall
    BY <1>1, <1>2, <2>1 DEF NoteUninstall, NextIs, IsDie
  <2>2. CASE NoteRestart
    BY <1>1, <1>2, <2>2 DEF NoteRestart, NextIs, IsDie, IsKill
  <2>3. CASE EndOfRestart
    BY <1>1, <1>2, <2>3 DEF EndOfRestart, NextIs, IsDie
  <2>4. CASE EndOfUninstall
    BY <1>1, <1>2, <2>4 DEF EndOfUninstall, NextIs, IsDie
  <2>5. CASE EndOfCrash
    BY <1>1, <1>2, <2>5 DEF EndOfCrash, NextIs, IsDie, flags
  <2> QED  BY <2>1, <2>2, <2>3, <2>4, <2>5 DEF Detect
<1> QED  BY <1>0, <1>2, FlagsRead

\* Every step.
LEMMA FlagsNext ==
  ASSUME Typed, FlagsInv, [Next]_vars
  PROVE  FlagsInv'
<1>0. Typed'
  BY TypedNext
<1>1. CASE UNCHANGED vars
  BY <1>0, <1>1, FlagsFrame DEF vars, swarm, history, Watching, At, Running
<1>2. CASE Watch
  BY <1>0, <1>2, FlagsFrame DEF Watch, swarm, history, Watching, Running
<1>3. ASSUME NEW r \in Request, NEW n \in Service, Command(r, n)
      PROVE  FlagsInv'
  <2>1. Watching' = Watching
    BY <1>3, TypedCommand
  <2> QED  BY <2>1, <1>0, <1>3, FlagsFrame DEF Command, swarm, Running
<1> QED  BY <1>1, <1>2, <1>3, FlagsDetect, FlagsSwarm, FlagsRestart, FlagsUninstall DEF Next

\* No flag of a restart stays behind, to grow the map or to hide a later crash:
\* every kill that the detector reads is followed by the end of what it killed,
\* whether a restart, swarm or an uninstall killed it.
THEOREM DetectorFlagsCleared == Spec => []FlagsCleared
<1>1. Init => Typed /\ FlagsInv
  <2> SUFFICES ASSUME Init
               PROVE  Typed /\ FlagsInv
    OBVIOUS
  <2>1. NothingSeen /\ \A i \in 1..Len(events) : FALSE
    BY DEF Init, NothingSeen
  <2> QED  BY <2>1, TypedInit DEF FlagsInv, KillsEnd, FlagsCleared, NothingSeen
<1>2. Typed /\ FlagsInv /\ [Next]_vars => (Typed /\ FlagsInv)'
  BY TypedNext, FlagsNext
<1>3. FlagsInv => FlagsCleared
  BY DEF FlagsInv
<1> QED  BY <1>1, <1>2, <1>3, PTL DEF Spec

-----------------------------------------------------------------------------
(* Addresses are known. *)

\* Nothing is done to a service.
Same(m) ==
  /\ m \in exists' <=> m \in exists
  /\ m \in up' <=> m \in up
  /\ m \in taken' <=> m \in taken
  /\ task'[m] = task[m] /\ known'[m] = known[m]

\* What Followed says of n stays true while nobody does anything to it.
LEMMA FollowedStays ==
  ASSUME Typed, NEW n \in Service, Followed(n), Same(n),
         \A w \in Worker :
           \/ worker'[w] = worker[w]
           \/ /\ n \notin {worker[w].name, worker[w].victim}
              /\ n \notin {worker'[w].name, worker'[w].victim}
  PROVE  Followed(n)'
<1>1. ASSUME NEW w \in Worker
      PROVE  WorksOn(w, n)' <=> WorksOn(w, n)
  BY DEF WorksOn
<1>2. Settled(n)' <=> Settled(n)
  BY DEF Settled, Same
<1>3. ASSUME NEW w \in Worker, WorksOn(w, n)'
      PROVE  Stage(w, n)'
  <2>1. Stage(w, n) /\ worker'[w] = worker[w]
    BY <1>1, <1>3 DEF Followed, WorksOn
  <2>2. RestartStage(w, n) => RestartStage(w, n)'
    BY <1>2, <2>1 DEF RestartStage, Same
  <2>3. RemoveStage(w, n) => RemoveStage(w, n)'
    BY <1>2, <2>1 DEF RemoveStage, Same, AddressRead
  <2> QED  BY <2>1, <1>2, <2>2, <2>3 DEF Stage
<1> QED  BY <1>1, <1>2, <1>3 DEF Followed, Busy, Same

\* It is enough to follow the two services that a goroutine works on,
LEMMA FollowTwo ==
  ASSUME Typed, Typed', AddressInv, NEW w \in Worker, NEW n \in Service, NEW m \in Service,
         \A d \in Service \ {n, m} : Same(d),
         disturbed \subseteq disturbed', task' = task,
         \A v \in Worker \ {w} : worker'[v] = worker[v],
         worker[w].name \in {n, Detector}, worker'[w].name \in {n, Detector},
         worker[w].victim \in {m, Detector}, worker'[w].victim \in {m, Detector},
         worker'[w].pc \in RestartPC \cup UninstallPC \/ worker'[w].name = Detector,
         worker'[w].pc \in {"address", "remove", "disconnect"} \/ worker'[w].victim = Detector,
         n \notin disturbed' => Followed(n)', m \notin disturbed' => Followed(m)'
  PROVE  AddressInv'
<1>1. IdleNameless'
  BY DEF AddressInv, IdleNameless
<1>2. ASSUME NEW d \in Service \ disturbed', d # n, d # m
      PROVE  Followed(d)'
  <2>1. Followed(d) /\ Same(d)
    BY <1>2 DEF AddressInv
  <2>2. \A v \in Worker :
          \/ worker'[v] = worker[v]
          \/ /\ d \notin {worker[v].name, worker[v].victim}
             /\ d \notin {worker'[v].name, worker'[v].victim}
    BY <1>2, WorkersAssumption
  <2> QED  BY <2>1, <2>2, FollowedStays
<1> QED  BY <1>1, <1>2 DEF AddressInv

\* A step of w on one service leaves the others alone.
Elsewhere(n) == \A d \in Service \ {n} : Same(d)

\* or the one.
LEMMA FollowOne ==
  ASSUME Typed, Typed', AddressInv, NEW w \in Worker, NEW n \in Service, Elsewhere(n),
         disturbed \subseteq disturbed', task' = task,
         \A v \in Worker \ {w} : worker'[v] = worker[v],
         worker[w].name \in {n, Detector}, worker'[w].name \in {n, Detector},
         worker[w].victim = Detector, worker'[w].victim = Detector,
         worker'[w].pc \in RestartPC \cup UninstallPC \/ worker'[w].name = Detector,
         n \notin disturbed' => Followed(n)'
  PROVE  AddressInv'
BY FollowTwo DEF Elsewhere

\* The only goroutine on a service goes on,
LEMMA FollowGo ==
  ASSUME Typed, NEW n \in Service, Followed(n), NEW w \in Worker,
         n \in {worker[w].name, worker[w].victim},
         n \in {worker'[w].name, worker'[w].victim},
         \A v \in Worker \ {w} : worker'[v] = worker[v],
         n \in exists' => n \notin taken', Stage(w, n)'
  PROVE  Followed(n)'
<1>1. \A v \in Worker : WorksOn(v, n) => v = w
  BY DEF Followed, WorksOn
<1>2. \A v \in Worker : WorksOn(v, n)' => v = w
  BY <1>1 DEF WorksOn
<1>3. WorksOn(w, n)'
  BY DEF WorksOn
<1> QED  BY <1>2, <1>3 DEF Followed, Busy

\* or returns,
LEMMA FollowEnd ==
  ASSUME Typed, NEW n \in Service, Followed(n), NEW w \in Worker,
         n \in {worker[w].name, worker[w].victim},
         n \notin {worker'[w].name, worker'[w].victim},
         \A v \in Worker \ {w} : worker'[v] = worker[v],
         n \in exists' => n \notin taken', Settled(n)'
  PROVE  Followed(n)'
<1>1. \A v \in Worker : WorksOn(v, n) => v = w
  BY DEF Followed, WorksOn
<1>2. \A v \in Worker : ~WorksOn(v, n)'
  BY <1>1 DEF WorksOn
<1> QED  BY <1>2 DEF Followed

\* or is the first.
LEMMA FollowStart ==
  ASSUME Typed, NEW n \in Service, Followed(n), ~Busy(n), NEW w \in Worker,
         n \in {worker'[w].name, worker'[w].victim},
         \A v \in Worker \ {w} : worker'[v] = worker[v],
         n \in exists' => n \notin taken', Stage(w, n)'
  PROVE  Followed(n)'
<1>1. \A v \in Worker : WorksOn(v, n)' => v = w
  BY DEF Busy, WorksOn
<1>2. WorksOn(w, n)'
  BY DEF WorksOn
<1> QED  BY <1>1, <1>2 DEF Followed, Busy

\* A goroutine that returns has no service.
LEMMA FinishNameless ==
  ASSUME Typed, NEW w \in Worker, Finish(w)
  PROVE  /\ worker'[w].name = Detector /\ worker'[w].victim = Detector
         /\ worker'[w].pc \notin RestartPC \cup UninstallPC
         /\ \A v \in Worker \ {w} : worker'[v] = worker[v]
BY DEF Typed, TypeOK, Finish, Works, NoWork, RestartPC, UninstallPC

\* A goroutine that goes on keeps its service and what it has found.
LEMMA GotoFound ==
  ASSUME Typed, NEW w \in Worker, NEW l \in RestartPC \cup UninstallPC, Goto(w, l)
  PROVE  /\ worker'[w].pc = l /\ worker'[w].name = worker[w].name
         /\ worker'[w].old = worker[w].old /\ worker'[w].victim = worker[w].victim
         /\ \A v \in Worker \ {w} : worker'[v] = worker[v]
BY DEF Typed, TypeOK, Goto, WorkerRecord

\* A restart goes on: it has taken nothing for the service to remove.
LEMMA RestartGo ==
  ASSUME Typed, NEW n \in Service, Followed(n), NEW w \in Worker, worker[w].name = n,
         \A v \in Worker \ {w} : worker'[v] = worker[v],
         worker'[w].name = n, worker'[w].victim = Detector, worker'[w].pc \in RestartPC,
         UNCHANGED <<exists, taken>>, RestartStage(w, n)'
  PROVE  Followed(n)'
<1>1. worker'[w].pc \notin UninstallPC /\ n # Detector
  BY WorkersAssumption DEF RestartPC, UninstallPC
<1>2. Stage(w, n)'
  BY <1>1 DEF Stage
<1>3. n \in exists' => n \notin taken'
  BY DEF Followed
<1> QED  BY <1>2, <1>3, FollowGo

\* A restart returns.
LEMMA RestartEnd ==
  ASSUME Typed, NEW n \in Service, Followed(n), NEW w \in Worker, worker[w].name = n,
         \A v \in Worker \ {w} : worker'[v] = worker[v],
         worker'[w].name = Detector, worker'[w].victim = Detector,
         UNCHANGED <<exists, taken>>, Settled(n)'
  PROVE  Followed(n)'
<1>1. n # Detector
  BY WorkersAssumption
<1>2. n \in exists' => n \notin taken'
  BY DEF Followed
<1> QED  BY <1>1, <1>2, FollowEnd

\* Steps of a restart.
LEMMA AddressRestart ==
  ASSUME Typed, AddressInv, NEW w \in Worker, Restart(w)
  PROVE  AddressInv'
<1>0. Typed' /\ TypeOK
  BY TypedRestart DEF Typed
<1>n. PICK n \in Service : n = worker[w].name
  BY <1>0 DEF Restart, List, Stop, Stopped, WaitForService, ServiceRestart, At, RestartPC,
              Typed, WorkersNamed, TypeOK
<1>v. worker[w].pc \in RestartPC /\ worker[w].victim = Detector /\ n # Detector
  BY WorkersAssumption
     DEF Restart, List, Stop, Stopped, WaitForService, ServiceRestart, At, RestartPC,
         UninstallPC, AddressInv, IdleNameless
<1>s. ASSUME n \notin disturbed
      PROVE  Followed(n) /\ RestartStage(w, n)
  BY <1>s, <1>n, <1>v DEF AddressInv, Followed, WorksOn, Stage
<1>p. {"list", "stop", "dying", "wait", "report"} = RestartPC /\ "off" \notin RestartPC
  BY DEF RestartPC
<1>q. known \in [Service -> Nat] /\ task \in [Service -> Nat]
  BY <1>0 DEF TypeOK
<1>w. worker \in [Worker -> WorkerRecord]
  BY <1>0 DEF TypeOK
<1>1. CASE List(w)
  <2>1. At(w, "list") /\ UNCHANGED <<exists, task, up, known, taken, disturbed>> /\ Elsewhere(n)
    BY <1>1 DEF List, swarm, history, Elsewhere, Same
  <2>2. CASE n \in up
    <3>1. /\ worker'[w].pc = "stop" /\ worker'[w].name = n /\ worker'[w].old = task[n]
          /\ worker'[w].victim = Detector
          /\ \A v \in Worker \ {w} : worker'[v] = worker[v]
      BY <1>1, <2>2, <1>w, <1>q, <1>n, <1>v DEF List, WorkerRecord
    <3>2. n \notin disturbed => RestartStage(w, n)'
      BY <3>1, <2>1, <1>s DEF RestartStage, Settled, At
    <3>3. n \notin disturbed => Followed(n)'
      BY <3>1, <3>2, <2>1, <1>s, <1>n, <1>p, RestartGo
    <3> QED  BY <3>1, <3>3, <2>1, <1>0, <1>n, <1>p, <1>v, FollowOne
  <2>3. CASE n \notin up
    <3>1. /\ worker'[w].name = Detector /\ worker'[w].victim = Detector
          /\ \A v \in Worker \ {w} : worker'[v] = worker[v]
      BY <1>n, <1>1, <2>3, FinishNameless DEF List
    <3>2. n \notin disturbed => Settled(n)'
      BY <2>1, <1>s DEF RestartStage, Settled, At
    <3>3. n \notin disturbed => Followed(n)'
      BY <3>1, <3>2, <2>1, <1>s, <1>n, RestartEnd
    <3> QED  BY <3>1, <3>3, <2>1, <1>0, <1>n, <1>v, FollowOne
  <2> QED  BY <2>2, <2>3
<1>2. CASE Stop(w)
  <2>1. At(w, "stop") /\ UNCHANGED <<exists, task, up, known, taken, disturbed>> /\ Elsewhere(n)
    BY <1>2 DEF Stop, swarm, Elsewhere, Same
  <2>2. n \notin disturbed => Settled(n) /\ Settled(n)' /\ worker[w].old = task[n]
    BY <2>1, <1>s DEF RestartStage, Settled, At
  <2>3. CASE Finish(w)
    <3>1. /\ worker'[w].name = Detector /\ worker'[w].victim = Detector
          /\ \A v \in Worker \ {w} : worker'[v] = worker[v]
      BY <2>3, FinishNameless
    <3>2. n \notin disturbed => Followed(n)'
      BY <3>1, <2>2, <2>1, <1>s, <1>n, RestartEnd
    <3> QED  BY <3>1, <3>2, <2>1, <1>0, <1>n, <1>v, FollowOne
  <2>4. CASE Goto(w, "dying") \/ (Goto(w, "wait") /\ ~Running(n, worker[w].old))
    <3>1. /\ worker'[w].pc \in RestartPC /\ worker'[w].name = n
          /\ worker'[w].old = worker[w].old
          /\ worker'[w].victim = Detector
          /\ worker'[w].pc = "dying" \/ (worker'[w].pc = "wait" /\ ~Running(n, worker[w].old))
          /\ \A v \in Worker \ {w} : worker'[v] = worker[v]
      BY <1>n, <2>4, <1>p, <1>v, GotoFound
    <3>2. n \notin disturbed => RestartStage(w, n)'
      BY <3>1, <2>1, <2>2 DEF RestartStage, Settled, Running
    <3>3. n \notin disturbed => Followed(n)'
      BY <3>1, <3>2, <2>1, <1>s, <1>n, <1>p, RestartGo
    <3> QED  BY <3>1, <3>3, <2>1, <1>0, <1>n, <1>v, FollowOne
  <2> QED  BY <1>n, <2>3, <2>4, <1>2 DEF Stop
<1>3. CASE Stopped(w)
  <2>1. At(w, "dying") /\ UNCHANGED <<exists, task, known, taken, disturbed>> /\ Goto(w, "wait")
    BY <1>3 DEF Stopped, history
  <2>2. \/ up' = up \ {n} /\ Running(n, worker[w].old)
        \/ up' = up /\ ~Running(n, worker[w].old)
    BY <1>n, <1>3 DEF Stopped, Running
  <2>3. Elsewhere(n)
    BY <2>1, <2>2 DEF Elsewhere, Same
  <2>4. /\ worker'[w].pc = "wait" /\ worker'[w].name = n /\ worker'[w].old = worker[w].old
        /\ worker'[w].victim = Detector
        /\ \A v \in Worker \ {w} : worker'[v] = worker[v]
    BY <1>n, <2>1, <1>p, <1>v, GotoFound
  <2>5. n \notin disturbed => RestartStage(w, n)'
    BY <2>1, <2>2, <2>4, <1>s DEF RestartStage, Settled, Running, At
  <2>6. n \notin disturbed => Followed(n)'
    BY <2>4, <2>5, <2>1, <1>s, <1>n, <1>p, RestartGo
  <2> QED  BY <2>1, <2>3, <2>4, <2>6, <1>0, <1>n, <1>p, <1>v, FollowOne
<1>4. CASE WaitForService(w)
  <2>1. /\ At(w, "wait") /\ UNCHANGED <<exists, task, up, known, taken>> /\ Elsewhere(n)
        /\ disturbed \subseteq disturbed'
    BY <1>4 DEF WaitForService, swarm, Elsewhere, Same
  <2>2. CASE n \in up
    <3>1. /\ worker'[w].pc = "report" /\ worker'[w].name = n
          /\ worker'[w].old = worker[w].old /\ worker'[w].new = task[n]
          /\ worker'[w].victim = Detector
          /\ \A v \in Worker \ {w} : worker'[v] = worker[v]
          /\ disturbed' = disturbed
      BY <1>4, <2>2, <1>w, <1>q, <1>n, <1>v DEF WaitForService, WorkerRecord
    <3>2. n \notin disturbed => RestartStage(w, n)'
      BY <3>1, <2>1, <2>2, <1>s DEF RestartStage, Settled, At
    <3>3. n \notin disturbed => Followed(n)'
      BY <3>1, <3>2, <2>1, <1>s, <1>n, <1>p, RestartGo
    <3> QED  BY <3>1, <3>3, <2>1, <1>0, <1>n, <1>p, <1>v, FollowOne
  <2>3. CASE n \notin up /\ worker' = [worker EXCEPT ![w].polls = @ + 1]
    <3>1. /\ worker'[w].pc = "wait" /\ worker'[w].name = n /\ worker'[w].old = worker[w].old
          /\ worker'[w].victim = Detector
          /\ \A v \in Worker \ {w} : worker'[v] = worker[v]
      BY <1>n, <2>1, <2>3, <1>w, <1>v DEF WorkerRecord, At
    <3>2. n \notin disturbed => RestartStage(w, n)'
      BY <3>1, <2>1, <1>s DEF RestartStage, Settled, At
    <3>3. n \notin disturbed => Followed(n)'
      BY <3>1, <3>2, <2>1, <1>s, <1>n, <1>p, RestartGo
    <3> QED  BY <3>1, <3>3, <2>1, <1>0, <1>n, <1>p, <1>v, FollowOne
  <2>4. CASE Finish(w) /\ n \in disturbed'
    <3>1. /\ worker'[w].name = Detector /\ worker'[w].victim = Detector
          /\ \A v \in Worker \ {w} : worker'[v] = worker[v]
      BY <2>4, FinishNameless
    <3> QED  BY <3>1, <2>1, <2>4, <1>0, <1>n, <1>v, FollowOne
  <2> QED  BY <1>n, <2>2, <2>3, <2>4, <1>4 DEF WaitForService
<1>5. CASE ServiceRestart(w)
  <2>1. /\ At(w, "report") /\ UNCHANGED <<exists, task, up, taken>> /\ Finish(w)
        /\ disturbed \subseteq disturbed'
    BY <1>5 DEF ServiceRestart, swarm
  <2>2. /\ worker'[w].name = Detector /\ worker'[w].victim = Detector
        /\ \A v \in Worker \ {w} : worker'[v] = worker[v]
    BY <2>1, FinishNameless
  <2>3. CASE n \in disturbed' /\ UNCHANGED known
    <3>1. Elsewhere(n)
      BY <2>1, <2>3 DEF Elsewhere, Same
    <3> QED  BY <3>1, <2>1, <2>2, <2>3, <1>0, <1>n, <1>v, FollowOne
  <2>4. CASE /\ known' = [known EXCEPT ![n] = IF @ = worker[w].old THEN worker[w].new ELSE @]
             /\ UNCHANGED disturbed
    <3>1. Elsewhere(n)
      BY <2>1, <2>4, <1>q DEF Elsewhere, Same
    <3>2. n \notin disturbed => Settled(n)'
      BY <2>1, <2>4, <1>q, <1>n, <1>s DEF RestartStage, Settled, At
    <3>3. n \notin disturbed => Followed(n)'
      BY <2>1, <2>2, <2>4, <3>2, <1>s, <1>n, RestartEnd
    <3> QED  BY <3>1, <3>3, <2>1, <2>2, <2>4, <1>0, <1>n, <1>v, FollowOne
  <2> QED  BY <1>n, <2>3, <2>4, <1>5 DEF ServiceRestart
<1> QED  BY <1>1, <1>2, <1>3, <1>4, <1>5 DEF Restart

\* Steps of an uninstall.
LEMMA AddressUninstall ==
  ASSUME Typed, AddressInv, NEW w \in Worker, Uninstall(w)
  PROVE  AddressInv'
<1>0. Typed' /\ TypeOK
  BY TypedUninstall DEF Typed
<1>n. PICK n \in Service : n = worker[w].name
  BY <1>0 DEF Uninstall, Find, NetworkOfService, RemoveService, DisconnectEndpoints, At,
              UninstallPC, Typed, WorkersNamed
<1>p. /\ {"find", "address", "remove", "disconnect"} = UninstallPC
      /\ RestartPC \cap UninstallPC = {}
  BY DEF UninstallPC, RestartPC
<1>q. known \in [Service -> Nat] /\ task \in [Service -> Nat] /\ n # Detector
  BY <1>0, WorkersAssumption DEF TypeOK
<1>w. worker \in [Worker -> WorkerRecord]
  BY <1>0 DEF TypeOK
<1>1. CASE Find(w)
  <2>1. /\ At(w, "find") /\ UNCHANGED <<exists, task, up, known, taken>>
        /\ \A d \in Service : Same(d)
    BY <1>1 DEF Find, swarm, Same
  <2>2. worker[w].victim = Detector
    BY <2>1 DEF At, AddressInv, IdleNameless
  <2>3. n \notin disturbed =>
          Followed(n) /\ Settled(n) /\ Settled(n)' /\ (n \in exists' => n \notin taken')
    BY <2>1, <2>2, <1>n, <1>p, <1>q DEF At, AddressInv, Followed, WorksOn, Stage, Settled
  <2>4. CASE Finish(w) /\ UNCHANGED disturbed
    <3>1. /\ worker'[w].name = Detector /\ worker'[w].victim = Detector
          /\ \A v \in Worker \ {w} : worker'[v] = worker[v]
      BY <2>4, FinishNameless
    <3>2. n \notin disturbed => Followed(n)'
      BY <3>1, <2>3, <1>n, <1>q, FollowEnd
    <3> QED  BY <3>1, <3>2, <2>1, <2>2, <2>4, <1>0, <1>n, FollowOne DEF Elsewhere
  <2>5. ASSUME NEW m \in Listed(n), n \in Listed(n) => m = n,
               worker' = [worker EXCEPT ![w].pc = "address", ![w].victim = m],
               disturbed' = IF m # n /\ Busy(m) THEN disturbed \cup {m} ELSE disturbed
        PROVE  AddressInv'
    <3>1. m \in Service /\ m \in exists /\ disturbed \subseteq disturbed'
      BY <2>5, <1>0 DEF Listed, TypeOK
    <3>2. /\ worker'[w].pc = "address" /\ worker'[w].name = n /\ worker'[w].victim = m
          /\ \A v \in Worker \ {w} : worker'[v] = worker[v]
      BY <2>5, <1>w, <1>n DEF WorkerRecord
    <3>3. worker'[w].pc \in UninstallPC /\ worker'[w].pc \notin RestartPC
      BY <3>2, <1>p
    <3>4. n \notin disturbed' => Followed(n)'
      <4>1. n \notin disturbed' => Stage(w, n)'
        BY <3>1, <3>2, <3>3, <2>1, <2>3 DEF Stage, RemoveStage
      <4> QED  BY <4>1, <3>1, <3>2, <2>3, <1>n, FollowGo
    <3>5. m \notin disturbed' => Followed(m)'
      <4>1. CASE m = n
        BY <4>1, <3>4
      <4>2. CASE m # n
        <5>1. m \notin disturbed' =>
                /\ ~Busy(m) /\ Followed(m) /\ Settled(m) /\ Settled(m)'
                /\ (m \in exists' => m \notin taken')
          BY <4>2, <3>1, <2>1, <2>5 DEF AddressInv, Followed, Settled
        <5>2. m \notin disturbed' => Stage(w, m)'
          BY <5>1, <3>1, <3>2, <2>1 DEF Stage, RemoveStage
        <5> QED  BY <5>1, <5>2, <3>1, <3>2, FollowStart
      <4> QED  BY <4>1, <4>2
    <3> QED  BY <3>1, <3>2, <3>3, <3>4, <3>5, <2>1, <2>2, <1>0, <1>n, FollowTwo
  <2> QED  BY <1>n, <2>4, <2>5, <1>1 DEF Find
<1>m. ASSUME worker[w].pc \in {"address", "remove", "disconnect"}
      PROVE  worker[w].victim \in Service
  BY <1>m DEF Typed, WorkersNamed
<1>s. ASSUME NEW m \in Service, m = worker[w].victim
      PROVE  /\ n \notin disturbed => Followed(n) /\ Stage(w, n)
             /\ m \notin disturbed => Followed(m) /\ RemoveStage(w, m)
             /\ m # n /\ n \notin disturbed /\ worker[w].pc \in UninstallPC => Settled(n)
  BY <1>s, <1>n DEF AddressInv, Followed, WorksOn, Stage
<1>2. CASE NetworkOfService(w)
  <2>1. /\ At(w, "address") /\ UNCHANGED <<exists, task, up, known, taken, disturbed>>
        /\ \A d \in Service : Same(d)
    BY <1>2 DEF NetworkOfService, swarm, history, Same
  <2>2. PICK m \in Service : m = worker[w].victim
    BY <2>1, <1>m DEF At
  <2>3. /\ worker'[w].pc = "remove" /\ worker'[w].name = n /\ worker'[w].victim = m
        /\ worker'[w].old = IF m \in up \cap Network THEN task[m] ELSE 0
        /\ \A v \in Worker \ {w} : worker'[v] = worker[v]
    BY <2>2, <1>2, <1>w, <1>n, <1>q DEF NetworkOfService, WorkerRecord
  <2>4. m \notin disturbed => Stage(w, m)' /\ Followed(m)
    BY <2>1, <2>2, <2>3, <1>s DEF Stage, RemoveStage, Settled, AddressRead, At
  <2>5. m \notin disturbed => Followed(m)'
    <3>1. m \notin disturbed /\ m \in exists' => m \notin taken'
      BY <2>1, <2>4 DEF Followed
    <3> QED  BY <3>1, <2>2, <2>3, <2>4, FollowGo
  <2>6. n \notin disturbed => Followed(n)'
    <3>1. CASE n = m
      BY <3>1, <2>5
    <3>2. CASE n # m
      <4>1. n \notin disturbed => Settled(n)' /\ Followed(n) /\ (n \in exists' => n \notin taken')
        BY <3>2, <2>1, <2>2, <1>s, <1>p DEF Settled, At, Followed
      <4>2. worker'[w].pc \notin RestartPC
        BY <2>3, <1>p
      <4>3. n \notin disturbed => Stage(w, n)'
        BY <4>1, <4>2, <3>2, <2>3 DEF Stage
      <4> QED  BY <4>1, <4>3, <2>3, <1>n, FollowGo
    <3> QED  BY <3>1, <3>2
  <2> QED  BY <2>1, <2>2, <2>3, <2>5, <2>6, <1>0, <1>n, <1>p, FollowTwo
<1>3. CASE RemoveService(w)
  <2>1. /\ At(w, "remove") /\ UNCHANGED <<task, up, known>> /\ Goto(w, "disconnect")
    BY <1>3 DEF RemoveService
  <2>2. PICK m \in Service : m = worker[w].victim
    BY <2>1, <1>m DEF At
  <2>3. /\ worker'[w].pc = "disconnect" /\ worker'[w].name = n /\ worker'[w].victim = m
        /\ worker'[w].old = worker[w].old
        /\ \A v \in Worker \ {w} : worker'[v] = worker[v]
    BY <2>1, <2>2, <1>n, <1>p, GotoFound
  <2>4. \/ /\ m \in exists /\ exists' = exists \ {m} /\ disturbed' = disturbed
           /\ taken' = IF m # n THEN taken \cup {m} ELSE taken
        \/ m \in disturbed' /\ disturbed' = disturbed \cup {m} /\ UNCHANGED <<exists, taken>>
    BY <2>2, <1>n, <1>3 DEF RemoveService
  <2>5. \A d \in Service \ {n, m} : Same(d)
    BY <2>1, <2>4 DEF Same
  <2>6. m \notin disturbed' => Followed(m)'
    <3>1. m \notin disturbed' =>
            /\ m \in exists /\ exists' = exists \ {m} /\ Followed(m)
            /\ Settled(m) /\ worker[w].old = AddressRead(m) /\ m \notin taken
            /\ taken' = IF m # n THEN taken \cup {m} ELSE taken
      BY <2>1, <2>2, <2>4, <1>s DEF RemoveStage, At, Followed
    <3>2. m \notin disturbed' => Stage(w, m)'
      BY <3>1, <2>1, <2>3 DEF Stage, RemoveStage, Settled, AddressRead
    <3> QED  BY <3>1, <3>2, <2>2, <2>3, FollowGo
  <2>7. n \notin disturbed' => Followed(n)'
    <3>1. CASE n = m
      BY <3>1, <2>6
    <3>2. CASE n # m
      <4>1. /\ n \in exists' <=> n \in exists
            /\ n \in taken' <=> n \in taken
            /\ n \in disturbed' <=> n \in disturbed
        BY <3>2, <2>4
      <4>2. n \notin disturbed => Settled(n)' /\ Followed(n) /\ (n \in exists' => n \notin taken')
        BY <4>1, <3>2, <2>1, <2>2, <1>s, <1>p DEF Settled, At, Followed
      <4>3. worker'[w].pc \notin RestartPC
        BY <2>3, <1>p
      <4>4. n \notin disturbed => Stage(w, n)'
        BY <4>2, <4>3, <3>2, <2>3 DEF Stage
      <4> QED  BY <4>1, <4>2, <4>4, <2>3, <1>n, FollowGo
    <3> QED  BY <3>1, <3>2
  <2>8. disturbed \subseteq disturbed'
    BY <2>4
  <2> QED  BY <2>1, <2>2, <2>3, <2>5, <2>6, <2>7, <2>8, <1>0, <1>n, <1>p, FollowTwo
<1>4. CASE DisconnectEndpoints(w)
  <2>1. /\ At(w, "disconnect") /\ UNCHANGED <<exists, task, up, taken>> /\ Finish(w)
        /\ disturbed \subseteq disturbed'
    BY <1>4 DEF DisconnectEndpoints, swarm
  <2>2. PICK m \in Service : m = worker[w].victim
    BY <2>1, <1>m DEF At
  <2>3. /\ worker'[w].name = Detector /\ worker'[w].victim = Detector
        /\ \A v \in Worker \ {w} : worker'[v] = worker[v]
    BY <2>1, FinishNameless
  <2>4. /\ \A d \in Service \ {n} : known'[d] = known[d]
        /\ \/ /\ known'[n] = IF m = n /\ known[n] = worker[w].old THEN 0 ELSE known[n]
              /\ disturbed' = disturbed
           \/ disturbed' = disturbed \cup {n}
    BY <2>2, <1>q, <1>n, <1>4 DEF DisconnectEndpoints
  <2>5. \A d \in Service \ {n, m} : Same(d)
    BY <2>1, <2>4 DEF Same
  <2>6. n \notin disturbed' => Settled(n)' /\ Followed(n)
    <3>1. CASE m # n
      BY <3>1, <2>1, <2>2, <2>4, <1>s, <1>p DEF At, Settled
    <3>2. CASE m = n
      <4>1. n \notin disturbed' =>
              /\ n \notin exists \cup taken /\ known[n] = task[n]
              /\ worker[w].old = AddressRead(n) /\ Followed(n)
              /\ known'[n] = IF known[n] = worker[w].old THEN 0 ELSE known[n]
        BY <3>2, <2>1, <2>2, <2>4, <1>n, <1>s DEF RemoveStage, At
      <4>2. task[n] # 0
        BY DEF AddressInv
      <4> QED  BY <4>1, <4>2, <2>1 DEF Settled, AddressRead
    <3> QED  BY <3>1, <3>2
  <2>7. n \notin disturbed' => Followed(n)'
    <3>1. n \notin disturbed' => (n \in exists' => n \notin taken')
      BY <2>1, <2>6 DEF Followed
    <3> QED  BY <3>1, <2>3, <2>6, <1>n, <1>q, FollowEnd
  <2>8. m \notin disturbed' => Followed(m)'
    <3>1. CASE m = n
      BY <3>1, <2>7
    <3>2. CASE m # n
      <4>1. m \notin disturbed' => Followed(m) /\ Settled(m)
        BY <3>2, <2>1, <2>2, <1>n, <1>s DEF RemoveStage, At
      <4>2. m \notin disturbed' => Settled(m)' /\ (m \in exists' => m \notin taken')
        BY <4>1, <3>2, <2>1, <2>4 DEF Settled, Followed
      <4>3. m # Detector
        BY WorkersAssumption
      <4> QED  BY <4>1, <4>2, <4>3, <2>2, <2>3, FollowEnd
    <3> QED  BY <3>1, <3>2
  <2> QED  BY <2>1, <2>2, <2>3, <2>5, <2>7, <2>8, <1>0, <1>n, FollowTwo
<1> QED  BY <1>1, <1>2, <1>3, <1>4 DEF Uninstall

\* Steps of swarm: of a service that no crash has disturbed, it stops only what
\* was removed.
LEMMA AddressSwarm ==
  ASSUME Typed, AddressInv, NEW n \in Service, StartTask(n) \/ StopTask(n) \/ CrashTask(n)
  PROVE  AddressInv'
<1>0. /\ Typed' /\ UNCHANGED <<worker, exists, known, taken>> /\ disturbed \subseteq disturbed'
      /\ task \in [Service -> Nat]
  BY TypedSwarm DEF StartTask, StopTask, CrashTask, history, Typed, TypeOK
<1>1. IdleNameless'
  BY <1>0 DEF AddressInv, IdleNameless
<1>t. \A m \in Service : task'[m] # 0
  <2>1. task[n] + 1 # 0
    BY <1>0
  <2> QED  BY <2>1, <1>0 DEF AddressInv, StartTask, StopTask, CrashTask
<1>2. ASSUME NEW m \in Service \ disturbed'
      PROVE  Followed(m)'
  <2>1. Followed(m) /\ m \notin disturbed
    BY <1>0, <1>2 DEF AddressInv
  <2>w. \A w \in Worker : WorksOn(w, m)' <=> WorksOn(w, m)
    BY <1>0 DEF WorksOn
  <2>2. CASE m # n
    <3>1. Same(m)
      BY <2>2, <1>0 DEF StartTask, StopTask, CrashTask, Same
    <3> QED  BY <3>1, <2>1, <1>0, FollowedStays
  <2>3. CASE m = n /\ StopTask(n)
    <3>1. UNCHANGED <<exists, task, known, worker, taken>> /\ n \notin exists /\ up' = up \ {n}
      BY <2>3, <1>0 DEF StopTask
    <3>2. Settled(m) => Settled(m)'
      BY <2>3, <3>1 DEF Settled
    <3>3. ASSUME NEW w \in Worker, Stage(w, m)
          PROVE  Stage(w, m)'
      <4>1. RestartStage(w, m) => RestartStage(w, m)'
        BY <2>3, <3>1, <3>2 DEF RestartStage
      <4>2. RemoveStage(w, m) => RemoveStage(w, m)'
        BY <2>3, <3>1, <3>2 DEF RemoveStage, AddressRead
      <4> QED  BY <4>1, <4>2, <3>1, <3>2, <3>3 DEF Stage
    <3> QED  BY <2>1, <2>w, <3>1, <3>2, <3>3 DEF Followed, Busy
  <2>4. CASE m = n /\ StartTask(n)
    <3>1. /\ UNCHANGED <<exists, known, worker, taken>> /\ n \in exists /\ n \notin up
      BY <2>4, <1>0 DEF StartTask
    <3>2. ~Settled(m)
      BY <2>4, <3>1 DEF Settled
    <3>3. ASSUME NEW w \in Worker, Stage(w, m), WorksOn(w, m)
          PROVE  Stage(w, m)'
      <4>1. RestartStage(w, m) => RestartStage(w, m)'
        BY <2>4, <3>1, <3>2 DEF RestartStage
      <4>2. RemoveStage(w, m) => RemoveStage(w, m)'
        BY <2>4, <3>1, <3>2 DEF RemoveStage
      <4> QED  BY <4>1, <4>2, <3>1, <3>2, <3>3 DEF Stage
    <3> QED  BY <2>1, <2>w, <2>4, <3>1, <3>2, <3>3 DEF Followed, Busy
  <2>5. CASE m = n /\ CrashTask(n)
    BY <2>5, <1>2 DEF CrashTask
  <2> QED  BY <2>2, <2>3, <2>4, <2>5
<1> QED  BY <1>1, <1>t, <1>2 DEF AddressInv

\* A command or the detector starts to work on a service.
LEMMA AddressStart ==
  ASSUME Typed, Typed', AddressInv, NEW w \in Worker, NEW n \in Service,
         NEW l \in {"list", "find"}, worker' = Works(w, Working(l, n)),
         worker[w].pc \notin RestartPC \cup UninstallPC,
         disturbed' = IF Busy(n) THEN disturbed \cup {n} ELSE disturbed,
         UNCHANGED <<swarm, known, taken>>
  PROVE  AddressInv'
<1>1. /\ worker'[w].pc = l /\ worker'[w].name = n /\ worker'[w].victim = Detector
      /\ \A v \in Worker \ {w} : worker'[v] = worker[v]
  BY DEF Typed, TypeOK, Works, Working, NoWork
<1>2. /\ worker[w].name = Detector /\ l \in RestartPC \cup UninstallPC
      /\ worker[w].victim = Detector
  BY DEF AddressInv, IdleNameless, RestartPC, UninstallPC
<1>3. Elsewhere(n) /\ UNCHANGED <<exists, up, task>>
  BY DEF Elsewhere, Same, swarm
<1>4. n \notin disturbed' =>
        ~Busy(n) /\ Followed(n) /\ Settled(n)' /\ (n \in exists' => n \notin taken')
  BY DEF AddressInv, Followed, Settled, swarm
<1>5. n \notin disturbed' => Stage(w, n)'
  <2>1. n # Detector
    BY WorkersAssumption
  <2> QED  BY <2>1, <1>1, <1>4 DEF Stage, RestartStage
<1>6. n \notin disturbed' => Followed(n)'
  BY <1>1, <1>4, <1>5, FollowStart
<1>7. disturbed \subseteq disturbed'
  OBVIOUS
<1> QED  BY <1>1, <1>2, <1>3, <1>6, <1>7, FollowOne

\* Every step.
LEMMA AddressNext ==
  ASSUME Typed, AddressInv, [Next]_vars
  PROVE  AddressInv'
<1>0. Typed' /\ Detector \in Worker /\ TypeOK
  BY TypedNext DEF Worker, Typed
<1>1. CASE UNCHANGED <<swarm, worker, known, taken, disturbed>>
  <2>1. IdleNameless' /\ \A n \in Service : task'[n] # 0
    BY <1>1 DEF AddressInv, IdleNameless, swarm
  <2>2. ASSUME NEW n \in Service \ disturbed'
        PROVE  Followed(n)'
    <3>1. Followed(n) /\ Same(n) /\ worker' = worker
      BY <1>1, <2>2 DEF AddressInv, Same, swarm
    <3> QED  BY <3>1, FollowedStays
  <2> QED  BY <2>1, <2>2 DEF AddressInv
<1>2. CASE Watch
  <2>1. /\ At(Detector, "off") /\ Goto(Detector, "select")
        /\ UNCHANGED <<exists, up, task, known, taken, disturbed>>
    BY <1>2 DEF Watch, swarm, history
  <2>2. /\ worker'[Detector].name = worker[Detector].name
        /\ worker'[Detector].victim = worker[Detector].victim
        /\ \A v \in Worker \ {Detector} : worker'[v] = worker[v]
    BY <2>1, <1>0 DEF TypeOK, Goto, WorkerRecord
  <2>3. worker[Detector].name = Detector /\ worker[Detector].victim = Detector
    BY <2>1, <1>0 DEF AddressInv, IdleNameless, At, RestartPC, UninstallPC
  <2>4. IdleNameless' /\ \A n \in Service : task'[n] # 0
    BY <2>1, <2>2, <2>3 DEF AddressInv, IdleNameless
  <2>5. ASSUME NEW n \in Service \ disturbed'
        PROVE  Followed(n)'
    <3>1. \A v \in Worker :
            \/ worker'[v] = worker[v]
            \/ /\ n \notin {worker[v].name, worker[v].victim}
               /\ n \notin {worker'[v].name, worker'[v].victim}
      BY <2>2, <2>3, WorkersAssumption
    <3>2. Followed(n) /\ Same(n)
      BY <2>1 DEF AddressInv, Same
    <3> QED  BY <3>1, <3>2, FollowedStays
  <2> QED  BY <2>4, <2>5 DEF AddressInv
<1>3. CASE Detect
  <2>1. CASE UNCHANGED <<worker, disturbed>>
    BY <1>1, <1>3, <2>1 DEF Detect, NoteUninstall, NoteRestart, EndOfRestart, EndOfUninstall,
                            EndOfCrash, history
  <2>2. CASE EndOfCrash /\ ~UNCHANGED <<worker, disturbed>>
    <3>1. PICK n \in Service : n = Head(events).name
      <4>1. events # <<>> /\ events \in Seq(Event)
        BY <2>2, <1>0 DEF EndOfCrash, NextIs, TypeOK
      <4>2. Head(events) \in Event
        BY <4>1
      <4> QED  BY <4>2 DEF Event
    <3>2. /\ worker' = Works(Detector, Working("list", n)) /\ At(Detector, "select")
          /\ disturbed' = IF Busy(n) THEN disturbed \cup {n} ELSE disturbed
          /\ UNCHANGED <<swarm, known, taken>>
      BY <2>2, <3>1 DEF EndOfCrash, NextIs
    <3>3. worker[Detector].pc \notin RestartPC \cup UninstallPC
      BY <3>2 DEF At, RestartPC, UninstallPC
    <3> QED  BY <3>2, <3>3, <1>0, AddressStart
  <2> QED  BY <2>1, <2>2, <1>3 DEF Detect, NoteUninstall, NoteRestart, EndOfRestart,
                                   EndOfUninstall, history
<1>4. ASSUME NEW r \in Request, NEW n \in Service, Command(r, n)
      PROVE  AddressInv'
  <2>1. PICK l \in {"list", "find"} : worker' = Works(r, Working(l, n))
    BY <1>4 DEF Command
  <2>2. r \in Worker /\ worker[r].pc \notin RestartPC \cup UninstallPC
    BY <1>4 DEF Command, Worker, At, RestartPC, UninstallPC
  <2>3. /\ UNCHANGED <<swarm, known, taken>>
        /\ disturbed' = IF Busy(n) THEN disturbed \cup {n} ELSE disturbed
    BY <1>4 DEF Command
  <2> QED  BY <2>1, <2>2, <2>3, <1>0, AddressStart
<1> QED  BY <1>1, <1>2, <1>3, <1>4, AddressSwarm, AddressRestart, AddressUninstall
         DEF Next, vars, history

\* When its restart or uninstall is done the core-network knows the address of
\* each service that runs, and of none that is gone but for the stores and what
\* an uninstall of another name took, whatever the interleaving of commands with
\* the detector: of every service that no crash, timeout, failing call or second
\* goroutine has disturbed.
THEOREM DetectorAddressKnown == Spec => []AddressKnown
<1>1. Init => Typed /\ AddressInv
  <2> SUFFICES ASSUME Init
               PROVE  Typed /\ AddressInv
    OBVIOUS
  <2>1. \A w \in Worker : worker[w].name = Detector /\ worker[w].victim = Detector
    BY DEF Init, NoWork
  <2>2. /\ exists = Service /\ up = Service /\ taken = {}
        /\ \A n \in Service : task[n] = 1 /\ known[n] = 1
    BY DEF Init
  <2>3. ASSUME NEW n \in Service
        PROVE  Followed(n)
    <3>1. \A w \in Worker : ~WorksOn(w, n)
      BY <2>1, WorkersAssumption DEF WorksOn
    <3>2. Settled(n)
      BY <2>2 DEF Settled
    <3> QED  BY <3>1, <3>2, <2>2 DEF Followed
  <2>4. AddressInv
    BY <2>1, <2>2, <2>3 DEF AddressInv, IdleNameless
  <2> QED  BY <2>4, TypedInit
<1>2. Typed /\ AddressInv /\ [Next]_vars => (Typed /\ AddressInv)'
  BY TypedNext, AddressNext
<1>3. AddressInv => AddressKnown
  BY DEF AddressInv, Followed, Settled, AddressKnown
<1> QED  BY <1>1, <1>2, <1>3, PTL DEF Spec

=============================================================================
