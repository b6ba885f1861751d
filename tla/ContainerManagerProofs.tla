----------------------- MODULE ContainerManagerProofs -----------------------
(***************************************************************************)
(* Calls, monitors and restarts keep the type of the manager's state, and  *)
(* no report brings back a health record, for any number of callers,       *)
(* containers, faults and crashes.                                         *)
(***************************************************************************)
EXTENDS ContainerManager, TLAPS

Healths == {"absent", "unchecked", "healthy", "unhealthy"}

Phases == {"none", "asleep", "answered", "failed", "healthy", "unhealthy"}

\* A call in progress is about a container.
LEMMA CallsHaveIds ==
  ASSUME Typed, NEW t \in Callers, call[t].pc # "idle"
  PROVE  call[t] \in Call /\ call[t].id \in Ids
BY DEF Typed, Call, NoCall

\* Faults and crashes stay within their bounds.
LEMMA FaultsCounted ==
  ASSUME ManagerAssumption, Typed, Fault \/ UNCHANGED faults
  PROVE  faults' \in 0 .. MaxFaults
BY DEF ManagerAssumption, Typed, Fault

\* The crashes stay within their bound.
LEMMA CrashesCounted ==
  ASSUME ManagerAssumption, Typed, CrashBudget \/ UNCHANGED crashes
  PROVE  crashes' \in 0 .. MaxCrashes
BY DEF ManagerAssumption, Typed, CrashBudget

\* However a call goes on or returns, it remains one.
LEMMA ContinueTyped ==
  ASSUME Typed, NEW t \in Callers, call[t].pc # "idle",
         NEW pc \in {"inspect", "register", "track", "deregister", "untrack", "remove"},
         Continue(t, pc)
  PROVE  call' \in [Callers -> {NoCall} \cup Call]
<1>1. call[t] \in Call
  BY CallsHaveIds
<1>2. [call[t] EXCEPT !.pc = pc] \in Call
  BY <1>1 DEF Call
<1> QED
  BY <1>2 DEF Continue, Typed

\* A call that returns leaves well-formed calls.
LEMMA ReturnTyped ==
  ASSUME Typed, NEW t \in Callers, Return(t)
  PROVE  call' \in [Callers -> {NoCall} \cup Call]
BY DEF Typed, Return

\* A process that starts with an empty memory has well-formed records.
LEMMA MemoryTyped ==
  ASSUME LoseMemory
  PROVE  /\ tracker' \in [Ids -> Healths]
         /\ monitor' \in [Ids -> Phases]
         /\ call' \in [Callers -> {NoCall} \cup Call]
BY DEF LoseMemory, Healths, Phases

-----------------------------------------------------------------------------
\* The steps keep the type: of a start, of a stop, of a monitor, of a restart.
LEMMA StartTyped ==
  ASSUME ManagerAssumption, Typed, NEW t \in Callers, CreateContainer(t) \/ StartStep(t)
  PROVE  Typed'
<1>0. MaxContainers \in Nat /\ Ids = 1 .. MaxContainers
  BY DEF ManagerAssumption, Ids
<1>1. CASE CreateContainer(t)
  <2>1. faults' \in 0 .. MaxFaults
    BY <1>1, FaultsCounted DEF CreateContainer
  <2>2. CASE /\ created < MaxContainers /\ created' = created + 1
             /\ docker' = [docker EXCEPT ![created + 1] = "created"]
             /\ call' = [call EXCEPT ![t] = [pc |-> "start", id |-> created + 1, named |-> FALSE]]
    <3>1. created + 1 \in Ids /\ created' \in 0 .. MaxContainers
      BY <1>0, <2>2 DEF Typed
    <3>2. [pc |-> "start", id |-> created + 1, named |-> FALSE] \in Call
      BY <3>1 DEF Call
    <3>3. call' \in [Callers -> {NoCall} \cup Call]
      BY <2>2, <3>2 DEF Typed
    <3> QED
      BY <1>1, <2>1, <2>2, <3>1, <3>3 DEF CreateContainer, Typed
  <2>3. CASE UNCHANGED <<created, docker, call>>
    BY <1>1, <2>1, <2>3 DEF CreateContainer, Typed
  <2> QED
    BY <1>1, <2>2, <2>3 DEF CreateContainer
<1>2. CASE RunContainer(t)
  <2>1. faults' \in 0 .. MaxFaults
    BY <1>2, FaultsCounted DEF RunContainer
  <2>2. call' \in [Callers -> {NoCall} \cup Call]
    BY <1>2, ContinueTyped, ReturnTyped DEF RunContainer
  <2> QED
    BY <1>2, <2>1, <2>2 DEF RunContainer, Typed
<1>3. CASE InspectPort(t)
  <2>1. faults' \in 0 .. MaxFaults
    BY <1>3, FaultsCounted DEF InspectPort, Inspected
  <2>2. call' \in [Callers -> {NoCall} \cup Call]
    BY <1>3, ContinueTyped, ReturnTyped DEF InspectPort
  <2> QED
    BY <1>3, <2>1, <2>2 DEF InspectPort, Typed
<1>4. CASE InspectPanics(t)
  <2>1. faults' \in 0 .. MaxFaults
    BY <1>4, FaultsCounted DEF InspectPanics, InspectFails
  <2>2. CASE LoseMemory
    BY <1>4, <2>1, <2>2, MemoryTyped DEF InspectPanics, Typed, Healths, Phases
  <2>3. CASE Return(t) /\ UNCHANGED <<tracker, monitor>>
    BY <1>4, <2>1, <2>3, ReturnTyped DEF InspectPanics, Typed
  <2> QED
    BY <1>4, <2>2, <2>3 DEF InspectPanics
<1>5. CASE RegisterInstance(t)
  <2>1. faults' \in 0 .. MaxFaults
    BY <1>5, FaultsCounted DEF RegisterInstance
  <2>2. call' \in [Callers -> {NoCall} \cup Call] /\ call[t].id \in Ids
    BY <1>5, ContinueTyped, CallsHaveIds DEF RegisterInstance
  <2> QED
    BY <1>5, <2>1, <2>2 DEF RegisterInstance, Typed
<1>6. CASE TrackContainer(t)
  <2>1. call' \in [Callers -> {NoCall} \cup Call]
    BY <1>6, ReturnTyped DEF TrackContainer
  <2> QED
    BY <1>6, <2>1 DEF TrackContainer, Typed
<1> QED
  BY <1>1, <1>2, <1>3, <1>4, <1>5, <1>6 DEF StartStep

\* A step of a stop keeps the types.
LEMMA StopTyped ==
  ASSUME ManagerAssumption, Typed, NEW t \in Callers, InspectName(t) \/ StopStep(t)
  PROVE  Typed'
<1>1. CASE InspectName(t)
  <2>1. PICK c \in Ids : \/ Inspected(c) /\ call' = [call EXCEPT ![t] = [pc |-> "stop", id |-> c, named |-> TRUE]]
                         \/ InspectFails(c) /\ call' = [call EXCEPT ![t] = [pc |-> "stop", id |-> c, named |-> FALSE]]
    BY <1>1 DEF InspectName
  <2>2. faults' \in 0 .. MaxFaults
    BY <2>1, FaultsCounted DEF Inspected, InspectFails
  <2>3. \A b \in BOOLEAN : [pc |-> "stop", id |-> c, named |-> b] \in Call
    BY DEF Call
  <2> QED
    BY <1>1, <2>1, <2>2, <2>3 DEF InspectName, Typed
<1>2. CASE DockerStop(t)
  <2>1. faults' \in 0 .. MaxFaults
    BY <1>2, FaultsCounted DEF DockerStop, InspectFails
  <2>2. call' \in [Callers -> {NoCall} \cup Call]
    BY <1>2, ContinueTyped, ReturnTyped DEF DockerStop
  <2> QED
    BY <1>2, <2>1, <2>2 DEF DockerStop, Typed
<1>3. CASE DeregisterInstance(t)
  <2>1. faults' \in 0 .. MaxFaults
    BY <1>3, FaultsCounted DEF DeregisterInstance
  <2>2. call' \in [Callers -> {NoCall} \cup Call]
    BY <1>3, ContinueTyped DEF DeregisterInstance
  <2> QED
    BY <1>3, <2>1, <2>2 DEF DeregisterInstance, Typed
<1>4. CASE UntrackContainer(t)
  <2>1. call' \in [Callers -> {NoCall} \cup Call]
    BY <1>4, ContinueTyped DEF UntrackContainer
  <2> QED
    BY <1>4, <2>1 DEF UntrackContainer, Typed
<1>5. CASE RemoveContainer(t)
  <2>1. faults' \in 0 .. MaxFaults
    BY <1>5, FaultsCounted DEF RemoveContainer, InspectFails
  <2>2. call' \in [Callers -> {NoCall} \cup Call]
    BY <1>5, ReturnTyped DEF RemoveContainer
  <2> QED
    BY <1>5, <2>1, <2>2 DEF RemoveContainer, Typed
<1> QED
  BY <1>1, <1>2, <1>3, <1>4, <1>5 DEF StopStep

\* So does a step of a monitor, or the end of a container.
LEMMA MonitorTyped ==
  ASSUME ManagerAssumption, Typed, NEW c \in Ids, Monitor(c) \/ ContainerExits(c)
  PROVE  Typed'
<1>1. faults' \in 0 .. MaxFaults
  <2>1. Fault \/ UNCHANGED faults
    BY DEF Monitor, Probe, ConfirmExists, EndMonitor, Report, ContainerExits, Inspected, InspectFails
  <2> QED
    BY <2>1, FaultsCounted
<1>2. CASE Probe(c)
  BY <1>1, <1>2 DEF Probe, Typed
<1>3. CASE ConfirmExists(c)
  BY <1>1, <1>3 DEF ConfirmExists, Typed
<1>4. CASE EndMonitor(c)
  BY <1>1, <1>4 DEF EndMonitor, Typed
<1>5. CASE Report(c)
  BY <1>1, <1>5 DEF Report, Typed
<1>6. CASE ContainerExits(c)
  BY <1>1, <1>6 DEF ContainerExits, Typed
<1> QED
  BY <1>2, <1>3, <1>4, <1>5, <1>6 DEF Monitor

\* So does the end of either process.
LEMMA RestartTyped ==
  ASSUME ManagerAssumption, Typed, OrchestratorRestarts \/ RegistryRestarts
  PROVE  Typed'
<1>1. crashes' \in 0 .. MaxCrashes
  BY CrashesCounted DEF OrchestratorRestarts, RegistryRestarts
<1>2. CASE OrchestratorRestarts
  BY <1>1, <1>2, MemoryTyped DEF OrchestratorRestarts, Typed, Healths, Phases
<1>3. CASE RegistryRestarts
  BY <1>1, <1>3 DEF RegistryRestarts, Typed
<1> QED
  BY <1>2, <1>3

\* The sorts of the variables alone are inductive.
LEMMA TypedStep == ManagerAssumption /\ Typed /\ [Next]_vars => Typed'
<1> SUFFICES ASSUME ManagerAssumption, Typed, [Next]_vars
             PROVE  Typed'
  OBVIOUS
<1>1. CASE UNCHANGED vars
  BY <1>1 DEF vars, Typed
<1>2. CASE Next
  BY <1>2, StartTyped, StopTyped, MonitorTyped, RestartTyped DEF Next
<1> QED
  BY <1>1, <1>2

-----------------------------------------------------------------------------
\* What is known is what was created, and all else is about what is known.
OfCreated ==
  /\ Known = 1 .. created
  /\ \A t \in Callers : call[t].pc # "idle" => call[t].id \in Known
  /\ registry \subseteq Known
  /\ \A c \in Ids \ Known : tracker[c] = "absent" /\ monitor[c] = "none"

\* The step after which a container is known that was not is ContainerCreate.
LEMMA CreateKnown ==
  ASSUME ManagerAssumption, Typed, OfCreated, NEW t \in Callers, CreateContainer(t)
  PROVE  OfCreated'
<1>0. MaxContainers \in Nat /\ Ids = 1 .. MaxContainers /\ created \in 0 .. MaxContainers
  BY DEF ManagerAssumption, Ids, Typed
<1>1. CASE UNCHANGED <<created, docker, call>>
  BY <1>1 DEF CreateContainer, OfCreated, Known
<1>2. CASE /\ created < MaxContainers /\ created' = created + 1
           /\ docker' = [docker EXCEPT ![created + 1] = "created"]
           /\ call' = [call EXCEPT ![t] = [pc |-> "start", id |-> created + 1, named |-> FALSE]]
  <2>1. created + 1 \in Ids
    BY <1>0, <1>2
  <2>2. Known' = Known \cup {created + 1}
    BY <1>2, <2>1 DEF Known, Typed
  <2>3. Known' = 1 .. created'
    BY <1>0, <1>2, <2>2 DEF OfCreated
  <2>4. \A u \in Callers : call'[u].pc # "idle" => call'[u].id \in Known'
    <3>1. call'[t].id = created + 1 /\ \A u \in Callers : u # t => call'[u] = call[u]
      BY <1>2 DEF Typed
    <3> QED
      BY <2>2, <3>1 DEF OfCreated
  <2>5. UNCHANGED <<registry, tracker, monitor>>
    BY DEF CreateContainer
  <2> QED
    BY <2>2, <2>3, <2>4, <2>5 DEF OfCreated
<1> QED
  BY <1>1, <1>2 DEF CreateContainer

\* A step that creates nothing: no container is forgotten, and what it touches
\* was known.
LEMMA StaysKnown ==
  ASSUME OfCreated, UNCHANGED created, Known' = Known,
         \A t \in Callers : call'[t].pc # "idle" => call'[t].id \in Known,
         registry' \subseteq Known,
         \A c \in Ids \ Known : tracker'[c] = "absent" /\ monitor'[c] = "none"
  PROVE  OfCreated'
BY DEF OfCreated

\* However the call of t goes on or returns, it remains about its container.
LEMMA SameContainer ==
  ASSUME Typed, OfCreated, NEW t \in Callers, call[t].pc # "idle",
         \/ Return(t) \/ LoseMemory
         \/ \E pc \in {"inspect", "register", "track", "deregister", "untrack", "remove"} : Continue(t, pc)
  PROVE  \A u \in Callers : call'[u].pc # "idle" => call'[u].id \in Known
<1>1. CASE LoseMemory
  BY <1>1 DEF LoseMemory, NoCall
<1>2. CASE Return(t)
  BY <1>2 DEF Return, NoCall, Typed, OfCreated
<1>3. ASSUME NEW pc, Continue(t, pc) PROVE \A u \in Callers : call'[u].pc # "idle" => call'[u].id \in Known
  <2>1. call[t] \in Call
    BY CallsHaveIds
  <2>2. call'[t].id = call[t].id
    BY <1>3, <2>1 DEF Continue, Typed, Call
  <2>3. \A u \in Callers : u # t => call'[u] = call[u]
    BY <1>3 DEF Continue, Typed
  <2> QED
    BY <2>2, <2>3 DEF OfCreated
<1> QED
  BY <1>1, <1>2, <1>3

\* The other steps of a start.
LEMMA StartKnown ==
  ASSUME ManagerAssumption, Typed, OfCreated, NEW t \in Callers, StartStep(t)
  PROVE  OfCreated'
<1>1. call[t].pc # "idle" /\ UNCHANGED created
  BY DEF StartStep, RunContainer, InspectPort, InspectPanics, RegisterInstance, TrackContainer
<1>2. call[t].id \in Known /\ call[t].id \in Ids
  BY <1>1, CallsHaveIds DEF OfCreated
<1>3. \A u \in Callers : call'[u].pc # "idle" => call'[u].id \in Known
  BY <1>1, SameContainer
  DEF StartStep, RunContainer, InspectPort, InspectPanics, RegisterInstance, TrackContainer
<1>4. Known' = Known
  BY <1>2
  DEF StartStep, RunContainer, InspectPort, InspectPanics, RegisterInstance, TrackContainer, Known, Typed
<1>5. registry' \subseteq Known
  BY <1>2
  DEF StartStep, RunContainer, InspectPort, InspectPanics, RegisterInstance, TrackContainer, OfCreated
<1>6. ASSUME NEW c \in Ids \ Known PROVE tracker'[c] = "absent" /\ monitor'[c] = "none"
  BY <1>2, <1>6
  DEF StartStep, RunContainer, InspectPort, InspectPanics, LoseMemory, RegisterInstance, TrackContainer,
      OfCreated, Typed
<1> QED
  BY <1>1, <1>3, <1>4, <1>5, <1>6, StaysKnown

\* A stop is of a container that was listed.
LEMMA StopKnown ==
  ASSUME ManagerAssumption, Typed, OfCreated, NEW t \in Callers, InspectName(t) \/ StopStep(t)
  PROVE  OfCreated'
<1>1. CASE InspectName(t)
  <2>1. PICK c \in Ids :
          /\ docker[c] \in {"running", "exited", "removed"}
          /\ \E b \in BOOLEAN : call' = [call EXCEPT ![t] = [pc |-> "stop", id |-> c, named |-> b]]
    BY <1>1 DEF InspectName
  <2>2. c \in Known
    BY <2>1 DEF Known
  <2>3. \A u \in Callers : call'[u].pc # "idle" => call'[u].id \in Known
    BY <2>1, <2>2 DEF Typed, OfCreated
  <2>4. UNCHANGED <<docker, created, registry, tracker, monitor>>
    BY <1>1 DEF InspectName
  <2> QED
    BY <2>3, <2>4 DEF OfCreated, Known
<1>2. CASE StopStep(t)
  <2>1. call[t].pc # "idle" /\ UNCHANGED created
    BY <1>2 DEF StopStep, DockerStop, DeregisterInstance, UntrackContainer, RemoveContainer
  <2>2. call[t].id \in Known /\ call[t].id \in Ids
    BY <2>1, CallsHaveIds DEF OfCreated
  <2>3. \A u \in Callers : call'[u].pc # "idle" => call'[u].id \in Known
    BY <1>2, <2>1, SameContainer
    DEF StopStep, DockerStop, DeregisterInstance, UntrackContainer, RemoveContainer
  <2>4. Known' = Known
    BY <1>2, <2>2
    DEF StopStep, DockerStop, DeregisterInstance, UntrackContainer, RemoveContainer, Known, Typed
  <2>5. registry' \subseteq Known
    BY <1>2 DEF StopStep, DockerStop, DeregisterInstance, UntrackContainer, RemoveContainer, OfCreated
  <2>6. ASSUME NEW c \in Ids \ Known PROVE tracker'[c] = "absent" /\ monitor'[c] = "none"
    BY <1>2, <2>6
    DEF StopStep, DockerStop, DeregisterInstance, UntrackContainer, RemoveContainer, OfCreated, Typed
  <2> QED
    BY <2>1, <2>3, <2>4, <2>5, <2>6, StaysKnown
<1> QED
  BY <1>1, <1>2

\* A monitor is of a container that was created.
LEMMA MonitorKnown ==
  ASSUME ManagerAssumption, Typed, OfCreated, NEW c \in Ids, Monitor(c) \/ ContainerExits(c)
  PROVE  OfCreated'
<1>1. UNCHANGED <<created, registry, call>>
  BY DEF Monitor, Probe, ConfirmExists, EndMonitor, Report, ContainerExits
<1>2. Known' = Known
  BY DEF Monitor, Probe, ConfirmExists, EndMonitor, Report, ContainerExits, Known, Typed
<1>3. ASSUME NEW d \in Ids \ Known PROVE tracker'[d] = "absent" /\ monitor'[d] = "none"
  <2>1. tracker[d] = "absent" /\ monitor[d] = "none"
    BY <1>3 DEF OfCreated
  <2> QED
    BY <2>1 DEF Monitor, Probe, ConfirmExists, EndMonitor, Report, ContainerExits, Typed
<1> QED
  BY <1>1, <1>2, <1>3, StaysKnown DEF OfCreated

\* A restart forgets calls and records, or registrations.
LEMMA RestartKnown ==
  ASSUME OfCreated, OrchestratorRestarts \/ RegistryRestarts
  PROVE  OfCreated'
BY DEF OrchestratorRestarts, RegistryRestarts, LoseMemory, NoCall, OfCreated, Known

\* In every behaviour a call goes on with the id of a container that was created,
\* and only such a container is registered, tracked and monitored, also after
\* calls that failed, panics and restarts.
THEOREM ManagerTypeCorrect == Spec => []TypeOK
<1> DEFINE Inv == Typed /\ OfCreated
<1>1. Init => Inv
  <2> SUFFICES ASSUME Init PROVE Inv
    OBVIOUS
  <2>1. Typed
    BY ManagerAssumption DEF Init, Typed, ManagerAssumption, NoCall
  <2>2. Known = {} /\ 1 .. created = {}
    BY DEF Init, Known
  <2>3. OfCreated
    BY <2>2 DEF Init, OfCreated, NoCall
  <2> QED
    BY <2>1, <2>3
<1>2. Inv /\ [Next]_vars => Inv'
  <2> SUFFICES ASSUME Typed, OfCreated, [Next]_vars PROVE Typed' /\ OfCreated'
    OBVIOUS
  <2>1. CASE UNCHANGED vars
    BY <2>1 DEF vars, OfCreated, Known, Typed
  <2>2. CASE Next
    BY <2>2, ManagerAssumption, TypedStep, CreateKnown, StartKnown, StopKnown, MonitorKnown,
       RestartKnown
    DEF Next
  <2> QED
    BY <2>1, <2>2
<1>3. Inv => TypeOK
  BY DEF TypeOK, OfCreated
<1> QED
  BY <1>1, <1>2, <1>3, PTL DEF Spec

-----------------------------------------------------------------------------
\* The callers that are about to track container c.
AboutToTrack(c) == \E t \in Callers : call[t].pc = "track" /\ call[t].id = c

\* Reports of a container that is not tracked change nothing.
LEMMA MonitorsDoNotTrack ==
  ASSUME Typed, NEW d \in Ids, Monitor(d), NEW c \in Ids, tracker[c] = "absent"
  PROVE  tracker'[c] = "absent"
<1>1. CASE Probe(d) \/ ConfirmExists(d)
  BY <1>1 DEF Probe, ConfirmExists
<1>2. CASE EndMonitor(d)
  BY <1>2 DEF EndMonitor, Typed
<1>3. CASE Report(d)
  BY <1>3 DEF Report, Typed
<1> QED
  BY <1>1, <1>2, <1>3 DEF Monitor

\* Of the steps of a call, TrackContainer alone makes a record.
LEMMA OnlyStartsTrack ==
  ASSUME Typed, NEW t \in Callers,
         CreateContainer(t) \/ StartStep(t) \/ InspectName(t) \/ StopStep(t),
         NEW c \in Ids, tracker[c] = "absent", tracker'[c] # "absent"
  PROVE  AboutToTrack(c)
<1>1. CASE TrackContainer(t)
  BY <1>1 DEF TrackContainer, Typed, AboutToTrack
<1>2. CASE InspectPanics(t)
  BY <1>2 DEF InspectPanics, LoseMemory
<1>3. CASE UntrackContainer(t)
  BY <1>3 DEF UntrackContainer, Typed
<1>4. CASE CreateContainer(t) \/ RunContainer(t) \/ InspectPort(t) \/ RegisterInstance(t)
  BY <1>4 DEF CreateContainer, RunContainer, InspectPort, RegisterInstance
<1>5. CASE InspectName(t) \/ DockerStop(t) \/ DeregisterInstance(t) \/ RemoveContainer(t)
  BY <1>5 DEF InspectName, DockerStop, DeregisterInstance, RemoveContainer
<1> QED
  BY <1>1, <1>2, <1>3, <1>4, <1>5 DEF StartStep, StopStep

\* Only a start that is about to track the container makes a record for it.
LEMMA TrackStep ==
  ASSUME Typed, [Next]_vars, NEW c \in Ids, tracker[c] = "absent", tracker'[c] # "absent"
  PROVE  AboutToTrack(c)
<1>1. CASE UNCHANGED vars
  BY <1>1 DEF vars
<1>2. ASSUME NEW d \in Ids, Monitor(d) \/ ContainerExits(d)
      PROVE  FALSE
  BY <1>2, MonitorsDoNotTrack DEF ContainerExits
<1>3. CASE OrchestratorRestarts \/ RegistryRestarts
  BY <1>3 DEF OrchestratorRestarts, RegistryRestarts, LoseMemory
<1>4. ASSUME NEW t \in Callers, CreateContainer(t) \/ StartStep(t) \/ InspectName(t) \/ StopStep(t)
      PROVE  AboutToTrack(c)
  BY <1>4, OnlyStartsTrack
<1> QED
  BY <1>1, <1>2, <1>3, <1>4 DEF Next

\* Whatever is under way when a container is stopped, its health record does not
\* come back without a start.
THEOREM LateReportsDropped == Spec => LateReportsAreDropped
<1>1. Typed /\ [Next]_vars =>
        [\A c \in Ids : (tracker[c] = "absent" /\ tracker'[c] # "absent")
            => \E t \in Callers : call[t].pc = "track" /\ call[t].id = c]_vars
  BY TrackStep DEF AboutToTrack
<1>2. TypeOK => Typed
  BY DEF TypeOK
<1> QED
  BY <1>1, <1>2, ManagerTypeCorrect, PTL DEF Spec, LateReportsAreDropped
=============================================================================
