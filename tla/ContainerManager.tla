-------------------------- MODULE ContainerManager --------------------------
(***************************************************************************)
(* The life of a container: manager.ContainerManager with the Docker       *)
(* daemon, the service registry and health.Tracker it keeps in step        *)
(* (internal/manager/manager.go, internal/health/tracker.go).              *)
(*                                                                         *)
(* StartContainer and StopContainer are sequences of calls to other        *)
(* processes.  The reconciliation loop and the API handlers make them      *)
(* concurrently, and a container can be listed, and so stopped, as soon as *)
(* it runs.  One monitor goroutine per started container probes it, then   *)
(* asks Docker whether it still exists, then reports.                      *)
(*                                                                         *)
(* All containers are of one service: instances are registered and         *)
(* deregistered by the service name their container name carries and by    *)
(* their id, and ids are never reused.  A call of the registry succeeds or *)
(* fails at once here; Discovery has requests that are served late.        *)
(***************************************************************************)
EXTENDS Integers

CONSTANTS
  Callers,        \* the goroutines that start and stop containers
  Loop,           \* the one of the reconciliation loop; the others serve requests
  MaxContainers,  \* bound: containers created
  MaxFaults,      \* bound: failing calls and probes, exits of containers
  MaxCrashes      \* bound: crashes of the orchestrator and of the registry

ASSUME ManagerAssumption ==
  Loop \in Callers /\ MaxContainers \in Nat /\ MaxFaults \in Nat /\ MaxCrashes \in Nat

VARIABLES
  docker,    \* Docker: id -> state of the container
  created,   \* the number of containers created
  registry,  \* the registry: the registered ids
  tracker,   \* health.Tracker: id -> last known health
  monitor,   \* id -> what its monitor goroutine is at
  call,      \* caller -> its StartContainer or StopContainer in progress
  faults, crashes

vars == <<docker, created, registry, tracker, monitor, call, faults, crashes>>

Ids == 1 .. MaxContainers

NoCall == [pc |-> "idle", id |-> 0, named |-> FALSE]

Exists(c) == docker[c] \in {"created", "running", "exited"}

Fault == faults < MaxFaults /\ faults' = faults + 1

\* Docker answers an inspection of c without, or with, an error.
Inspected(c) == Exists(c) /\ UNCHANGED faults

InspectFails(c) == (~Exists(c) /\ UNCHANGED faults) \/ (Exists(c) /\ Fault)

\* The call of t goes on at pc, or returns.
Continue(t, pc) == call' = [call EXCEPT ![t] = [call[t] EXCEPT !.pc = pc]]

Return(t) == call' = [call EXCEPT ![t] = NoCall]

-----------------------------------------------------------------------------
(***************************************************************************)
(* StartContainer.                                                         *)
(***************************************************************************)
\* Mutation: the error of ContainerCreate is not looked at.
CreateUnchecked(t) ==
  /\ call[t].pc = "idle"
  /\ \/ /\ created < MaxContainers
        /\ created' = created + 1
        /\ docker' = [docker EXCEPT ![created + 1] = "created"]
        /\ call' = [call EXCEPT ![t] = [pc |-> "start", id |-> created + 1, named |-> FALSE]]
        /\ UNCHANGED faults
     \/ /\ Fault
        /\ call' = [call EXCEPT ![t] = [pc |-> "start", id |-> 0, named |-> FALSE]]
        /\ UNCHANGED <<created, docker>>
  /\ UNCHANGED <<registry, tracker, monitor, crashes>>

\* The image is pulled and the container created, or one of the two fails, as it
\* always does once the bound on containers is reached.
CreateContainer(t) ==
  /\ call[t].pc = "idle"
  /\ \/ /\ created < MaxContainers
        /\ created' = created + 1
        /\ docker' = [docker EXCEPT ![created + 1] = "created"]
        /\ call' = [call EXCEPT ![t] = [pc |-> "start", id |-> created + 1, named |-> FALSE]]
        /\ UNCHANGED faults
     \/ Fault /\ UNCHANGED <<created, docker, call>>
     \/ created = MaxContainers /\ UNCHANGED <<created, docker, call, faults>>
  /\ UNCHANGED <<registry, tracker, monitor, crashes>>

\* ContainerStart; when it fails the created container is left behind.
RunContainer(t) ==
  LET c == call[t].id IN
  /\ call[t].pc = "start"
  /\ \/ docker' = [docker EXCEPT ![c] = "running"] /\ Continue(t, "inspect") /\ UNCHANGED faults
     \/ Fault /\ Return(t) /\ UNCHANGED docker
  /\ UNCHANGED <<created, registry, tracker, monitor, crashes>>

\* The last of up to five inspections.  A running container has a host port,
\* or not in time; without one StartContainer returns the id at once.
InspectPort(t) ==
  LET c == call[t].id IN
  /\ call[t].pc = "inspect"
  /\ \/ docker[c] = "running" /\ Continue(t, "register") /\ Inspected(c)
     \/ docker[c] = "running" /\ Return(t) /\ Fault
     \/ docker[c] = "exited" /\ Return(t) /\ Inspected(c)
  /\ UNCHANGED <<docker, created, registry, tracker, monitor, crashes>>

\* The process is gone, and with it the tracker and all goroutines.
LoseMemory ==
  /\ tracker' = [c \in Ids |-> "absent"]
  /\ monitor' = [c \in Ids |-> "none"]
  /\ call' = [t \in Callers |-> NoCall]

\* The last inspection failed: inspection.NetworkSettings is nil and the
\* goroutine panics.  The web framework recovers from that in a handler; in the
\* reconciliation loop it ends the process, which is then started again.
InspectPanics(t) ==
  /\ call[t].pc = "inspect"
  /\ InspectFails(call[t].id)
  /\ \/ t = Loop /\ LoseMemory
     \/ t # Loop /\ Return(t) /\ UNCHANGED <<tracker, monitor>>
  /\ UNCHANGED <<docker, created, registry, crashes>>

\* registry.Register; a failure is logged only.
RegisterInstance(t) ==
  /\ call[t].pc = "register"
  /\ \/ registry' = registry \cup {call[t].id} /\ UNCHANGED faults
     \/ Fault /\ UNCHANGED registry
  /\ Continue(t, "track")
  /\ UNCHANGED <<docker, created, tracker, monitor, crashes>>

\* tracker.Register and StartHealthMonitor.
TrackContainer(t) ==
  LET c == call[t].id IN
  /\ call[t].pc = "track"
  /\ tracker' = [tracker EXCEPT ![c] = "unchecked"]
  /\ monitor' = [monitor EXCEPT ![c] = "asleep"]
  /\ Return(t)
  /\ UNCHANGED <<docker, created, registry, faults, crashes>>

-----------------------------------------------------------------------------
(***************************************************************************)
(* StopContainer.                                                          *)
(***************************************************************************)
\* StopContainer of a container that was running when the caller listed it.
\* Its name is known only if the inspection succeeds.
InspectName(t) ==
  /\ call[t].pc = "idle"
  /\ \E c \in Ids :
       /\ docker[c] \in {"running", "exited", "removed"}
       /\ \/ /\ Inspected(c)
             /\ call' = [call EXCEPT ![t] = [pc |-> "stop", id |-> c, named |-> TRUE]]
          \/ /\ InspectFails(c)
             /\ call' = [call EXCEPT ![t] = [pc |-> "stop", id |-> c, named |-> FALSE]]
  /\ UNCHANGED <<docker, created, registry, tracker, monitor, crashes>>

\* ContainerStop; an error ends the call, except for a container that is not
\* running any more.
DockerStop(t) ==
  LET c == call[t].id IN
  /\ call[t].pc = "stop"
  /\ \/ /\ Exists(c)
        /\ docker' = [docker EXCEPT ![c] = "exited"]
        /\ Continue(t, "deregister")
        /\ UNCHANGED faults
     \/ InspectFails(c) /\ Return(t) /\ UNCHANGED docker
  /\ UNCHANGED <<created, registry, tracker, monitor, crashes>>

\* registry.Deregister, when the name is known; a failure is logged only.
DeregisterInstance(t) ==
  /\ call[t].pc = "deregister"
  /\ \/ /\ registry' = IF call[t].named THEN registry \ {call[t].id} ELSE registry
        /\ UNCHANGED faults
     \/ call[t].named /\ Fault /\ UNCHANGED registry
  /\ Continue(t, "untrack")
  /\ UNCHANGED <<docker, created, tracker, monitor, crashes>>

\* tracker.Remove
UntrackContainer(t) ==
  /\ call[t].pc = "untrack"
  /\ tracker' = [tracker EXCEPT ![call[t].id] = "absent"]
  /\ Continue(t, "remove")
  /\ UNCHANGED <<docker, created, registry, monitor, faults, crashes>>

\* ContainerRemove, which may fail; it does for a container already removed.
RemoveContainer(t) ==
  LET c == call[t].id IN
  /\ call[t].pc = "remove"
  /\ \/ Exists(c) /\ docker' = [docker EXCEPT ![c] = "removed"] /\ UNCHANGED faults
     \/ InspectFails(c) /\ UNCHANGED docker
  /\ Return(t)
  /\ UNCHANGED <<created, registry, tracker, monitor, crashes>>

-----------------------------------------------------------------------------
(***************************************************************************)
(* The monitor goroutine of container c.                                   *)
(***************************************************************************)
\* http.Get: a container that does not run cannot answer, but one started later
\* may have its port by now.
Probe(c) ==
  /\ monitor[c] = "asleep"
  /\ \/ docker[c] = "running" /\ monitor' = [monitor EXCEPT ![c] = "answered"] /\ UNCHANGED faults
     \/ docker[c] = "running" /\ monitor' = [monitor EXCEPT ![c] = "failed"] /\ Fault
     \/ docker[c] # "running" /\ monitor' = [monitor EXCEPT ![c] = "failed"] /\ UNCHANGED faults
     \/ /\ docker[c] # "running" /\ \E d \in Ids : d > c /\ docker[d] = "running"
        /\ monitor' = [monitor EXCEPT ![c] = "answered"]
        /\ UNCHANGED faults
  /\ UNCHANGED <<docker, created, registry, tracker, call, crashes>>

\* The inspection before the report: the container exists.
ConfirmExists(c) ==
  /\ monitor[c] \in {"answered", "failed"}
  /\ Inspected(c)
  /\ monitor' = [monitor EXCEPT ![c] = IF @ = "answered" THEN "healthy" ELSE "unhealthy"]
  /\ UNCHANGED <<docker, created, registry, tracker, call, crashes>>

\* Mutation: the monitor of a removed container just ends.
EndMonitorOnly(c) ==
  /\ monitor[c] \in {"answered", "failed"}
  /\ InspectFails(c)
  /\ monitor' = [monitor EXCEPT ![c] = "none"]
  /\ UNCHANGED <<docker, created, registry, tracker, call, crashes>>

\* Any error of that inspection counts as a removed container: the report is
\* dropped and the monitor ends.
EndMonitor(c) ==
  /\ monitor[c] \in {"answered", "failed"}
  /\ InspectFails(c)
  /\ monitor' = [monitor EXCEPT ![c] = "none"]
  /\ tracker' = [tracker EXCEPT ![c] = "absent"]
  /\ UNCHANGED <<docker, created, registry, call, crashes>>

\* Mutation: a report of an untracked container starts tracking it again.
ReportAnyway(c) ==
  /\ monitor[c] \in {"healthy", "unhealthy"}
  /\ tracker' = [tracker EXCEPT ![c] = monitor[c]]
  /\ monitor' = [monitor EXCEPT ![c] = "asleep"]
  /\ UNCHANGED <<docker, created, registry, call, faults, crashes>>

\* tracker.ReportHealthy or ReportUnhealthy
Report(c) ==
  /\ monitor[c] \in {"healthy", "unhealthy"}
  /\ tracker' = [tracker EXCEPT ![c] = IF @ = "absent" THEN @ ELSE monitor[c]]
  /\ monitor' = [monitor EXCEPT ![c] = "asleep"]
  /\ UNCHANGED <<docker, created, registry, call, faults, crashes>>

Monitor(c) == Probe(c) \/ ConfirmExists(c) \/ EndMonitor(c) \/ Report(c)

-----------------------------------------------------------------------------
(***************************************************************************)
(* The environment.                                                        *)
(***************************************************************************)
ContainerExits(c) ==
  /\ docker[c] = "running"
  /\ docker' = [docker EXCEPT ![c] = "exited"]
  /\ Fault
  /\ UNCHANGED <<created, registry, tracker, monitor, call, crashes>>

CrashBudget == crashes < MaxCrashes /\ crashes' = crashes + 1

\* The orchestrator restarts with an empty tracker; containers and registry
\* live on.
OrchestratorRestarts ==
  /\ CrashBudget
  /\ LoseMemory
  /\ UNCHANGED <<docker, created, registry, faults>>

\* The registry restarts empty.
RegistryRestarts ==
  /\ CrashBudget
  /\ registry' = {}
  /\ UNCHANGED <<docker, created, tracker, monitor, call, faults>>

-----------------------------------------------------------------------------
StartStep(t) ==
  \/ RunContainer(t) \/ InspectPort(t) \/ InspectPanics(t)
  \/ RegisterInstance(t) \/ TrackContainer(t)

StopStep(t) ==
  \/ DockerStop(t) \/ DeregisterInstance(t) \/ UntrackContainer(t) \/ RemoveContainer(t)

Init ==
  /\ docker = [c \in Ids |-> "none"]
  /\ created = 0
  /\ registry = {}
  /\ tracker = [c \in Ids |-> "absent"]
  /\ monitor = [c \in Ids |-> "none"]
  /\ call = [t \in Callers |-> NoCall]
  /\ faults = 0 /\ crashes = 0

Next ==
  \/ \E t \in Callers : CreateContainer(t) \/ StartStep(t) \/ InspectName(t) \/ StopStep(t)
  \/ \E c \in Ids : Monitor(c) \/ ContainerExits(c)
  \/ OrchestratorRestarts
  \/ RegistryRestarts

Spec == Init /\ [][Next]_vars

\* A call that began goes on, and so does a monitor: its probe returns, since
\* the port is local and refuses connections once the container is gone.
FairSpec ==
  /\ Spec
  /\ \A t \in Callers : WF_vars(StartStep(t) \/ StopStep(t))
  /\ \A c \in Ids : WF_vars(Monitor(c))

-----------------------------------------------------------------------------
(***************************************************************************)
(* Properties.                                                             *)
(***************************************************************************)
Call ==
  [pc : {"start", "inspect", "register", "track", "stop", "deregister", "untrack", "remove"},
   id : Ids, named : BOOLEAN]

Typed ==
  /\ docker \in [Ids -> {"none", "created", "running", "exited", "removed"}]
  /\ created \in 0 .. MaxContainers
  /\ registry \subseteq Ids
  /\ tracker \in [Ids -> {"absent", "unchecked", "healthy", "unhealthy"}]
  /\ monitor \in [Ids -> {"none", "asleep", "answered", "failed", "healthy", "unhealthy"}]
  /\ call \in [Callers -> {NoCall} \cup Call]
  /\ faults \in 0 .. MaxFaults
  /\ crashes \in 0 .. MaxCrashes

\* The containers that were created so far.
Known == {c \in Ids : docker[c] # "none"}

\* The type of the state.  Above all, a call only goes on with the id of a
\* container that was created, and only such ids are registered, tracked and
\* monitored (manager.go:105-112, 163-189).
TypeOK ==
  /\ Typed
  /\ Known = 1 .. created
  /\ \A t \in Callers : call[t].pc # "idle" => call[t].id \in Known
  /\ registry \subseteq Known
  /\ \A c \in Ids \ Known : tracker[c] = "absent" /\ monitor[c] = "none"

\* A report that is under way while its container is stopped and untracked does
\* not bring the health record back: only StartContainer starts tracking
\* (tracker.go:56-59 and 73-76).
LateReportsAreDropped ==
  [][\A c \in Ids : (tracker[c] = "absent" /\ tracker'[c] # "absent")
       => \E t \in Callers : call[t].pc = "track" /\ call[t].id = c]_vars

\* A health record does not outlive its container for ever, even when a start
\* records it after a concurrent stop removed the container: the monitor drops
\* it (manager.go:316-328).
StaleReportsExpire ==
  <>[](\A c \in Ids : docker[c] = "removed" => tracker[c] = "absent")

\* Starting a container survives inspections that fail ("Retry ContainerInspect
\* to give Docker time to assign ports", manager.go:123).
NoPanic == [][\A t \in Callers : ~InspectPanics(t)]_vars
=============================================================================
