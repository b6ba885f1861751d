------------------------------ MODULE Deployer ------------------------------
(***************************************************************************)
(* The reconciliation of desired state with running containers             *)
(* (internal/orchestrator/deployer.go).                                    *)
(*                                                                         *)
(* reconcileAll is called by the background loop and, through              *)
(* ReconcileNow, by every API handler that changed the desired state.  No  *)
(* lock covers a pass, so the passes of different callers interleave       *)
(* between any two calls to the store, to Docker and to the tracker.  A    *)
(* caller keeps in pass[t] what the Go stack frame of its pass keeps: the  *)
(* copies of the specs it listed, and the container ids it sorted into     *)
(* outdated, unhealthy and available.                                      *)
(*                                                                         *)
(* Container ids are numbered in the order of ContainerCreate.  Docker     *)
(* lists the newest container first, so outdated[0] is the largest id in   *)
(* the set and available[len(available)-1] the smallest.  A container is   *)
(* listed from ContainerStart on, which another goroutine may reach first  *)
(* for a younger one.  Stopping a container is a single step.              *)
(*                                                                         *)
(* The module defines the state and the steps.  ControlPlane has the       *)
(* goroutines that take them, and the specification.                       *)
(***************************************************************************)
EXTENDS ServiceSpecs, FiniteSets

CONSTANTS
  Callers,        \* the goroutines that call reconcileAll
  Loop,           \* the one started by DeploymentController.Start
  Claims,         \* Claims[s]: services whose container names match s
  InitialSpecs,   \* the specs services.json may hold at boot
  Operations,     \* the kinds of change clients make
  ReplicaChoices, \* the replica counts a client may ask for
  GenerationChoices, \* the generations an update may carry, 0 when it has none
  MaxContainers,  \* bound: containers created in a behaviour
  MaxRequests,    \* bound: requests to change the desired state
  MaxFaults       \* bound: failing calls, exits, failed probes, lost records

ASSUME DeployerAssumption ==
  /\ Loop \in Callers
  /\ Claims \in [Services -> SUBSET Services]
  /\ \A s \in Services : s \in Claims[s]
  /\ InitialSpecs \subseteq ValidSpec
  /\ Operations \subseteq {"update", "scale", "restart", "delete"}
  /\ ReplicaChoices \subseteq Int
  /\ GenerationChoices \subseteq {g \in Int : g <= MaxGeneration}
  /\ MaxContainers \in Nat
  /\ MaxRequests \in Nat
  /\ MaxFaults \in Nat

VARIABLES
  services,    \* ServiceStore.services
  containers,  \* Docker: id -> labels and state of the container
  created,     \* the number of containers created so far
  tracker,     \* health.Tracker.reports: id -> last known health
  pass,        \* caller -> locals of its reconcileAll
  requests,    \* requests to change the desired state so far
  faults       \* faults so far

vars == <<services, containers, created, tracker, pass, requests, faults>>

Ids == 1 .. MaxContainers

NoContainer == [service |-> 0, image |-> NoImage, generation |-> 0, state |-> "none"]

IdlePass ==
  [pc |-> "idle", todo |-> {}, specs |-> [s \in Services |-> NoSpec], service |-> 0,
   outdated |-> {}, seen |-> {}, unhealthy |-> {}, available |-> {}, missing |-> 0,
   starting |-> 0]

Health == {"absent", "unchecked", "healthy", "unhealthy"}

-----------------------------------------------------------------------------
(***************************************************************************)
(* Docker, as seen through ContainerManager.                               *)
(***************************************************************************)
Running == {c \in Ids : containers[c].state = "running"}

\* matchesServiceContainerName over the list of running containers.
Matching(s) == {c \in Running : containers[c].service \in Claims[s]}

Fault == faults < MaxFaults /\ faults' = faults + 1

\* ContainerCreate: the container exists and is not listed yet.
CreateContainer(s, spec) ==
  /\ created < MaxContainers
  /\ created' = created + 1
  /\ containers' = [containers EXCEPT ![created + 1] =
        [service |-> s, image |-> spec.image, generation |-> spec.generation,
         state |-> "created"]]
  /\ UNCHANGED <<tracker, faults>>

\* Nothing was created.  Every ContainerCreate fails once the bound is reached.
CreateFails ==
  /\ Fault \/ (created = MaxContainers /\ UNCHANGED faults)
  /\ UNCHANGED <<containers, created, tracker>>

\* ContainerStart: the container runs and is listed.
StartContainer(c) ==
  /\ containers[c].state = "created"
  /\ containers' = [containers EXCEPT ![c].state = "running"]
  /\ UNCHANGED <<created, tracker, faults>>

\* ContainerStart returned an error: the container that was created stays.
StartFails == Fault /\ UNCHANGED <<containers, created, tracker>>

\* The inspections found the host port, and the container is tracked from now
\* on, even if it was stopped since.
TrackContainer(c) ==
  /\ tracker' = [tracker EXCEPT ![c] = "unchecked"]
  /\ UNCHANGED <<containers, created, faults>>

\* They found no port, which is a fault while the container runs: StartContainer
\* returns its id, and nobody monitors it.
PortNotFound(c) ==
  /\ IF containers[c].state = "running" THEN Fault ELSE UNCHANGED faults
  /\ UNCHANGED <<containers, created, tracker>>

\* StopContainer returned nil: the container is gone, and so is its report.
StopContainer(c) ==
  /\ containers[c].state # "none"
  /\ containers' = [containers EXCEPT ![c] = NoContainer]
  /\ tracker' = [tracker EXCEPT ![c] = "absent"]
  /\ UNCHANGED <<created, faults>>

\* StopContainer returned an error: the container no longer exists, or the
\* stop failed, or it stopped and its removal failed.
StopFails(c) ==
  /\ UNCHANGED created
  /\ \/ /\ containers[c].state = "none"
        /\ UNCHANGED <<containers, tracker, faults>>
     \/ /\ containers[c].state # "none"
        /\ Fault
        /\ UNCHANGED <<containers, tracker>>
     \/ /\ containers[c].state # "none"
        /\ Fault
        /\ containers' = [containers EXCEPT ![c].state = "exited"]
        /\ tracker' = [tracker EXCEPT ![c] = "absent"]

-----------------------------------------------------------------------------
(***************************************************************************)
(* One pass of reconcileAll by caller t.                                   *)
(***************************************************************************)
SpecOf(p) == p.specs[p.service]

\* The frame of reconcileService is gone, the loop of reconcileAll goes on.
Advance(p) ==
  IF p.todo = {} THEN IdlePass
  ELSE [IdlePass EXCEPT !.pc = "next", !.todo = p.todo, !.specs = p.specs]

\* When every replica of the list was looked at, those missing are counted.
Counted(p) ==
  IF p.seen # {} THEN p
  ELSE [p EXCEPT !.pc = "act", !.missing = SpecOf(p).replicas - Cardinality(p.available)]

\* specs := d.store.List()
BeginPass(t) ==
  /\ pass[t].pc = "idle"
  /\ pass' = [pass EXCEPT ![t] =
        Advance([IdlePass EXCEPT !.specs = services,
                                 !.todo = {s \in Services : Found(services, s)}])]
  /\ UNCHANGED <<services, containers, created, tracker, requests, faults>>

\* ListRunningContainers for the next service in name order; the labels and
\* names are read from this snapshot.
ListRunningContainers(t) ==
  LET p == pass[t] IN
  /\ p.pc = "next"
  /\ \E s \in p.todo :
       LET old == {c \in Matching(s) : containers[c].generation # p.specs[s].generation}
       IN /\ \A o \in p.todo : s <= o
          /\ pass' = [pass EXCEPT ![t] =
                Counted([p EXCEPT !.pc = "classify", !.service = s, !.todo = p.todo \ {s},
                                  !.outdated = old, !.seen = Matching(s) \ old])]
  /\ UNCHANGED <<services, containers, created, tracker, requests, faults>>

\* The list call failed: reconcileService returns at once.
ListFails(t) ==
  LET p == pass[t] IN
  /\ p.pc = "next"
  /\ Fault
  /\ \E s \in p.todo :
       /\ \A o \in p.todo : s <= o
       /\ pass' = [pass EXCEPT ![t] = Advance([p EXCEPT !.todo = p.todo \ {s}])]
  /\ UNCHANGED <<services, containers, created, tracker, requests>>

\* Mutation: reports are ignored, every current replica counts as available.
ReadHealthBlind(t) ==
  LET p == pass[t] IN
  /\ p.pc = "classify"
  /\ \E c \in p.seen :
       /\ \A d \in p.seen : d <= c
       /\ pass' = [pass EXCEPT ![t] =
             Counted([p EXCEPT !.seen = p.seen \ {c}, !.available = p.available \cup {c}])]
  /\ UNCHANGED <<services, containers, created, tracker, requests, faults>>

\* Mutation: a replica without a check does not count yet.
ReadHealthChecked(t) ==
  LET p == pass[t] IN
  /\ p.pc = "classify"
  /\ \E c \in p.seen :
       LET q == [p EXCEPT !.seen = p.seen \ {c}] IN
       /\ \A d \in p.seen : d <= c
       /\ pass' = [pass EXCEPT ![t] = Counted(
             CASE tracker[c] = "unhealthy" -> [q EXCEPT !.unhealthy = p.unhealthy \cup {c}]
               [] tracker[c] = "healthy"   -> [q EXCEPT !.available = p.available \cup {c}]
               [] OTHER                    -> q)]
  /\ UNCHANGED <<services, containers, created, tracker, requests, faults>>

\* tracker.Get for the next current-generation container of the list.
ReadHealth(t) ==
  LET p == pass[t] IN
  /\ p.pc = "classify"
  /\ \E c \in p.seen :
       LET q == [p EXCEPT !.seen = p.seen \ {c}] IN
       /\ \A d \in p.seen : d <= c
       /\ pass' = [pass EXCEPT ![t] = Counted(
             IF tracker[c] = "unhealthy"
             THEN [q EXCEPT !.unhealthy = p.unhealthy \cup {c}]
             ELSE [q EXCEPT !.available = p.available \cup {c}])]
  /\ UNCHANGED <<services, containers, created, tracker, requests, faults>>

\* The replacement loop: one unhealthy replica is stopped, or fails to stop.
ReplaceUnhealthy(t) ==
  LET p == pass[t] IN
  /\ p.pc = "act"
  /\ \E c \in p.unhealthy :
       /\ \A d \in p.unhealthy : d <= c
       /\ StopContainer(c) \/ StopFails(c)
       /\ pass' = [pass EXCEPT ![t] = [p EXCEPT !.unhealthy = p.unhealthy \ {c}]]
  /\ UNCHANGED <<services, requests>>

\* StartContainer returned: a rollout returns too, otherwise the loop that
\* starts missing replicas goes on.  A failed start is not retried in this pass.
AfterStart(p) ==
  IF p.outdated # {} THEN Advance(p)
  ELSE [p EXCEPT !.pc = "act", !.missing = p.missing - 1, !.starting = 0]

\* A replica is missing, in a rollout or out of it: StartContainer begins.
CreateReplica(t) ==
  LET p == pass[t] IN
  /\ p.pc = "act" /\ p.unhealthy = {} /\ p.missing > 0
  /\ \/ /\ CreateContainer(p.service, SpecOf(p))
        /\ pass' = [pass EXCEPT ![t] = [p EXCEPT !.pc = "start", !.starting = created + 1]]
     \/ /\ CreateFails
        /\ pass' = [pass EXCEPT ![t] = AfterStart(p)]
  /\ UNCHANGED <<services, requests>>

\* ContainerStart.
StartReplica(t) ==
  LET p == pass[t] IN
  /\ p.pc = "start"
  /\ \/ /\ StartContainer(p.starting)
        /\ pass' = [pass EXCEPT ![t] = [p EXCEPT !.pc = "track"]]
     \/ /\ StartFails
        /\ pass' = [pass EXCEPT ![t] = AfterStart(p)]
  /\ UNCHANGED <<services, requests>>

\* The port is looked up, the container registered and tracked.
TrackReplica(t) ==
  LET p == pass[t] IN
  /\ p.pc = "track"
  /\ TrackContainer(p.starting) \/ PortNotFound(p.starting)
  /\ pass' = [pass EXCEPT ![t] = AfterStart(p)]
  /\ UNCHANGED <<services, requests>>

\* Every inspection failed, of a container that is gone or by a fault: the lookup
\* of the port panics, and gin recovers the handler without the rest of its pass.
\* The same panic of the loop ends the process (Crash in ControlPlane).
TrackPanics(t) ==
  /\ t # Loop
  /\ pass[t].pc = "track"
  /\ IF containers[pass[t].starting].state = "none" THEN UNCHANGED faults ELSE Fault
  /\ pass' = [pass EXCEPT ![t] = IdlePass]
  /\ UNCHANGED <<services, containers, created, tracker, requests>>

\* Mutation: one replica of the new generation fewer is enough.
RolloutStopEarly(t) ==
  LET p == pass[t] IN
  /\ p.pc = "act" /\ p.unhealthy = {} /\ p.outdated # {}
  /\ p.missing <= 1
  /\ \E c \in p.outdated :
       /\ \A d \in p.outdated : d <= c
       /\ StopContainer(c) \/ StopFails(c)
  /\ pass' = [pass EXCEPT ![t] = Advance(p)]
  /\ UNCHANGED <<services, requests>>

\* The rollout has them all: stop outdated[0] and return.
RolloutStop(t) ==
  LET p == pass[t] IN
  /\ p.pc = "act" /\ p.unhealthy = {} /\ p.outdated # {}
  /\ p.missing <= 0
  /\ \E c \in p.outdated :
       /\ \A d \in p.outdated : d <= c
       /\ StopContainer(c) \/ StopFails(c)
  /\ pass' = [pass EXCEPT ![t] = Advance(p)]
  /\ UNCHANGED <<services, requests>>

\* Mutation: the loop goes on to the next replica until enough were stopped.
ScaleDownNext(t) ==
  LET p == pass[t] IN
  /\ p.pc = "act" /\ p.unhealthy = {} /\ p.outdated = {}
  /\ p.missing < 0
  /\ \E c \in p.available :
       /\ \A d \in p.available : c <= d
       /\ \/ /\ StopContainer(c)
             /\ pass' = [pass EXCEPT ![t] =
                   [p EXCEPT !.missing = p.missing + 1, !.available = p.available \ {c}]]
          \/ /\ StopFails(c)
             /\ pass' = [pass EXCEPT ![t] = [p EXCEPT !.available = p.available \ {c}]]
  /\ UNCHANGED <<services, requests>>

\* One turn of the loop that stops surplus replicas, oldest first; after a
\* failed stop the next turn tries the same replica again.
ScaleDown(t) ==
  LET p == pass[t] IN
  /\ p.pc = "act" /\ p.unhealthy = {} /\ p.outdated = {}
  /\ p.missing < 0
  /\ \E c \in p.available :
       /\ \A d \in p.available : c <= d
       /\ \/ /\ StopContainer(c)
             /\ pass' = [pass EXCEPT ![t] =
                   [p EXCEPT !.missing = p.missing + 1, !.available = p.available \ {c}]]
          \/ /\ StopFails(c)
             /\ pass' = [pass EXCEPT ![t] = [p EXCEPT !.missing = p.missing + 1]]
  /\ UNCHANGED <<services, requests>>

\* reconcileService returns.
EndService(t) ==
  LET p == pass[t] IN
  /\ p.pc = "act" /\ p.unhealthy = {} /\ p.outdated = {}
  /\ p.missing = 0
  /\ pass' = [pass EXCEPT ![t] = Advance(p)]
  /\ UNCHANGED <<services, containers, created, tracker, requests, faults>>

PassStep(t) ==
  \/ ListRunningContainers(t)
  \/ ListFails(t)
  \/ ReadHealth(t)
  \/ ReplaceUnhealthy(t)
  \/ CreateReplica(t)
  \/ StartReplica(t)
  \/ TrackReplica(t)
  \/ TrackPanics(t)
  \/ RolloutStop(t)
  \/ ScaleDown(t)
  \/ EndService(t)

-----------------------------------------------------------------------------
(***************************************************************************)
(* The environment: health monitors, and containers that start or stop on  *)
(* their own.                                                              *)
(***************************************************************************)
\* The monitor of a tracked container reports a probe.
ReportHealthy(c) ==
  /\ containers[c].state = "running"
  /\ tracker[c] \in {"unchecked", "unhealthy"}
  /\ tracker' = [tracker EXCEPT ![c] = "healthy"]
  /\ UNCHANGED <<services, containers, created, pass, requests, faults>>

ReportUnhealthy(c) ==
  /\ containers[c].state # "none"
  /\ tracker[c] \in {"unchecked", "healthy"}
  /\ tracker' = [tracker EXCEPT ![c] = "unhealthy"]
  /\ Fault
  /\ UNCHANGED <<services, containers, created, pass, requests>>

\* The monitor finds its container gone, or takes an inspection that failed for
\* that, which is a fault: it drops the record and ends.
MonitorEnds(c) ==
  /\ tracker[c] # "absent"
  /\ tracker' = [tracker EXCEPT ![c] = "absent"]
  /\ IF containers[c].state = "none" THEN UNCHANGED faults ELSE Fault
  /\ UNCHANGED <<services, containers, created, pass, requests>>

\* Docker performs a ContainerStart that nobody waits for any more: the process
\* that asked for it died, or was told that it failed.
StartsLate(c) ==
  /\ containers[c].state = "created"
  /\ \A t \in Callers : pass[t].starting # c
  /\ containers' = [containers EXCEPT ![c].state = "running"]
  /\ Fault
  /\ UNCHANGED <<services, created, tracker, pass, requests>>

\* The main process of a container ends.
ContainerExits(c) ==
  /\ containers[c].state = "running"
  /\ containers' = [containers EXCEPT ![c].state = "exited"]
  /\ Fault
  /\ UNCHANGED <<services, created, tracker, pass, requests>>

-----------------------------------------------------------------------------
Init ==
  /\ services \in [Services -> InitialSpecs \cup {NoSpec}]
  /\ containers = [c \in Ids |-> NoContainer]
  /\ created = 0
  /\ tracker = [c \in Ids |-> "absent"]
  /\ pass = [t \in Callers |-> IdlePass]
  /\ requests = 0
  /\ faults = 0

-----------------------------------------------------------------------------
(***************************************************************************)
(* Properties.                                                             *)
(***************************************************************************)
Container ==
  [service : Services, image : Images, generation : 1 .. MaxGeneration,
   state : {"created", "running", "exited"}]

Pass ==
  [pc : {"idle", "next", "classify", "act", "start", "track"}, todo : SUBSET Services,
   specs : Store, service : Services \cup {0}, outdated : SUBSET Ids, seen : SUBSET Ids,
   unhealthy : SUBSET Ids, available : SUBSET Ids, missing : Int,
   starting : Ids \cup {0}]

\* The type of the state.
TypeOK ==
  /\ services \in Store
  /\ containers \in [Ids -> Container \cup {NoContainer}]
  /\ created \in 0 .. MaxContainers
  /\ tracker \in [Ids -> Health]
  /\ pass \in [Callers -> Pass]
  /\ requests \in 0 .. MaxRequests
  /\ faults \in 0 .. MaxFaults

Existing == {c \in Ids : containers[c].state # "none"}

\* What makes it inductive: a pass works on services it found, and on a container
\* it created while it starts one.
WorksOnSpecs(p) ==
  /\ \A s \in p.todo : Found(p.specs, s)
  /\ p.pc \in {"classify", "act", "start", "track"} =>
       p.service \in Services /\ Found(p.specs, p.service)
  /\ p.pc \in {"start", "track"} => p.starting \in Ids

PassesWorkOnSpecs == \A t \in Callers : WorksOnSpecs(pass[t])

\* The containers in cs, running or exited, of the generation that pass p is
\* rolling out.
OfRollout(cs, p) ==
  {c \in Ids : /\ cs[c].state \in {"running", "exited"}
               /\ cs[c].service \in Claims[p.service]
               /\ cs[c].generation = SpecOf(p).generation}

\* Service s runs what is desired: the wanted number of replicas of its own, of
\* the wanted generation, none of them reported unhealthy.
Settled(s) ==
  LET mine == {c \in Running : containers[c].service = s} IN
  /\ Cardinality(mine) = services[s].replicas
  /\ \A c \in mine : /\ containers[c].generation = services[s].generation
                     /\ tracker[c] # "unhealthy"
=============================================================================
