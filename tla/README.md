# Verification of the container orchestrator

TLA+ specifications of the single-node container orchestrator in `src/`, TLC
configurations that check them on small instances, and TLAPS proofs of what
matters most for every instance.

    cd tla
    tlc -workers 2 -config ControlPlane.cfg MCControlPlane.tla     # one run
    tlapm DiscoveryProofs.tla                                      # one proof module

`PROJECT.json` lists the runs, the mutant of each property, and for every
definition the source lines it models.

## 1. The system

Three servers and a command line client, written in Go.

| part | source | state it keeps | operations |
|---|---|---|---|
| service specs, store | `internal/domain`, `internal/state/store.go` | name -> image, replicas, generation; a read-write lock | Upsert, Scale, RequestRestart, Delete, Get, List |
| persistence | `internal/state/persistence.go` | `data/services.json` | SaveToFile, LoadFromFile |
| reconciliation controller | `internal/orchestrator/deployer.go` | none that it reads (the map `running` is only written) | Start (a loop, every 10 s), ReconcileNow |
| container manager | `internal/manager/manager.go` | none of its own; one monitor goroutine per started container | StartContainer, StopContainer, lists, monitors, logs |
| health tracker | `internal/health/tracker.go` | container id -> last report | Register, ReportHealthy, ReportUnhealthy, Get, Remove |
| registry server | `cmd/registry` | service -> instance id -> address | register, deregister, lookup |
| load balancer | `cmd/loadbalancer` | a round-robin counter per service | proxy |
| API and wiring | `cmd/orchestrator/main.go` | none | boot; create/update, scale, restart, delete, status, events, logs |
| status builder | `internal/status` | none | status of services from store, Docker and tracker |
| event recorder | `internal/events` | the last 200 events | Add, List |
| CLI, dashboard | `cmd/cli`, `dashboard` | none | requests to the API |
| Docker (external) | Docker API | containers, their state, labels, names | list, create, start, inspect, stop, remove |

A client changes the desired state through an API handler. The handler changes
the store, saves the whole store to the file, and, if that succeeded, runs one
reconciliation pass itself (`ReconcileNow`) before it answers. The background
loop runs passes all the time. A pass lists the specs once, and for every
service lists the running containers, sorts them into outdated, unhealthy and
available, and starts or stops containers through the manager, which keeps
registry and tracker in step with Docker. Monitors probe containers and report
to the tracker, which the next pass reads.

What is hard here:

- No lock covers a pass. Loop and handlers interleave between any two calls,
  and every decision of a pass rests on copies that are several calls old.
- Every call to Docker or the registry may fail, and the code logs, retries in
  a later pass, or returns in the middle.
- Tracker, monitors, registry and round-robin counters are in memory only;
  containers and the file outlive the processes.
- The file is rewritten in place by whichever handler saves.

What makes the parts correct:

- *Store*: it only ever holds valid specs; generations do not overflow.
- *Persistence*: an acknowledged change is in the file and stays there; a
  restart restores the desired state; a delete is final.
- *Controller*: services converge to the desired replicas and generation; a
  rollout keeps the service at strength; passes do not together start or stop
  too much; no container has a generation that its service has not reached.
- *Manager, tracker, registry*: what runs is registered and what was stopped is
  not; a removed container is forgotten, whatever order calls and reports come
  in.
- *Load balancer*: an index within bounds, indices in turn, no request to a
  backend that was deregistered before.
- *Status*: a steady service is shown healthy; a sick replica or a lasting lack
  of replicas is not overlooked.
- *Recorder*: the newest events, in order, up to the bound.

The hazards behind these are listed line by line in `PROJECT.json`.

## 2. The modules

    ServiceSpecs                 operators: specs and store operations
      |- Deployer                state and steps: reconciliation passes, Docker, tracker
      |    |- ControlPlane       the process: loop, handlers, saves, crashes, boots
      |         |                (with ServiceStatus); the specification
      |         |- ControlPlaneHistory    + history variables and their properties
      |         |    |- RolloutProofs
      |         |- Observation   + status requests, event history   (with EventRecorder)
      |         |    |- ObservationProofs
      |         |- DeployerProofs, ControlPlaneProofs
      |- ServiceStore            handlers, saves, crashes, boot, call by call
      |    |- ServiceStoreProofs
      |- ServiceSpecsProofs      lemmas about the store operations
    ServiceStatus                operator: what a status says
    EventRecorder                the bounded history
    ContainerManager             start, stop, monitors call by call
      |- ContainerManagerProofs
    Directory                    abstract: the registry as a set of entries
      |- Registry                the map of maps; implements Directory
           |- Discovery          + manager's calls, load balancer, network
                |- DiscoveryProofs
    MC*                          instances for TLC

**ServiceSpecs** has `Normalize`, `Validate`, `Upsert`, `Scale`,
`RequestRestart` and `Delete` as operators from one content of the store to the
next. Each Go method runs under the write lock, so the state machines use an
operator as one step. A name is a number (only equality and sort order matter),
an image a model value, and `MaxGeneration` stands for the largest int64, at
which `Increment` wraps as Go does.

**Deployer** gives each goroutine that runs `reconcileAll` a record `pass[t]`
with the locals of its stack frame. Its actions are the calls and branches of
`reconcileService`: `ListRunningContainers` (and `ListFails`), `ReadHealth`
(one `tracker.Get` for one replica), `ReplaceUnhealthy`, `CreateReplica`,
`StartReplica`, `TrackReplica`, `RolloutStop`, `ScaleDown`, `EndService`.
Docker is a function from ids to labels and state. Ids are given out in the
order of ContainerCreate; a list is newest first, as Docker's is, which decides
which replica `outdated[0]` and `available[len-1]` are. A container is listed
from ContainerStart on, which is a step of its own: another goroutine may start
a younger container first. `TrackReplica` stands for the inspections, the
registration and the health record; it may find no port (`PortNotFound`, nobody
monitors the container), and when no inspection succeeds the goroutine panics
(`TrackPanics`; in a handler that ends the request, in the loop the process, which is the
`Crash` of ControlPlane). A stop is one step that may fail in the ways the
manager's call can. `Claims` says which services' containers a service matches
by name prefix. The environment reports probes, ends monitors (`MonitorEnds`: also of a
live container, when a passing error of the inspection is taken for its end),
ends containers, and performs starts that nobody waits for any more
(`StartsLate`). Deployer has no specification of its own: what its goroutines
do between passes is ControlPlane.

**ControlPlane** is the process. The loop makes one pass after the other. A
handler is followed by `handler[t]` from the change of the store through the
save (`Save`, `SaveFails`) and, for a delete, the list of the containers and
one stop after the other (`ListVictims`, `StopVictim`) to its one pass
(`ReconcileNow`): a request whose save failed has none, and no pass of a handler
comes without a request. `saved` is what the file held when it was last written
completely. A save that nothing interrupts is one step; one that fails, or that
a crash cuts short, may leave a torn file, until a later save mends it. `Crash`
takes the tracker, all passes and all requests with it; containers stay. Then
the process boots from `saved` (`Restart`), or finds a torn file and cannot come
up any more (`BootFails`, `up`). A call to Docker that was under way at the
crash was performed before it (the crash follows the step), or never (it
precedes the step), or is performed when the next process is up (`StartsLate`;
`ContainerExits` for a stop). A replica that outlived a restart has no monitor
and so never gets a health record again (`ReportHealthy` needs one).

**ControlPlaneHistory** adds three history variables, since some promises hold
of a service or a pass to which certain things did not happen: `rewound`, the
services whose generation was taken back (by a delete, by a boot from a file
that was behind, by a client that names one); `overlapped`, the callers whose
pass ran at the same time as another pass or a delete's stops; `disordered`, the
services of which a container began to run after a younger one.

**Observation** composes ControlPlane with one `GET /api/services/:name`. The
status builder reads the spec, lists the containers, and asks the tracker for
one container after the other; passes, requests, monitors, faults and a crash go
on between these reads. **ServiceStatus** is `buildServiceStatus` as an operator
on what was read. **EventRecorder** is the slice with append and trim, and
`Page`, what a page of the history should be, which does not mention the slice.

**ServiceStore** models the handlers up to their save. `BeginSave` takes the
read lock, copies the map and truncates the file; `EndSave` writes the copy.
While a save is under way writers wait (`Unlocked`), other saves do not.
`FailSave` leaves whatever is in the file. `Boot` is `LoadFromFile` with its
filter of invalid specs; a torn file makes `main` give up.

**ContainerManager** breaks `StartContainer`, `StopContainer` and the monitor
into their calls. One record per caller holds what its call in progress knows
(the id, and whether the name could be read). A panic in a handler goroutine
is recovered by the web framework; in the loop it ends the process. A probe of a
stopped container may be answered by a later one that was given its port.

**Directory** says what clients of the registry may rely on: a set of entries,
at most one for each instance of a service, and the answer of each request.
**Registry** has the map of maps of `cmd/registry`, with buckets made on the
first registration and deleted with the last instance. Its refinement mapping
takes `entries` to all pairs in all buckets (`Entries`); `ImplementsDirectory`
is the abstract specification under it.

**Discovery** puts around Registry the two that talk to it. A call of the
registry client is a message in `net`, which the registry serves at some
moment, and an answer in `call[t]`. When the connection breaks (`CallFails`)
the caller has an error and its message is lost, or served later all the same,
perhaps after a later one. A start registers its container some time after it
runs (`RegisterInstance`), or returns without (`NoPortFound`); a stop may come
in between. A stop whose inspection failed does not deregister (`StopUnnamed`),
one that Docker refuses does nothing, and the removal after a deregistration may fail. A
container that ends on its own (`ContainerExits`) is not listed any more, so
only a caller that listed it before may still stop it. Each handler of the load
balancer looks up, selects under the lock, and proxies; the counter belongs to
the service, the list to the handler. Both servers may be killed and started
again. Two history variables name the exceptions of `RegistryInStep`: `missed`,
instances that may run without an entry, and `leftover`, instances that may keep
one although they were stopped.

How the parts meet:

| boundary | seen from above | seen in detail |
|---|---|---|
| store operations | one step in ControlPlane and ServiceStore | operators of ServiceSpecs |
| save to the file | one step of ControlPlane, with what failures and crashes leave | ServiceStore |
| start of a container | creation, start, and the rest, three steps of Deployer | ContainerManager |
| stop of a container | one step of Deployer, with its failures | ContainerManager |
| registration | one step of ContainerManager | Discovery |
| requests of the registry | one step of Directory | Registry |

## 3. What the runs check

Passing runs:

| run | question | bounds |
|---|---|---|
| Generations | `TypeOK`, `NoReplicaFromTheFuture`: does a stale pass ever label a container with a generation ahead of the store, other than after the generation was taken back; do rejected requests, overflow of the generation included, reach the store. `RolloutKeepsCapacity`: is an outdated replica only removed at full strength of the new generation. `LonePassKeepsServiceUp`: does a pass stop the last running replica. The last two of passes that overlap with no other | loop and 1 handler, 1 service of 1 replica that was restarted before (generation 2) and may be asked to have 2 or, rejected, 0 replicas, 2 requests of any kind, generation 2 or none named by clients, 3 containers, 1 fault, 1 crash, `MaxGeneration` 3 |
| ScaleDown | `ScaleDownKeepsReplicas`: do passes with different lists and different counts together stop too much. `DeleteStopsWhatItListed`: does a delete get rid of the containers it listed, although passes stop the same ones | loop and 1 handler, 1 service of 3 replicas, 2 requests (scale to 1 or 2, delete), 3 containers, 1 fault |
| ControlPlane | `Convergence`, `StatusSettles`: after any request, fault and restart, does every service reach its replicas, generation and health, and does its status say so. `OvershootIsBounded`: how many replicas can overlapping passes start | loop and 1 handler, 1 service of 1 or 2 replicas, 1 request of any kind, 7 containers, 1 fault, 1 crash |
| Observation | `SteadyIsHealthy`, `SickIsNoticed`, `ShortIsNoticed`: what may a status say that was read at several moments. `HistoryIsRecent`: pages of the history | loop, 1 handler and 1 status request, 1 service of 2 replicas, 1 request (scale to 1), 2 containers, 1 fault, 1 crash; 2 events, 1 kept |
| Discovery | `ImplementsDirectory`, `RegistryTypeOK`; `RegistryInStep`: what does the registry hold at rest. `GoneIsNotRouted`: can a late message or an old list bring back a deregistered instance. `EveryIndexInTurn`: does the rotation skip | 2 callers of the manager, 1 load balancer handler, 1 service, 2 instances, 2 broken connections or restarts |
| ManagerRaces | `TypeOK`, `LateReportsAreDropped`: does a late report revive a removed record. `StaleReportsExpire`: does a record of a removed container go away | 2 callers, 2 containers, 1 fault, 1 crash |
| StoreDurable | `TypeOK`, `AcknowledgedIsDurable`, `RestartIsInvisible` | 2 handlers, 2 services, 3 changes, 1 failure, 2 crashes, boots from a missing, a good and partly invalid files |

Runs that refute a statement of the documentation or a comment (the quotes are
in `PROJECT.json`, "findings"):

| run | what TLC finds |
|---|---|
| Orphans | A pass that listed the specs before a delete starts a replica after the delete listed the others. It runs on for ever: no spec, no pass that looks at it. |
| Outage | The loop starts replica A of a new service; its next pass lists the specs. A restart is requested, and the one pass of its handler starts B and returns. The loop lists A and B and takes B for outdated (`!=`, not `<`). A second request, a scale to the count the service already has, makes its handler reconcile, for which A is outdated. The loop stops B, the handler A. No replica runs, and nothing failed. |
| Prefix | Services `web` and `web-api`: the first claims the second's containers; the two never converge. |
| StoreTorn | A crash between truncation and write leaves a file the next boot refuses. |
| ManagerPanic | A container removed while `StartContainer` waits for its port: nil dereference. |

**Conditions in the properties.** Three properties hold under conditions that
the code does not enforce, and they say so. `RolloutKeepsCapacity` and
`LonePassKeepsServiceUp` are about passes that do not overlap with another pass
or with the stops of a delete: every accepted request makes its handler
reconcile next to the loop, and run Outage shows what overlapping passes do to
each other. Requests do fall into such a pass: before their save and their
handler's pass, and when a save fails. `ScaleDownKeepsReplicas` is about
overlapping passes, but about services whose containers began to run in the
order of creation; see section 6 for what happens otherwise.
`NoReplicaFromTheFuture` excepts services whose generation was taken back, which
deletes, early crashes and clients can do. `RegistryInStep` names the instances
whose own calls broke, overlapped or never came, and holds of all others,
whatever happened to these.

**Why the bounds are enough.** Two callers are the smallest number that
interleave, and no race above needs a third; the proofs of section 4 are for any
number. A pass handles one service after the other and remembers nothing of the
last; runs with one service leave out that a pass comes to the second service
late, with a copy of its spec that is older still, which is the same staleness
that requests during a pass produce, and Prefix has two. Replica counts of one to
three separate "none", "some", "all" and "surplus of several". In Discovery two
instances make lists of length one and two, so that the length changes between
lookup and selection; handlers share nothing but `next`, which one step under
`lb.mu` reads and writes, so that one handler and the manager's two callers show
every race between a list and the registry, and the theorems about
`GoneIsNotRouted` and `EveryIndexInTurn` are for any number of handlers and
services. `MaxContainers`, `MaxRequests`, `MaxFaults`, `MaxCrashes`,
`MaxChanges`, `MaxFailures` and `MaxEvents` only bound the environment: they are
guards of requests, faults, crashes, creations and events. When the bound on
containers is reached a creation fails, as it may in the code at any time, so no
pass gets stuck on it; in run ControlPlane there are more containers than a
behaviour of the bounded environment uses up, so that `Convergence` is not met
by running out of them.

**Symmetry and view** (Discovery only): callers and instances are
interchangeable, since instances have one owner there and none of its
properties is a liveness property. `StateView` leaves out `reply`, which a step
writes and no later step reads; `ImplementsDirectory` still sees it in every
step TLC generates.

**Deadlock** is not checked where the process may really stop: in ControlPlane,
Generations, Observation, StoreDurable and StoreTorn a crash may leave a torn
file, and then it cannot come up.

**Fairness.** The loop sleeps 10 s and starts over for ever (`Start` has no
exit), hence `WF(LoopTurn)`; a pass that began goes on, hence `WF(Reconcile(t))`
for every caller; a handler serves its request to the end, hence
`WF(Serve(t))`. That a step goes on means that every call to Docker and to the
registry returns. Nothing is assumed of clients, faults, crashes or boots.
`Convergence` assumes nothing of monitors either. `StatusSettles` says of
itself what it needs, as its antecedent: monitors go on reporting. In
ContainerManager calls in progress and monitors go on. A monitor's `http.Get`
has no timeout, so this assumes that a probe of a local port ends, which a
removed container's does by refusing the connection; a live container that
accepts and never answers is outside the model. Only `ControlPlaneFairSpec` and
ContainerManager's `FairSpec` state fairness; all other runs are about safety.

## 4. What is proved

For every value of the constants that satisfies the named assumptions, with
SMT, Zenon and, for the temporal steps, LS4:

| theorem | statement |
|---|---|
| `DeployerProofs!TypeCorrect` | `ControlPlaneSpec => []TypeOK` |
| `RolloutProofs!GenerationsNeverAhead` | `HistorySpec => []NoReplicaFromTheFuture` |
| `RolloutProofs!LonePassesKeepCapacity` | `HistorySpec => RolloutKeepsCapacity` |
| `RolloutProofs!LonePassesKeepServicesUp` | if `OwnNames`, `HistorySpec => LonePassKeepsServiceUp` |
| `RolloutProofs!ConcurrentScaleDownIsSafe` | if `OwnNames`, `HistorySpec => ScaleDownKeepsReplicas` |
| `ControlPlaneProofs!DeletesAreThorough` | `ControlPlaneSpec => DeleteStopsWhatItListed` |
| `ControlPlaneProofs!OvershootHasABound` | if `OwnNames` and `Callers` is finite, `ControlPlaneSpec => []OvershootIsBounded` |
| `ControlPlaneProofs!OvershootFollowsDemand` | under the same conditions: if a service never wants more than `r` replicas, it never runs more than `Cardinality(Callers) * r + faults` of one generation |
| `ServiceStoreProofs!StoreTypeCorrect` | `Spec => []TypeOK` |
| `ServiceStoreProofs!AcknowledgedStaysDurable` | `Spec => []AcknowledgedIsDurable` |
| `ServiceStoreProofs!RestartRestores` | `Spec => []RestartIsInvisible` |
| `ContainerManagerProofs!ManagerTypeCorrect` | `Spec => []TypeOK` |
| `ContainerManagerProofs!LateReportsDropped` | `Spec => LateReportsAreDropped` |
| `DiscoveryProofs!RegistryRefines` | `RegistrySpec => ImplementsDirectory` |
| `DiscoveryProofs!DiscoveryRefinesDirectory` | `Spec => ImplementsDirectory` |
| `DiscoveryProofs!RegistryTypeCorrect` | `Spec => []RegistryTypeOK` |
| `DiscoveryProofs!GoneStaysUnrouted` | `Spec => []GoneIsNotRouted` |
| `DiscoveryProofs!IndicesTakeTurns` | `Spec => []EveryIndexInTurn` |
| `DiscoveryProofs!RegistryFollowsDocker` | `Spec => []RegistryInStep` |
| `ObservationProofs!HistoryShowsTheNewest` | `ObservationSpec => []HistoryIsRecent` |
| `ObservationProofs!SickReplicasAreNoticed` | `ObservationSpec => []SickIsNoticed` |
| `ObservationProofs!ShortageIsNoticed` | `ObservationSpec => []ShortIsNoticed` |
| `ObservationProofs!SteadyServicesAreHealthy` | if `OwnNames`, `ObservationSpec => []SteadyIsHealthy` |

`OwnNames` says that no service matches the containers of another, that is
`Claims[s] = {s}`; the code does not ensure it (run Prefix), and without it a
pass counts and stops other services' containers, so that neither a replica
count nor a status means what it says. No theorem restricts the callers, except
that the two bounds on overshoot need finitely many. What the properties of
`HistorySpec` except is part of them, see section 3.

*TypeCorrect.* `TypeOK` alone is not inductive: a creation labels a container
with the spec of the pass, which has a valid image and generation only if the
pass works on a service it found (`PassesWorkOnSpecs`); a restart brings back
what was saved, which must be of the type too (`ProcessOK`); and only fresh ids
are created (`FreshIds`). `IInv` is the four together. The store operations
enter through the lemmas of ServiceSpecsProofs, among them that an incremented
generation that wraps is rejected. All other proofs about the process rest on
`IInv`, and on `DockerSteps` and `ContainersAge`, which say what calls a step
may make and that containers only age. `LInv` says of each pass that the ids it
sorted are disjoint (`Sorted`) and began to run before, with the service and
generation they were listed for (`Familiar`).

*GenerationsNeverAhead.* A pass may create a container long after the spec it
copied was replaced. `GInv`: unless a service is `rewound`, no copy of its spec
and none of its containers is ahead of the store. Every other step of the store
raises a generation or leaves it (`Rises`).

*LonePassesKeepCapacity.* When a pass decides on `RolloutStop`, the replicas it
counted may have been reported unhealthy or exited, and requests may have
changed the spec. `RInv` says what the sets of a pass still guarantee when it
never overlapped: nobody else stops containers (`Alone`, from `OneThing`: a
goroutine serves a request or makes a pass), so what it counted is still there
(`Keeps`) with the generation of the pass, and the outdated ids are none of
them (`LInv`).

*LonePassesKeepServicesUp.* `Faultless` adds that before the first fault nothing
is unhealthy or exited, so what a lone pass listed runs (`StillRuns`). A stop
that would take the last replica is then one of an outdated replica while the
available ones are as many as wanted, or one of a surplus: a valid spec wants at
least one. Without the condition it is false: run Outage.

*ConcurrentScaleDownIsSafe.* The lists of two passes differ, and each stops what
is surplus by its own count. `OldestFirst` says why they do not add up: every
pass stops the oldest replica of its list, so when a replica on it runs, all
older ones that run are on it too, and what is gone from it is older than
everything in it that runs. So stops of different passes hit the same replicas
first; the younger ones that a pass keeps all run, and they are as many as its
spec asks for. The first of these is where the order of the starts comes in: a
container that begins to run under a younger one is older than the list and not
on it (`disordered`). A rollout, a fault or a delete stops other replicas than
the oldest; so `Calm` is the condition of the property, `GInv` gives that
nothing is outdated while the generation is 1, and `Deleting` that a delete has
rewound its service before it stops anything.

*DeletesAreThorough.* `DeleteInv`: of the containers that ran when the delete
listed them, those that run and are no longer among its victims are at most as
many as faults. It needs that containers only age: no step makes a stopped
container run again or gives it another service, and what is created has a new
id. So the set only loses members, but when the loop's own stop fails, and that
costs a fault; where a pass stopped the container before, the failed stop leaves
nothing running.

*OvershootHasABound.* Each of n callers may count the same lack of r replicas
and start them all, but not again as long as it finds them well. What has to be
counted is not what runs: replicas become unhealthy, which passes do not count,
and passes that listed the replicas may go to sleep before they read their
health. For every set `Q` of passes that are about to count the replicas of a
service for the same generation, `Fits` bounds two sets together: the
containers that are sick or that none of `Q` has in its list (`Unseen`), and the
starts that the passes outside `Q` have decided on (`ToStart`, `AllToStart`),
the one under way included, by r for every caller outside `Q` and one for each
fault. A pass that lists joins `Q`, and has every replica in its list: what is
left unseen is sick, and so paid for by a fault. A pass that has read the last
report leaves `Q`: what it saw well becomes unseen, what it is to start is r
less those, so together they take at most the room of one caller. A start turns
a member of `AllToStart` into one of `Unseen`; one that Docker performs late,
or fails, costs a fault. For `Q = {}` every replica is unseen, which is the
bound. `Ceiling` says which r: no copy of the spec of the service, in the store,
the file or a pass, asks for more. In `OvershootInv` that r is one that may be
asked for (`Wanted`); in `OvershootFollowsDemand` it is any number that the
store stays below in the behaviour at hand, so the statement says something of
unbounded choices, too.

*Durability.* `SInv` of ServiceStoreProofs adds that a copy being written is the
map itself (`CopiesAreCurrent`, the effect of the read lock), that only a
serving process has requests under way, that versions are bounded by the changes
made, and that acknowledged versions are behind the map and the copies.

*The manager.* `Typed` has the sorts of the variables. `TypeOK` adds that the
created containers are `1 .. created` and that every call in progress, every
registration, health record and monitor is of one of them; a call whose creation
failed must therefore not go on. That late reports are dropped follows action by
action; only `TrackContainer` makes a record.

*The registry.* `EntriesChar` and `AtIsKey` translate between the two views,
and each request of the map of maps is shown to be the same request of the set.
For the whole of Discovery it remains that every message in `net` is a request
for the owner of its instance.

*GoneStaysUnrouted.* That a deregistration succeeded says something only
because an instance is registered by one message ever: `RegistersOnce` says
that there is at most one such message on its way, or one call that is yet to
send it, and no entry before. So a deregistration that the registry answers with
200 came after the registration, and from then on (`Over`) there is no entry and
none will come, whichever messages break, wait or overtake; `GoneIsOver` says so
from the answer on, before the caller reads it. `Routed` carries this into the
lists that handlers hold.

*IndicesTakeTurns.* `TurnsInOrder`: the last selections count back from the
counter, modulo the number of backends. `ModSuccessor` is the arithmetic: the
successor of a remainder is one more, or wraps.

*RegistryFollowsDocker.* `InStep` adds up, for each instance, what the registry
knows and what is still under way: one that runs or ended on its own is known or
about to be (`Kept`), one that was stopped is not known or about to be
deregistered, with no registration left to undo that (`Dropped`). Every instance
whose registration was never sent, was lost, or may be served after its stop is
excused by `missed` or `leftover` at the step where that happens, and only its
own calls can do so; the rest holds with any number of broken connections and
restarts. At rest nothing is under way.

*The status.* The three properties speak of what held during a whole request.
`SickReads`, `ShortReads` and `SteadyReads` say what each read has made certain
when the next one comes: what was sick, lacking or well all the time was so when
it was listed and when it was asked for. The answer then follows from
`ServiceStatus` by the cardinalities of what was counted, for any number of
replicas. Steadiness needs `OneChange`: in one step the containers change in one
of them at most, and never together with a spec.

*HistoryShowsTheNewest.* `Consecutive`: the slice is a run of events that ends
with the last one added and is as long as it may be. Adding and trimming keep
it so.

TLC checked the strengthenings before they were proved, as invariants of
instances like those of section 3. Actions that proofs expand update one field
of a function's record by `[f EXCEPT ![x].a = v]` or the whole record, never two
fields by two paths, which tlapm 1.4.5 does not translate soundly.

**Only model-checked**: `Convergence`, `StatusSettles` and `StaleReportsExpire`,
which are liveness properties: the prover has no rules for fairness, whose
meaning is by ENABLED. Every safety invariant and action property that a passing
run checks is also proved, some under the conditions named in the table.

## 5. What is not modelled, and why

- *The CLI and the dashboard*: each command is one request and the display of
  its answer; the models enumerate the requests.
- *Text*: names, image strings, JSON, log and event messages; times of reports.
- *Image pulls, logs, the static page*: they change no state that others depend
  on. A pull is part of `CreateContainer`, which may fail.
- *Ports*: the port a container gets and the packets that arrive at it are not
  followed. A stop frees the port before the instance is deregistered, so for a
  moment the load balancer may route to another service's container that was
  given the same port.
- *A probe that hangs*: `http.Get` has no timeout; see Fairness.
- *`internal/registry/registry.go`*: the same methods as the registry server's
  store, used by nothing but its own test.
- *Several processes of the orchestrator*: the code has no support for them.

## 6. What reading the models tells beyond the properties

Consequences of the code that no property states, because the code does not
promise the contrary clearly enough or the statement would only repeat it:

- An update of the image keeps the generation unless the client raises it, and
  the reconciler compares generations only: containers of the old image run on.
- A delete whose save failed has changed the map: when retried it is answered
  404 without a save, and the next restart brings the service back. A delete
  whose list of containers failed is answered 500, and leaves them all running
  with no service that owns them.
- Passes that shrink a service at once rely on Docker's order of creation. Three
  replicas are wanted; A was created and not started when B and C, younger, run.
  A pass that wants one replica lists B and C; A starts; a pass that wants two
  lists A, B and C. The first stops B, the second A: one replica is left where
  two were wanted. Nothing failed, and the next pass repairs it.
  `ScaleDownKeepsReplicas` excepts such services (`disordered`).
- `StartContainer` registers and tracks after up to five inspections. If another
  caller stops and removes the container meanwhile, the registration stays
  for good; the health record goes with the monitor (`StaleReportsExpire`).
  The same is left by a stop whose inspection failed: it does not deregister.
  `RegistryInStep` excepts such instances (`leftover`).
- A container that ends on its own is never listed again, hence never stopped,
  removed or deregistered: the load balancer goes on routing to it.
  `RegistryInStep` says so: its entry stays.
- A start that finds no port in five inspections returns an id without
  registering or monitoring the container. It counts as a replica for good, and
  gets no requests.
- A single failed inspection ends the monitor of a live container and drops its
  record. An unhealthy replica then counts as available again, and its service
  stays "starting".
- The load balancer rotates indices, not backends: the registry lists a bucket
  in random map order, so `EveryIndexInTurn` does not keep one backend from
  being served twice in a row and another not at all.
- A status is "healthy" with more replicas running than desired, as long as all
  are current and healthy; README.md:485 calls that "fully converged".
- A replica that outlived a restart of the orchestrator has no monitor. Its
  service stays "starting", and nobody notices when it becomes unhealthy.
  `StatusSettles` allows just that.
- After a restart of the registry the running replicas are not registered again
  until they are replaced (`missed`).

## 7. Plan

Done: every part with state, the compositions ControlPlane, Observation and
Discovery, the registry's refinement, and a theorem for every safety property.

1. ContainerManager as an implementation of the steps `CreateReplica`,
   `StartReplica`, `TrackReplica` and `StopContainer` of Deployer.
2. ServiceStore as an implementation of the one-step save of ControlPlane, torn
   files included.
3. A bound on the containers that a delete leaves behind when a pass overlaps it
   (run Orphans shows that there are some).
4. A bound on what passes that shrink a service at once stop too much when its
   containers start out of order.
