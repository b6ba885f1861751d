---------------------------- MODULE ControlPlane ----------------------------
(***************************************************************************)
(* The orchestrator process as a whole: API handlers, the file they save   *)
(* to, reconciliation and restarts (cmd/orchestrator/main.go over          *)
(* internal/orchestrator and internal/state).                              *)
(*                                                                         *)
(* The steps of a pass, of Docker and of the tracker are those of          *)
(* Deployer.  The background loop makes one pass after the other; a        *)
(* handler goroutine is followed from the change of the store through the  *)
(* save to the one pass it makes, and a delete through the stops it makes  *)
(* itself.                                                                 *)
(*                                                                         *)
(* A save that nothing interrupts is one step; ServiceStore has its        *)
(* inside.  What a save that fails, or that a crash cuts short, leaves in  *)
(* the file may be no readable state at all: then the process exits at     *)
(* the next boot, and at every other one.                                  *)
(*                                                                         *)
(* A Docker call under way at a crash was performed (the crash follows the *)
(* step), or is not (it precedes it), or is performed later (StartsLate,   *)
(* ContainerExits).                                                        *)
(***************************************************************************)
EXTENDS Deployer, ServiceStatus

CONSTANT MaxCrashes  \* bound: crashes of the process

ASSUME ControlPlaneAssumption == MaxCrashes \in Nat

VARIABLES
  saved,    \* the specs in services.json when it was last written completely
  torn,     \* the file is truncated or cut off
  up,       \* the process runs, or its supervisor brings it up again
  handler,  \* caller -> the request it serves, up to its pass
  crashes   \* crashes so far

process == <<saved, torn, up, handler, crashes>>
allVars == <<vars, process>>

Handlers == Callers \ {Loop}

IdleHandler == [pc |-> "idle", service |-> 0, delete |-> FALSE, victims |-> {}, listed |-> {}]

\* The goroutine of t is free to serve a request.
Free(t) == handler[t].pc = "idle" /\ pass[t].pc = "idle"

-----------------------------------------------------------------------------
(***************************************************************************)
(* Handlers.                                                               *)
(***************************************************************************)
\* The store took the change to store; next the handler saves.
Accept(t, s, store, delete) ==
  /\ up /\ Free(t)
  /\ requests < MaxRequests
  /\ requests' = requests + 1
  /\ services' = store
  /\ handler' = [handler EXCEPT ![t] = [IdleHandler EXCEPT !.pc = "save", !.service = s,
                                          !.delete = delete]]
  /\ UNCHANGED <<containers, created, tracker, pass, faults, saved, torn, up, crashes>>

\* POST /api/services.  A spec that is not valid is answered 400 and changes
\* nothing; so are the other requests when the store rejects them.
UpsertService(t) ==
  /\ "update" \in Operations
  /\ \E s \in Services, image \in Images, r \in ReplicaChoices, g \in GenerationChoices :
       LET spec == [image |-> image, replicas |-> r, generation |-> g] IN
       /\ Validate(UpsertSpec(services, s, spec))
       /\ Accept(t, s, Upsert(services, s, spec), FALSE)

\* POST /api/services/:name/scale
ScaleService(t) ==
  /\ "scale" \in Operations
  /\ \E s \in Services, r \in ReplicaChoices :
       /\ Found(services, s) /\ r >= 1
       /\ Accept(t, s, Scale(services, s, r), FALSE)

\* POST /api/services/:name/restart
RestartService(t) ==
  /\ "restart" \in Operations
  /\ \E s \in Services :
       /\ Found(services, s) /\ Increment(services[s].generation) >= 1
       /\ Accept(t, s, RequestRestart(services, s), FALSE)

\* DELETE /api/services/:name
DeleteService(t) ==
  /\ "delete" \in Operations
  /\ \E s \in Services : Found(services, s) /\ Accept(t, s, Delete(services, s), TRUE)

\* SaveToFile returned nil.
Save(t) ==
  /\ handler[t].pc = "save"
  /\ saved' = services /\ torn' = FALSE
  /\ handler' = [handler EXCEPT ![t].pc = IF handler[t].delete THEN "list" ELSE "reconcile"]
  /\ UNCHANGED <<vars, up, crashes>>

\* SaveToFile returned an error: 500, and the store stays changed.  The file is
\* as it was, or os.WriteFile has truncated it already.
SaveFails(t) ==
  /\ handler[t].pc = "save"
  /\ Fault
  /\ torn' \in {torn, TRUE}
  /\ handler' = [handler EXCEPT ![t] = IdleHandler]
  /\ UNCHANGED <<services, containers, created, tracker, pass, requests, saved, up, crashes>>

\* The delete handler lists the running containers of the service.
ListVictims(t) ==
  /\ handler[t].pc = "list"
  /\ handler' = [handler EXCEPT ![t] = [@ EXCEPT
       !.pc = "stop", !.victims = Matching(handler[t].service),
       !.listed = Matching(handler[t].service)]]
  /\ UNCHANGED <<vars, saved, torn, up, crashes>>

\* The list failed: 500, nothing is stopped and no pass is run.
ListVictimsFails(t) ==
  /\ handler[t].pc = "list"
  /\ Fault
  /\ handler' = [handler EXCEPT ![t] = IdleHandler]
  /\ UNCHANGED <<services, containers, created, tracker, pass, requests, saved, torn, up,
                 crashes>>

\* Mutation: the first stop that fails ends the loop.
StopVictimOrGiveUp(t) ==
  /\ handler[t].pc = "stop"
  /\ \E c \in handler[t].victims :
       /\ \A d \in handler[t].victims : d <= c
       /\ \/ StopContainer(c) /\ handler' = [handler EXCEPT ![t].victims = handler[t].victims \ {c}]
          \/ StopFails(c) /\ handler' = [handler EXCEPT ![t].victims = {}]
  /\ UNCHANGED <<services, pass, requests, saved, torn, up, crashes>>

\* The loop of the delete handler over that list; a stop that fails is logged.
StopVictim(t) ==
  /\ handler[t].pc = "stop"
  /\ \E c \in handler[t].victims :
       /\ \A d \in handler[t].victims : d <= c
       /\ StopContainer(c) \/ StopFails(c)
       /\ handler' = [handler EXCEPT ![t].victims = handler[t].victims \ {c}]
  /\ UNCHANGED <<services, pass, requests, saved, torn, up, crashes>>

\* ReconcileNow; the handler answers when this pass is over.
ReconcileNow(t) ==
  /\ handler[t].pc = "reconcile" \/ (handler[t].pc = "stop" /\ handler[t].victims = {})
  /\ BeginPass(t)
  /\ handler' = [handler EXCEPT ![t] = IdleHandler]
  /\ UNCHANGED <<saved, torn, up, crashes>>

Serve(t) ==
  \/ Save(t) \/ SaveFails(t)
  \/ ListVictims(t) \/ ListVictimsFails(t) \/ StopVictim(t)
  \/ ReconcileNow(t)

-----------------------------------------------------------------------------
(***************************************************************************)
(* The process, and the goroutines that are not handlers.                  *)
(***************************************************************************)
\* The process is killed: the containers run on, the tracker and every goroutine
\* are gone.
Crash ==
  /\ up
  /\ crashes < MaxCrashes
  /\ crashes' = crashes + 1
  /\ tracker' = [c \in Ids |-> "absent"]
  /\ pass' = [t \in Callers |-> IdlePass]
  /\ handler' = [t \in Callers |-> IdleHandler]
  /\ UNCHANGED <<containers, created, requests, faults, saved>>

\* It is started again, and the desired state is the file's.
Restart ==
  /\ Crash
  /\ ~torn
  /\ services' = saved
  /\ UNCHANGED <<torn, up>>

\* The file was torn, or is by the save the crash cut short: LoadFromFile fails,
\* and the process exits whenever it is started.
BootFails ==
  /\ Crash
  /\ torn \/ \E t \in Handlers : handler[t].pc = "save"
  /\ torn' = TRUE /\ up' = FALSE
  /\ UNCHANGED services

\* A turn of the background loop begins.
LoopTurn == up /\ BeginPass(Loop) /\ UNCHANGED process

Reconcile(t) == PassStep(t) /\ UNCHANGED process

Observed(c) == ReportHealthy(c) /\ UNCHANGED process

Breaks(c) ==
  /\ ReportUnhealthy(c) \/ MonitorEnds(c) \/ StartsLate(c) \/ ContainerExits(c)
  /\ UNCHANGED process

-----------------------------------------------------------------------------
ControlPlaneInit ==
  /\ Init
  /\ saved = services /\ torn = FALSE /\ up = TRUE
  /\ handler = [t \in Callers |-> IdleHandler]
  /\ crashes = 0

ControlPlaneNext ==
  \/ \E t \in Handlers :
       \/ UpsertService(t) \/ ScaleService(t) \/ RestartService(t) \/ DeleteService(t)
       \/ Serve(t)
  \/ LoopTurn
  \/ \E t \in Callers : Reconcile(t)
  \/ \E c \in Ids : Observed(c) \/ Breaks(c)
  \/ Restart \/ BootFails

ControlPlaneSpec == ControlPlaneInit /\ [][ControlPlaneNext]_allVars

\* The loop sleeps and starts over for ever; a pass that began goes on, since
\* every call it makes returns; a handler serves its request to the end.  Clients,
\* monitors and containers owe nothing.
ControlPlaneFairSpec ==
  /\ ControlPlaneSpec
  /\ WF_allVars(LoopTurn)
  /\ \A t \in Callers : WF_allVars(Reconcile(t))
  /\ \A t \in Handlers : WF_allVars(Serve(t))

-----------------------------------------------------------------------------
(***************************************************************************)
(* Properties.                                                             *)
(***************************************************************************)
\* The replica counts a service may ever be asked to have.
Wanted == ReplicaChoices \cup {spec.replicas : spec \in InitialSpecs}

\* The status an operator would be shown of service s now.
StatusOf(s) ==
  Overall(Counts(services[s], Matching(s), [c \in Ids |-> containers[c].generation], tracker))

\* Once clients, faults and crashes leave the system alone, every service converges
\* to its desired state and stays there (README.md:454), unless the process cannot
\* come up.
Convergence == <>[](\A s \in Services : (up /\ Found(services, s)) => Settled(s))

\* Whatever requests, faults and restarts came before: when monitors go on
\* reporting, in the end the status of a service is "healthy" for good, or
\* "starting" where a replica has no health record because it outlived a restart,
\* never got a port, or lost its monitor to a failed inspection
\* (service_status.go:146-157, README.md:481-485).
StatusSettles ==
  WF_allVars(\E c \in Ids : Observed(c)) =>
  <>[](\A s \in Services : (up /\ Found(services, s)) =>
         \/ StatusOf(s) = "healthy"
         \/ StatusOf(s) = "starting" /\ \E c \in Matching(s) : tracker[c] = "absent")

\* Passes that count from lists of different moments start too many replicas, but
\* never more of one generation than every caller wants on its own, and one for
\* each fault (deployer.go:192-216; a replica without a check counts, see
\* tracker.go:45).
OvershootIsBounded ==
  \A s \in Services : \A c \in Running : \E r \in Wanted :
    Cardinality({d \in Matching(s) : containers[d].generation = containers[c].generation})
      <= Cardinality(Callers) * r + faults

\* Of the containers that ran when a delete listed them, no more are left when
\* its loop is over than calls failed, although passes stop some of the same
\* containers meanwhile, so that their second stop fails (main.go:240-251).
DeleteStopsWhatItListed ==
  [][\A t \in Handlers, s \in Services :
       (/\ handler[t].pc = "stop" /\ handler[t].service = s
        /\ handler'[t].pc = "idle" /\ crashes' = crashes)
         => Cardinality(Matching(s)' \cap handler[t].listed) <= faults']_allVars

\* A rolling restart never leaves a service that had a running replica without
\* one, as long as nothing fails (README.md:538: a restart is not made "by
\* stopping everything at once").
RestartKeepsServiceUp ==
  [][faults' = 0 => \A s \in Services : Matching(s) # {} => Matching(s)' # {}]_allVars

\* When no request and no pass is under way and nothing ever failed, every
\* running container is of a service that exists ("Delete a service and stop
\* its running replicas", cmd/cli/cmd/delete.go:11).
DeletedServicesStop ==
  (faults = 0 /\ \A t \in Callers : Free(t))
    => \A c \in Running : Found(services, containers[c].service)
=============================================================================
