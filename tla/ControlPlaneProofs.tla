------------------------- MODULE ControlPlaneProofs -------------------------
(***************************************************************************)
(* Theorems about ControlPlane, for every number of callers, services,     *)
(* containers, requests, faults and crashes: what a delete leaves running, *)
(* and how far concurrent passes can start too many replicas.              *)
(***************************************************************************)
EXTENDS ControlPlane, DeployerProofs

-----------------------------------------------------------------------------
(***************************************************************************)
(* Deletes.                                                                *)
(***************************************************************************)
\* Of the containers the delete of t listed, those that run although its loop
\* is past them.
LeftRunning(t) ==
  (Matching(handler[t].service) \cap handler[t].listed) \ handler[t].victims

\* What a delete listed began to run before, and each that is left cost a fault.
DeleteInv ==
  \A t \in Callers : handler[t].pc = "stop" =>
    /\ \A c \in handler[t].listed : c <= created /\ containers[c].state # "created"
    /\ Cardinality(LeftRunning(t)) <= faults

\* A subset has no more elements than the finite set it is of.
LEMMA NotLarger ==
  ASSUME NEW T \in SUBSET Ids, NEW S \in SUBSET T
  PROVE  Cardinality(S) \in Nat /\ Cardinality(T) \in Nat /\ Cardinality(S) <= Cardinality(T)
  BY CountType, FS_Subset

\* Nor more than one more, when one element joins.
LEMMA OneMore ==
  ASSUME NEW T \in SUBSET Ids, NEW c \in Ids, NEW S \in SUBSET (T \cup {c})
  PROVE  Cardinality(S) \in Nat /\ Cardinality(T) \in Nat /\ Cardinality(S) <= Cardinality(T) + 1
<1>1. T \cup {c} \in SUBSET Ids /\ IsFiniteSet(T)
  BY CountType
<1>2. Cardinality(T \cup {c}) <= Cardinality(T) + 1 /\ Cardinality(T) \in Nat
      /\ Cardinality(T \cup {c}) \in Nat
  BY <1>1, CountType, FS_AddElement
<1> QED
  BY <1>1, <1>2, NotLarger

\* While the request of t is as it was, or has passed a container, nothing else of
\* what it listed begins to run again.
LEMMA LeftFewer ==
  ASSUME IInv, DeleteInv, [ControlPlaneNext]_allVars, NEW t \in Callers,
         handler[t].pc = "stop", handler'[t].service = handler[t].service,
         handler'[t].listed = handler[t].listed, NEW V,
         handler[t].victims \subseteq handler'[t].victims \cup V
  PROVE  /\ LeftRunning(t)' \subseteq LeftRunning(t) \cup (V \cap Running')
         /\ \A c \in handler'[t].listed : c <= created' /\ containers'[c].state # "created"
<1>1. /\ handler[t].listed \subseteq Ids /\ created \in Int /\ created' \in Int
      /\ created <= created' /\ \A c \in Ids : c \in Int
      /\ \A c \in Ids : c <= created => Ages(c)
      /\ \A c \in handler[t].listed : c <= created /\ containers[c].state # "created"
  BY NextOK, ContainersAge DEF IInv, TypeOK, ProcessOK, HandlerState, Ids, DeleteInv
<1>2. \A c \in handler[t].listed : c <= created' /\ containers'[c].state # "created"
  BY <1>1 DEF Ages
<1>3. ASSUME NEW c \in LeftRunning(t)' PROVE c \in LeftRunning(t) \cup (V \cap Running')
  <2>1. c \in Ids /\ c \in handler[t].listed /\ containers'[c].state = "running"
        /\ containers'[c].service \in Claims[handler[t].service] /\ c \notin handler'[t].victims
    BY <1>3 DEF LeftRunning, Matching, Running
  <2>2. containers[c].state = "running" /\ containers[c].service = containers'[c].service
    BY <1>1, <2>1 DEF Ages
  <2> QED
    BY <2>1, <2>2 DEF LeftRunning, Matching, Running
<1> QED
  BY <1>2, <1>3

\* A step by which the loop of t passes no container.
LEMMA DeleteWaits ==
  ASSUME IInv, DeleteInv, [ControlPlaneNext]_allVars, NEW t \in Callers,
         handler[t].pc = "stop", handler'[t] = handler[t]
  PROVE  /\ \A c \in handler'[t].listed : c <= created' /\ containers'[c].state # "created"
         /\ Cardinality(LeftRunning(t)') <= faults'
<1>1. handler[t].victims \subseteq handler'[t].victims \cup {}
  OBVIOUS
<1>2. /\ LeftRunning(t)' \subseteq LeftRunning(t)
      /\ \A c \in handler'[t].listed : c <= created' /\ containers'[c].state # "created"
  <2>1. LeftRunning(t)' \subseteq LeftRunning(t) \cup ({} \cap Running')
        /\ \A c \in handler'[t].listed : c <= created' /\ containers'[c].state # "created"
    BY <1>1, LeftFewer
  <2> QED
    BY <2>1
<1>3. LeftRunning(t) \in SUBSET Ids
  BY DEF LeftRunning, Matching, Running
<1> QED
  BY <1>2, <1>3, NotLarger, FaultsGrow DEF DeleteInv

\* A turn of the loop of t: the container it passes is stopped, or costs a fault.
LEMMA LoopOfDelete ==
  ASSUME IInv, DeleteInv, [ControlPlaneNext]_allVars, NEW t \in Callers, StopVictim(t)
  PROVE  /\ \A c \in handler'[t].listed : c <= created' /\ containers'[c].state # "created"
         /\ Cardinality(LeftRunning(t)') <= faults'
<1>0. /\ handler \in [Callers -> HandlerState] /\ handler[t].pc = "stop" /\ DockerOK
      /\ LeftRunning(t) \in SUBSET Ids
  BY DockerFacts DEF IInv, ProcessOK, StopVictim, LeftRunning, Matching, Running
<1>1. PICK c \in handler[t].victims :
        /\ StopContainer(c) \/ StopFails(c)
        /\ handler' = [handler EXCEPT ![t].victims = handler[t].victims \ {c}]
  BY DEF StopVictim
<1>2. /\ c \in Ids /\ handler'[t].service = handler[t].service
      /\ handler'[t].listed = handler[t].listed
      /\ handler'[t].victims = handler[t].victims \ {c}
  BY <1>0, <1>1 DEF HandlerState
<1>3. handler[t].victims \subseteq handler'[t].victims \cup {c}
  BY <1>2
<1>4. /\ LeftRunning(t)' \subseteq LeftRunning(t) \cup ({c} \cap Running')
      /\ \A d \in handler'[t].listed : d <= created' /\ containers'[d].state # "created"
  BY <1>0, <1>2, <1>3, LeftFewer
<1>5. CASE c \notin Running'
  <2>1. LeftRunning(t)' \subseteq LeftRunning(t)
    BY <1>4, <1>5
  <2> QED
    BY <1>0, <1>4, <2>1, NotLarger, FaultsGrow DEF DeleteInv
<1>6. CASE c \in Running'
  <2>1. containers'[c].state = "running"
    BY <1>6 DEF Running
  <2>2. faults' = faults + 1
    <3>1. CASE StopContainer(c)
      BY <1>0, <1>2, <2>1, <3>1 DEF StopContainer, DockerOK, NoContainer
    <3>2. CASE StopFails(c)
      BY <2>1, <3>2 DEF StopFails, Fault
    <3> QED
      BY <1>1, <3>1, <3>2
  <2>3. LeftRunning(t)' \in SUBSET (LeftRunning(t) \cup {c})
    BY <1>4
  <2>4. Cardinality(LeftRunning(t)') <= Cardinality(LeftRunning(t)) + 1
        /\ Cardinality(LeftRunning(t)) \in Nat /\ Cardinality(LeftRunning(t)') \in Nat
    BY <1>0, <1>2, <2>3, OneMore
  <2> QED
    BY <1>0, <1>4, <2>2, <2>4, FaultsGrow DEF DeleteInv
<1> QED
  BY <1>5, <1>6

\* How a step moves the handler of t while, or until, it stops containers.
LEMMA StoppingMoves ==
  ASSUME IInv, [ControlPlaneNext]_allVars, NEW t \in Callers
  PROVE  \/ handler'[t] = handler[t]
         \/ handler'[t].pc # "stop" /\ (handler[t].pc = "stop" => \/ crashes' # crashes
                                                                   \/ ReconcileNow(t))
         \/ ListVictims(t)
         \/ StopVictim(t)
<1>0. handler \in [Callers -> HandlerState]
  BY DEF IInv, ProcessOK
<1>1. ASSUME NEW u \in Handlers,
             UpsertService(u) \/ ScaleService(u) \/ RestartService(u) \/ DeleteService(u)
      PROVE  handler'[t] = handler[t] \/ (handler'[t].pc = "save" /\ handler[t].pc = "idle")
  <2>1. PICK s \in Services, store \in Store, delete \in BOOLEAN : Accept(u, s, store, delete)
    BY <1>1, RequestStep DEF Asked, IInv, TypeOK
  <2> QED
    BY <1>0, <2>1 DEF Accept, Free, IdleHandler
<1>2. ASSUME NEW u \in Handlers, Serve(u), u # t PROVE handler'[t] = handler[t]
  BY <1>0, <1>2 DEF Serve, Save, SaveFails, ListVictims, ListVictimsFails, StopVictim, ReconcileNow
<1>3. CASE Save(t)
  BY <1>0, <1>3 DEF Save
<1>4. CASE SaveFails(t) \/ ListVictimsFails(t) \/ ReconcileNow(t)
  <2>1. handler'[t] = IdleHandler
    BY <1>0, <1>4 DEF SaveFails, ListVictimsFails, ReconcileNow
  <2>2. handler'[t].pc = "idle"
    BY <2>1 DEF IdleHandler
  <2>3. ReconcileNow(t) \/ handler[t].pc # "stop"
    BY <1>4 DEF SaveFails, ListVictimsFails
  <2> QED
    BY <2>2, <2>3
<1>5. CASE Restart \/ BootFails
  BY <1>5, CrashType DEF IdleHandler
<1>6. ASSUME UNCHANGED handler PROVE handler'[t] = handler[t]
  BY <1>6
<1> QED
  BY <1>1, <1>2, <1>3, <1>4, <1>5, <1>6, EnvironmentType
  DEF ControlPlaneNext, Serve, LoopTurn, Reconcile, process, allVars

\* Every step keeps what deletes left below the faults.
LEMMA DeleteInvNext == IInv /\ DeleteInv /\ [ControlPlaneNext]_allVars => DeleteInv'
<1> SUFFICES ASSUME IInv, DeleteInv, [ControlPlaneNext]_allVars, NEW t \in Callers,
                    handler'[t].pc = "stop"
    PROVE  /\ \A c \in handler'[t].listed : c <= created' /\ containers'[c].state # "created"
           /\ Cardinality(LeftRunning(t)') <= faults'
  BY DEF DeleteInv
<1>1. CASE ListVictims(t)
  <2>1. /\ handler'[t].service = handler[t].service
        /\ handler'[t].victims = Matching(handler[t].service)
        /\ handler'[t].listed = Matching(handler[t].service)
    BY <1>1 DEF ListVictims, IInv, ProcessOK, HandlerState
  <2>2. UNCHANGED <<containers, created, faults>>
    BY <1>1 DEF ListVictims, vars
  <2>3. LeftRunning(t)' = {}
    BY <2>1, <2>2 DEF LeftRunning
  <2>4. \A c \in Matching(handler[t].service) : c <= created /\ containers[c].state # "created"
    BY DEF Matching, Running, IInv, FreshIds
  <2> QED
    BY <2>1, <2>2, <2>3, <2>4, FS_EmptySet, FaultsGrow
<1> QED
  BY <1>1, StoppingMoves, DeleteWaits, LoopOfDelete

\* The end of that loop.
LEMMA DeleteEnds ==
  ASSUME IInv, DeleteInv, [ControlPlaneNext]_allVars, NEW t \in Handlers, NEW s \in Services,
         handler[t].pc = "stop", handler[t].service = s, handler'[t].pc = "idle",
         crashes' = crashes
  PROVE  Cardinality(Matching(s)' \cap handler[t].listed) <= faults'
<1>1. t \in Callers /\ handler \in [Callers -> HandlerState]
  BY DEF Handlers, IInv, ProcessOK
<1>2. ~ListVictims(t)
  BY DEF ListVictims
<1>3. ~StopVictim(t)
  <2> SUFFICES ASSUME StopVictim(t) PROVE FALSE
    OBVIOUS
  <2>1. PICK c : handler' = [handler EXCEPT ![t].victims = handler[t].victims \ {c}]
    BY DEF StopVictim
  <2>2. handler'[t].pc = handler[t].pc
    BY <1>1, <2>1 DEF HandlerState
  <2> QED
    BY <2>2
<1>4. ReconcileNow(t)
  BY <1>1, <1>2, <1>3, StoppingMoves
<1>5. UNCHANGED <<containers, faults>> /\ handler[t].victims = {}
  BY <1>4 DEF ReconcileNow, BeginPass
<1>6. Matching(s)' = Matching(s)
  BY <1>5 DEF Matching, Running
<1>7. Matching(s)' \cap handler[t].listed = LeftRunning(t)
  BY <1>5, <1>6 DEF LeftRunning
<1> QED
  BY <1>1, <1>5, <1>7 DEF DeleteInv

\* When the loop of a delete is over, no more of the containers it listed run than
\* calls failed, although passes and other deletes stop some of them meanwhile.
THEOREM DeletesAreThorough == ControlPlaneSpec => DeleteStopsWhatItListed
<1>1. ControlPlaneInit => IInv /\ DeleteInv
  <2>1. ControlPlaneInit => DeleteInv
    BY DEF ControlPlaneInit, DeleteInv, IdleHandler
  <2> QED
    BY <2>1, InitOK
<1>2. IInv /\ DeleteInv /\ [ControlPlaneNext]_allVars => IInv' /\ DeleteInv'
  BY NextOK, DeleteInvNext
<1>3. IInv /\ DeleteInv /\ [ControlPlaneNext]_allVars
        => [\A t \in Handlers, s \in Services :
              (/\ handler[t].pc = "stop" /\ handler[t].service = s
               /\ handler'[t].pc = "idle" /\ crashes' = crashes)
                => Cardinality(Matching(s)' \cap handler[t].listed) <= faults']_allVars
  BY DeleteEnds
<1> QED
  BY <1>1, <1>2, <1>3, PTL DEF ControlPlaneSpec, DeleteStopsWhatItListed

-----------------------------------------------------------------------------
(***************************************************************************)
(* How far passes overshoot: what is counted.                              *)
(***************************************************************************)
Acting == {"act", "start", "track"}

\* The containers last reported unhealthy.
Sick == {c \in Ids : tracker[c] = "unhealthy"}

\* Container c is a replica of s of generation g.
IsReplica(c, s, g) ==
  containers[c].state = "running" /\ containers[c].service = s /\ containers[c].generation = g

\* The replicas that pass p has listed, and not found unhealthy.
Taken(p) == p.seen \cup p.available

\* Pass p has listed the replicas of s, for generation g, and not counted them yet.
Counting(p, s, g) == p.pc = "classify" /\ p.service = s /\ SpecOf(p).generation = g

\* The replicas that pass p is still to start, the one it is starting included.
Remaining(p) == 1 .. (IF p.pc = "track" THEN p.missing - 1 ELSE p.missing)

\* Those of service s and generation g.
ToStart(p, s, g) ==
  IF p.pc \in Acting /\ p.service = s /\ SpecOf(p).generation = g THEN Remaining(p) ELSE {}

\* What is sick, and the replicas that none of the passes Q is about to count.
Unseen(s, g, Q) ==
  {c \in Ids : \/ tracker[c] = "unhealthy"
               \/ IsReplica(c, s, g) /\ \A q \in Q : c \notin Taken(pass[q])}

\* The starts that the passes ps, except those in Q, are still to make.
AllToStart(ps, s, g, Q) == UNION {{t} \X ToStart(ps[t], s, g) : t \in Callers \ Q}

\* Pass p misses no more than r replicas of s.
MissesAtMost(p, s, r) == (p.pc \in Acting /\ p.service = s) => p.missing <= r

\* No copy of the spec of s wants more than r replicas, and no pass misses more.
Ceiling(s, r) ==
  /\ services[s].replicas <= r /\ saved[s].replicas <= r
  /\ \A t \in Callers : pass[t].specs[s].replicas <= r /\ MissesAtMost(pass[t], s, r)

\* The passes in Q are about to count every replica but the unseen ones; each
\* of the others may have started, or still start, as many as the ceiling.
Fits(s, g, Q, r) ==
  Cardinality(Unseen(s, g, Q)) + Cardinality(AllToStart(pass, s, g, Q))
    <= (Cardinality(Callers) - Cardinality(Q)) * r + faults

Bounded(s, r) ==
  \A g \in 1 .. MaxGeneration : \A Q \in SUBSET Callers :
    (\A q \in Q : Counting(pass[q], s, g)) => Fits(s, g, Q, r)

\* The container that a pass is starting is of the service and the generation it
\* works on.
Begun ==
  \A t \in Callers : pass[t].pc \in {"start", "track"} =>
    (containers[pass[t].starting].state # "none" =>
       /\ containers[pass[t].starting].service = pass[t].service
       /\ containers[pass[t].starting].generation = SpecOf(pass[t]).generation)

\* Faults pay for the sick; a container exists only where somebody wanted one; and
\* for each service the bound holds with a ceiling that was asked for.
OvershootInv ==
  /\ Cardinality(Sick) <= faults
  /\ created > 0 => \E r \in Wanted : r \in Nat
  /\ \A s \in Services : \E r \in Wanted \cup {0} :
       r \in Nat /\ Ceiling(s, r) /\ Bounded(s, r)

-----------------------------------------------------------------------------
(***************************************************************************)
(* What calls to Docker and reports do to the sick and to the replicas.    *)
(***************************************************************************)
\* Only containers in X may have become sick, or a replica of s and g.
Joins(s, g, X) ==
  \A c \in Ids \ X : /\ tracker'[c] = "unhealthy" => tracker[c] = "unhealthy"
                     /\ IsReplica(c, s, g)' => IsReplica(c, s, g)

\* None did, or one and it cost a fault.
Gentle ==
  \/ (\A s, g : Joins(s, g, {})) /\ faults <= faults'
  \/ \E c \in Ids : (\A s, g : Joins(s, g, {c})) /\ faults' = faults + 1

\* Nothing changed but the fault counter.
LEMMA NothingJoins ==
  ASSUME UNCHANGED <<containers, tracker>>, faults \in Nat, faults' = faults \/ Fault
  PROVE  Gentle
  BY DEF Gentle, Joins, IsReplica, Fault

\* A stop makes nothing sick and no replica.
LEMMA StopIsGentle ==
  ASSUME IInv, NEW c \in Ids, StopContainer(c) \/ StopFails(c)
  PROVE  Gentle
<1>0. DockerOK /\ faults \in Nat
  BY DockerFacts DEF DockerOK
<1>1. \A d \in Ids : /\ tracker'[d] = "unhealthy" => tracker[d] = "unhealthy"
                     /\ containers'[d].state = "running" => containers'[d] = containers[d]
  <2>1. CASE StopContainer(c)
    BY <1>0, <2>1 DEF StopContainer, DockerOK, NoContainer
  <2>2. CASE StopFails(c) /\ UNCHANGED <<containers, tracker>>
    BY <2>2
  <2>3. CASE /\ containers[c].state # "none"
             /\ containers' = [containers EXCEPT ![c].state = "exited"]
             /\ tracker' = [tracker EXCEPT ![c] = "absent"]
    <3>1. OnlyChanges(c) /\ containers'[c].state = "exited"
      BY <1>0, <2>3, StateChange
    <3> QED
      BY <1>0, <2>3, <3>1 DEF DockerOK, OnlyChanges
  <2> QED
    BY <2>1, <2>2, <2>3 DEF StopFails
<1>2. faults <= faults'
  BY <1>0 DEF StopContainer, StopFails, Fault
<1> QED
  BY <1>1, <1>2 DEF Gentle, Joins, IsReplica

\* A container that is created does not run yet.
LEMMA CreateIsGentle ==
  ASSUME IInv, NEW s2 \in Services, NEW spec2 \in ValidSpec, CreateContainer(s2, spec2)
  PROVE  Gentle
<1>0. DockerOK /\ faults \in Nat
  BY DockerFacts DEF DockerOK
<1>1. /\ OnlyChanges(created + 1) /\ UNCHANGED <<tracker, faults>>
      /\ containers'[created + 1] = [service |-> s2, image |-> spec2.image,
                                     generation |-> spec2.generation, state |-> "created"]
  BY <1>0, CreateContainerStep DEF CreateContainer
<1>2. \A d \in Ids : containers'[d].state = "running" => containers'[d] = containers[d]
  BY <1>1 DEF OnlyChanges
<1> QED
  BY <1>0, <1>1, <1>2 DEF Gentle, Joins, IsReplica

\* A container that begins to run joins the replicas of its service and generation.
LEMMA StartJoins ==
  ASSUME IInv, NEW c \in Ids, containers[c].state = "created",
         containers' = [containers EXCEPT ![c].state = "running"], UNCHANGED tracker
  PROVE  /\ \A s, g : Joins(s, g, {c})
         /\ \A s, g : (containers[c].service # s \/ containers[c].generation # g)
                        => Joins(s, g, {})
<1>1. /\ OnlyChanges(c) /\ containers'[c].service = containers[c].service
      /\ containers'[c].generation = containers[c].generation
  BY DockerFacts, StateChange
<1> QED
  BY <1>1 DEF Joins, IsReplica, OnlyChanges

\* Tracking a container, or not.
LEMMA TrackIsGentle ==
  ASSUME IInv, NEW c \in Ids, TrackContainer(c) \/ PortNotFound(c)
  PROVE  Gentle
<1>0. DockerOK /\ faults \in Nat
  BY DockerFacts DEF DockerOK
<1>1. CASE TrackContainer(c)
  BY <1>0, <1>1 DEF TrackContainer, DockerOK, Gentle, Joins, IsReplica
<1>2. CASE PortNotFound(c)
  BY <1>0, <1>2, NothingJoins DEF PortNotFound
<1> QED
  BY <1>1, <1>2

\* A report, the end of a monitor or of a container, or a late start.
LEMMA EnvironmentIsGentle ==
  ASSUME IInv, NEW c \in Ids, Observed(c) \/ Breaks(c)
  PROVE  Gentle
<1>0. DockerOK /\ faults \in Nat
  BY DockerFacts DEF DockerOK
<1>1. CASE ReportHealthy(c) \/ MonitorEnds(c)
  <2>1. \A d \in Ids : tracker'[d] = "unhealthy" => tracker[d] = "unhealthy"
    BY <1>0, <1>1 DEF ReportHealthy, MonitorEnds, DockerOK
  <2>2. UNCHANGED containers /\ faults <= faults'
    BY <1>0, <1>1 DEF ReportHealthy, MonitorEnds, Fault
  <2> QED
    BY <2>1, <2>2 DEF Gentle, Joins, IsReplica
<1>2. CASE ReportUnhealthy(c)
  <2>1. \A d \in Ids \ {c} : tracker'[d] = "unhealthy" => tracker[d] = "unhealthy"
    BY <1>0, <1>2 DEF ReportUnhealthy, DockerOK
  <2>2. UNCHANGED containers /\ faults' = faults + 1
    BY <1>2 DEF ReportUnhealthy, Fault
  <2> QED
    BY <2>1, <2>2 DEF Gentle, Joins, IsReplica
<1>3. CASE ContainerExits(c)
  <2>1. OnlyChanges(c) /\ containers'[c].state = "exited"
    BY <1>0, <1>3, StateChange DEF ContainerExits
  <2>2. UNCHANGED tracker /\ faults <= faults'
    BY <1>0, <1>3 DEF ContainerExits, Fault
  <2> QED
    BY <2>1, <2>2 DEF Gentle, Joins, IsReplica, OnlyChanges
<1>4. CASE StartsLate(c)
  <2>1. \A s, g : Joins(s, g, {c})
    BY <1>4, StartJoins DEF StartsLate
  <2> QED
    BY <1>4, <2>1 DEF StartsLate, Fault, Gentle
<1> QED
  BY <1>1, <1>2, <1>3, <1>4 DEF Observed, Breaks

-----------------------------------------------------------------------------
(***************************************************************************)
(* What the steps of a pass do to the starts it is still to make.          *)
(***************************************************************************)
CInv == IInv /\ LInv /\ Begun

\* The pass of t goes on as q, which has no more to start, and misses no more, than
\* before.
MovesOn(t, q) ==
  /\ pass' = [pass EXCEPT ![t] = q]
  /\ q.pc # "classify"
  /\ \A s, g : ToStart(q, s, g) \subseteq ToStart(pass[t], s, g)
  /\ \A s : \A r \in Nat : MissesAtMost(pass[t], s, r) => MissesAtMost(q, s, r)

\* A pass that does not act has nothing to start.
LEMMA RestsMovesOn ==
  ASSUME NEW t \in Callers, NEW q, pass' = [pass EXCEPT ![t] = q], q.pc \in {"idle", "next"}
  PROVE  MovesOn(t, q) /\ \A s, g : ToStart(q, s, g) = {}
  BY DEF MovesOn, ToStart, MissesAtMost, Acting

\* So has one that goes on to the next service.
LEMMA AdvanceMovesOn ==
  ASSUME NEW t \in Callers, NEW p, pass' = [pass EXCEPT ![t] = Advance(p)]
  PROVE  MovesOn(t, Advance(p)) /\ \A s, g : ToStart(Advance(p), s, g) = {}
<1>1. Advance(p).pc \in {"idle", "next"}
  BY DEF Advance, IdlePass
<1> QED
  BY <1>1, RestsMovesOn

\* After a start there is one replica less to start.
LEMMA AfterStartMovesOn ==
  ASSUME IInv, NEW t \in Callers, pass[t].pc \in Acting,
         pass' = [pass EXCEPT ![t] = AfterStart(pass[t])]
  PROVE  /\ MovesOn(t, AfterStart(pass[t]))
         /\ \A s, g : pass[t].missing \notin ToStart(AfterStart(pass[t]), s, g)
<1> DEFINE p == pass[t]
<1>0. p \in Pass /\ p.missing \in Int
  BY PassFacts DEF Pass
<1>1. CASE p.outdated # {}
  <2>1. AfterStart(p) = Advance(p)
    BY <1>1 DEF AfterStart
  <2> QED
    BY <2>1, AdvanceMovesOn
<1>2. CASE p.outdated = {}
  <2> DEFINE q == [p EXCEPT !.pc = "act", !.missing = p.missing - 1, !.starting = 0]
  <2>1. AfterStart(p) = q
    BY <1>2 DEF AfterStart
  <2>2. q.pc = "act" /\ q.missing = p.missing - 1 /\ q.service = p.service /\ q.specs = p.specs
    BY <1>0 DEF Pass
  <2> HIDE DEF q
  <2>3. Remaining(q) \subseteq Remaining(p) /\ p.missing \notin Remaining(q)
    BY <1>0, <2>2 DEF Remaining
  <2>4. /\ \A s, g : ToStart(q, s, g) \subseteq ToStart(p, s, g)
        /\ \A s, g : p.missing \notin ToStart(q, s, g)
    BY <2>2, <2>3 DEF ToStart, SpecOf
  <2>5. \A s : \A r \in Nat : MissesAtMost(p, s, r) => MissesAtMost(q, s, r)
    <3> SUFFICES ASSUME NEW s, NEW r \in Nat, MissesAtMost(p, s, r), q.service = s
                 PROVE  q.missing <= r
      BY DEF MissesAtMost
    <3>1. p.missing <= r
      BY <2>2 DEF MissesAtMost
    <3> QED
      BY <1>0, <2>2, <3>1
  <2> QED
    BY <2>1, <2>2, <2>4, <2>5 DEF MovesOn
<1> QED
  BY <1>1, <1>2

\* A pass that acts and keeps its count, or had nothing to start.
LEMMA ActsOn ==
  ASSUME IInv, NEW t \in Callers, NEW q, pass' = [pass EXCEPT ![t] = q],
         pass[t].pc \in Acting, q.pc \in Acting, q.service = pass[t].service,
         q.specs = pass[t].specs,
         \/ q.missing = pass[t].missing /\ pass[t].pc # "track"
         \/ q.missing \in Int /\ q.missing <= 0
  PROVE  MovesOn(t, q)
<1> DEFINE p == pass[t]
<1>0. p.missing \in Int
  BY PassFacts DEF Pass
<1>1. Remaining(q) \subseteq Remaining(p)
  BY <1>0 DEF Remaining, Acting
<1>2. \A s, g : ToStart(q, s, g) \subseteq ToStart(p, s, g)
  BY <1>1 DEF ToStart, SpecOf
<1>3. \A s : \A r \in Nat : MissesAtMost(p, s, r) => MissesAtMost(q, s, r)
  BY <1>0 DEF MissesAtMost
<1> QED
  BY <1>2, <1>3 DEF MovesOn, Acting

\* A step in which the pass of t starts no container.
LEMMA PassIsGentle ==
  ASSUME IInv, NEW t \in Callers, PassStep(t), ~ListRunningContainers(t), ~ReadHealth(t),
         ~Starts(t)
  PROVE  Gentle /\ \E q : MovesOn(t, q)
<1> DEFINE p == pass[t]
<1>0. /\ p \in Pass /\ p.unhealthy \subseteq Ids /\ p.outdated \subseteq Ids
      /\ p.available \subseteq Ids /\ p.missing \in Int
      /\ faults \in Nat
  BY PassFacts, DockerFacts DEF DockerOK, Pass
<1>1. ASSUME UNCHANGED <<containers, tracker>>, faults' = faults \/ Fault PROVE Gentle
  BY <1>0, <1>1, NothingJoins
<1>3. CASE ListFails(t)
  <2>1. Gentle
    BY <1>1, <1>3 DEF ListFails
  <2>2. PICK s : pass' = [pass EXCEPT ![t] = Advance([p EXCEPT !.todo = p.todo \ {s}])]
    BY <1>3 DEF ListFails
  <2> QED
    BY <2>1, <2>2, AdvanceMovesOn
<1>4. CASE ReplaceUnhealthy(t)
  <2>1. PICK c \in Ids : /\ StopContainer(c) \/ StopFails(c)
                         /\ pass' = [pass EXCEPT ![t] = [p EXCEPT !.unhealthy = p.unhealthy \ {c}]]
    BY <1>0, <1>4 DEF ReplaceUnhealthy
  <2> DEFINE q == [p EXCEPT !.unhealthy = p.unhealthy \ {c}]
  <2>2. /\ q.pc = p.pc /\ q.service = p.service /\ q.specs = p.specs /\ q.missing = p.missing
        /\ p.pc = "act"
    BY <1>0, <1>4 DEF Pass, ReplaceUnhealthy
  <2>3. pass' = [pass EXCEPT ![t] = q]
    BY <2>1
  <2> HIDE DEF q
  <2>4. MovesOn(t, q)
    BY <2>2, <2>3, ActsOn DEF Acting
  <2> QED
    BY <2>1, <2>4, StopIsGentle
<1>5. CASE RolloutStop(t)
  <2>1. PICK c \in Ids : StopContainer(c) \/ StopFails(c)
    BY <1>0, <1>5 DEF RolloutStop
  <2> QED
    BY <1>5, <2>1, StopIsGentle, AdvanceMovesOn DEF RolloutStop
<1>6. CASE ScaleDown(t)
  <2>1. PICK c \in Ids : /\ StopContainer(c) \/ StopFails(c)
                         /\ \/ pass' = [pass EXCEPT ![t] =
                                 [p EXCEPT !.missing = p.missing + 1, !.available = p.available \ {c}]]
                            \/ pass' = [pass EXCEPT ![t] = [p EXCEPT !.missing = p.missing + 1]]
    BY <1>0, <1>6 DEF ScaleDown
  <2>2. p.pc = "act" /\ p.missing < 0
    BY <1>6 DEF ScaleDown
  <2>3. ASSUME NEW q, pass' = [pass EXCEPT ![t] = q], q.pc = p.pc, q.missing = p.missing + 1,
               q.service = p.service, q.specs = p.specs
        PROVE  MovesOn(t, q)
    <3>1. q.missing \in Int /\ q.missing <= 0
      BY <1>0, <2>2, <2>3
    <3> QED
      BY <2>2, <2>3, <3>1, ActsOn DEF Acting
  <2> DEFINE q1 == [p EXCEPT !.missing = p.missing + 1, !.available = p.available \ {c}]
             q2 == [p EXCEPT !.missing = p.missing + 1]
  <2>4. /\ q1.pc = p.pc /\ q1.missing = p.missing + 1 /\ q1.service = p.service
        /\ q1.specs = p.specs
        /\ q2.pc = p.pc /\ q2.missing = p.missing + 1 /\ q2.service = p.service
        /\ q2.specs = p.specs
    BY <1>0 DEF Pass
  <2>5. pass' = [pass EXCEPT ![t] = q1] \/ pass' = [pass EXCEPT ![t] = q2]
    BY <2>1
  <2> HIDE DEF q1, q2
  <2>6. \E q : MovesOn(t, q)
    BY <2>3, <2>4, <2>5
  <2> QED
    BY <2>1, <2>6, StopIsGentle
<1>7. CASE EndService(t)
  <2>1. Gentle
    BY <1>1, <1>7 DEF EndService
  <2> QED
    BY <1>7, <2>1, AdvanceMovesOn DEF EndService
<1>8. CASE CreateReplica(t)
  <2>1. /\ p.pc = "act" /\ p.pc \in Acting /\ p.service \in Services /\ SpecOf(p) \in ValidSpec
    BY <1>8, PassFacts DEF CreateReplica, Working, Acting
  <2>2. CASE /\ CreateContainer(p.service, SpecOf(p))
             /\ pass' = [pass EXCEPT ![t] = [p EXCEPT !.pc = "start", !.starting = created + 1]]
    <3> DEFINE q == [p EXCEPT !.pc = "start", !.starting = created + 1]
    <3>1. /\ q.pc = "start" /\ q.service = p.service /\ q.specs = p.specs
          /\ q.missing = p.missing
      BY <1>0 DEF Pass
    <3>2. pass' = [pass EXCEPT ![t] = q]
      BY <2>2
    <3> HIDE DEF q
    <3>3. MovesOn(t, q)
      BY <2>1, <3>1, <3>2, ActsOn DEF Acting
    <3> QED
      BY <2>1, <2>2, <3>3, CreateIsGentle
  <2>3. CASE CreateFails /\ pass' = [pass EXCEPT ![t] = AfterStart(p)]
    BY <1>1, <2>1, <2>3, AfterStartMovesOn DEF CreateFails
  <2> QED
    BY <1>8, <2>2, <2>3 DEF CreateReplica
<1>9. CASE StartReplica(t)
  <2>1. StartFails /\ pass' = [pass EXCEPT ![t] = AfterStart(p)] /\ p.pc \in Acting
    BY <1>9 DEF StartReplica, Starts, Acting
  <2> QED
    BY <1>1, <2>1, AfterStartMovesOn DEF StartFails
<1>10. CASE TrackReplica(t)
  <2>1. /\ TrackContainer(p.starting) \/ PortNotFound(p.starting)
        /\ pass' = [pass EXCEPT ![t] = AfterStart(p)] /\ p.pc \in Acting /\ p.starting \in Ids
    BY <1>10, PassFacts DEF TrackReplica, Acting
  <2> QED
    BY <2>1, TrackIsGentle, AfterStartMovesOn
<1>11. CASE TrackPanics(t)
  <2>1. Gentle
    BY <1>1, <1>11 DEF TrackPanics
  <2>2. MovesOn(t, IdlePass)
    BY <1>11, IdleType, RestsMovesOn DEF TrackPanics
  <2> QED
    BY <2>1, <2>2
<1> QED
  BY <1>3, <1>4, <1>5, <1>6, <1>7, <1>8, <1>9, <1>10, <1>11 DEF PassStep

\* A step that starts a replica has one less to start.
LEMMA PassStarts ==
  ASSUME CInv, NEW t \in Callers, Starts(t), NEW s, NEW g
  PROVE  /\ faults' = faults
         /\ \E q : /\ MovesOn(t, q)
                   /\ \/ Joins(s, g, {})
                      \/ /\ \E c \in Ids : Joins(s, g, {c})
                         /\ pass[t].missing \in ToStart(pass[t], s, g)
                         /\ pass[t].missing \notin ToStart(q, s, g)
<1> DEFINE p == pass[t]
           c == p.starting
           q == [p EXCEPT !.pc = "track"]
<1>0. /\ IInv /\ p \in Pass /\ p.missing \in Int /\ p.missing > 0 /\ p.pc = "start" /\ c \in Ids
  BY PassFacts DEF CInv, LInv, Sorted, Pass, Starts, StartReplica
<1>1. /\ containers[c].state = "created" /\ containers[c].state # "none"
      /\ containers' = [containers EXCEPT ![c].state = "running"]
      /\ UNCHANGED <<tracker, faults>>
  BY DEF Starts, StartContainer
<1>2. /\ containers[c].service = p.service /\ containers[c].generation = SpecOf(p).generation
  BY <1>0, <1>1 DEF CInv, Begun
<1>3. pass' = [pass EXCEPT ![t] = q]
  <2>1. containers'[c].state = "running"
    BY <1>0, <1>1, DockerFacts, StateChange
  <2> QED
    BY <1>1, <2>1 DEF Starts, StartReplica, StartFails
<1>4. q.pc = "track" /\ q.service = p.service /\ q.specs = p.specs /\ q.missing = p.missing
  BY <1>0 DEF Pass
<1> HIDE DEF q
<1>5. Remaining(q) \subseteq Remaining(p) /\ p.missing \notin Remaining(q) /\ p.missing \in Remaining(p)
  BY <1>0, <1>4 DEF Remaining
<1>6. MovesOn(t, q)
  <2>1. \A x, y : ToStart(q, x, y) \subseteq ToStart(p, x, y)
    BY <1>0, <1>4, <1>5 DEF ToStart, SpecOf, Acting
  <2>2. \A x : \A r \in Nat : MissesAtMost(p, x, r) => MissesAtMost(q, x, r)
    BY <1>0, <1>4 DEF MissesAtMost, Acting
  <2> QED
    BY <1>3, <1>4, <2>1, <2>2 DEF MovesOn
<1>7. CASE p.service = s /\ SpecOf(p).generation = g
  <2>1. p.missing \in ToStart(p, s, g) /\ p.missing \notin ToStart(q, s, g)
    BY <1>0, <1>4, <1>5, <1>7 DEF ToStart, Acting
  <2>2. Joins(s, g, {c})
    BY <1>0, <1>1, StartJoins
  <2> QED
    BY <1>0, <1>1, <1>6, <2>1, <2>2
<1>8. CASE p.service # s \/ SpecOf(p).generation # g
  <2>1. Joins(s, g, {})
    BY <1>0, <1>1, <1>2, <1>8, StartJoins
  <2> QED
    BY <1>1, <1>6, <2>1
<1> QED
  BY <1>7, <1>8


\* Listing: the replicas of the generation are all taken on the list.
LEMMA PassLists ==
  ASSUME IInv, LInv, NEW t \in Callers, ListRunningContainers(t)
  PROVE  /\ UNCHANGED <<services, containers, created, tracker, faults>>
         /\ pass[t].pc = "next"
         /\ \E x \in Services : \E q \in Pass :
              /\ pass' = [pass EXCEPT ![t] = q]
              /\ q.pc \in {"classify", "act"} /\ q.service = x /\ q.specs = pass[t].specs
              /\ \A c \in Ids : IsReplica(c, x, SpecOf(q).generation) => c \in Taken(q)
              /\ q.pc = "act" =>
                   Taken(q) = {} /\ q.missing = SpecOf(q).replicas
                   /\ SpecOf(q) \in ValidSpec
<1> DEFINE p == pass[t]
           old(s) == {c \in Matching(s) : containers[c].generation # p.specs[s].generation}
           n(s) == [p EXCEPT !.pc = "classify", !.service = s, !.todo = p.todo \ {s},
                             !.outdated = old(s), !.seen = Matching(s) \ old(s)]
<1>1. PICK s \in p.todo : pass' = [pass EXCEPT ![t] = Counted(n(s))]
  BY DEF ListRunningContainers
<1>2. old(s) \in SUBSET Ids /\ Matching(s) \in SUBSET Ids
  BY DEF Matching, Running
<1>3. /\ p \in Pass /\ WorksOnSpecs(p) /\ s \in Services /\ Found(p.specs, s)
      /\ p.available = {} /\ p.pc = "next"
  BY PassFacts DEF Pass, LInv, Sorted, Listed, ListRunningContainers
<1> DEFINE m == n(s)
<1>4. /\ m \in Pass /\ m.pc = "classify" /\ m.specs = p.specs /\ m.service = s
      /\ m.todo = p.todo \ {s} /\ m.seen = Matching(s) \ old(s) /\ m.available = {}
  BY <1>2, <1>3 DEF Pass
<1>5. \A c \in Ids : IsReplica(c, s, p.specs[s].generation) => c \in Matching(s) \ old(s)
  BY <1>3, DeployerAssumption DEF IsReplica, Matching, Running
<1> HIDE DEF n
<1> DEFINE q == Counted(m)
<1>6. WorksOnSpecs(m)
  BY <1>3, <1>4 DEF WorksOnSpecs
<1>7. /\ q \in Pass /\ q.pc \in {"classify", "act"} /\ q.service = s /\ q.specs = p.specs
      /\ q.seen = Matching(s) \ old(s) /\ q.available = {}
      /\ q.pc = "act" => q.seen = {} /\ q.missing = SpecOf(m).replicas - Cardinality(q.available)
  BY <1>4, <1>6, CountedType
<1>8. pass' = [pass EXCEPT ![t] = q]
  BY <1>1
<1> HIDE DEF q, m, old
<1>9. SpecOf(q) = p.specs[s] /\ SpecOf(m) = p.specs[s] /\ p.specs[s] \in ValidSpec
  <2>1. p.specs \in Store
    BY <1>3 DEF Pass
  <2> QED
    BY <1>3, <1>4, <1>7, <2>1, FoundGeneration DEF SpecOf
<1>10. \A c \in Ids : IsReplica(c, s, SpecOf(q).generation) => c \in Taken(q)
  BY <1>5, <1>7, <1>9 DEF Taken
<1>11. q.pc = "act" => Taken(q) = {} /\ q.missing = SpecOf(q).replicas
  <2>1. Cardinality({}) = 0
    BY FS_EmptySet
  <2> QED
    BY <1>7, <1>9, <2>1 DEF Taken, ValidSpec
<1>12. UNCHANGED <<services, containers, created, tracker, faults>>
  BY DEF ListRunningContainers
<1> QED
  BY <1>3, <1>7, <1>8, <1>9, <1>10, <1>11, <1>12

\* Reading a report: only a sick container is no longer taken.
LEMMA PassReads ==
  ASSUME IInv, LInv, NEW t \in Callers, ReadHealth(t)
  PROVE  /\ UNCHANGED <<services, containers, created, tracker, faults>>
         /\ pass[t].pc = "classify" /\ SpecOf(pass[t]) \in ValidSpec
         /\ pass[t].service \in Services
         /\ \E q \in Pass :
              /\ pass' = [pass EXCEPT ![t] = q]
              /\ q.pc \in {"classify", "act"} /\ q.service = pass[t].service
              /\ q.specs = pass[t].specs
              /\ \A c \in Taken(pass[t]) : c \in Taken(q) \/ tracker[c] = "unhealthy"
              /\ q.pc = "act" => /\ Taken(q) = q.available
                                 /\ q.missing = SpecOf(q).replicas - Cardinality(q.available)
<1> DEFINE p == pass[t]
<1>1. PICK c \in p.seen :
        LET q == [p EXCEPT !.seen = p.seen \ {c}] IN
        pass' = [pass EXCEPT ![t] = Counted(
             IF tracker[c] = "unhealthy"
             THEN [q EXCEPT !.unhealthy = p.unhealthy \cup {c}]
             ELSE [q EXCEPT !.available = p.available \cup {c}])]
  BY DEF ReadHealth
<1> DEFINE q0 == [p EXCEPT !.seen = p.seen \ {c}]
           q1 == [q0 EXCEPT !.unhealthy = p.unhealthy \cup {c}]
           q2 == [q0 EXCEPT !.available = p.available \cup {c}]
<1>2. p \in Pass /\ WorksOnSpecs(p) /\ p.pc = "classify" /\ c \in Ids
      /\ SpecOf(p) \in ValidSpec /\ p.service \in Services
  BY PassFacts DEF ReadHealth, Pass, Working
<1>3. p.seen \ {c} \in SUBSET Ids /\ p.unhealthy \cup {c} \in SUBSET Ids
      /\ p.available \cup {c} \in SUBSET Ids
  BY <1>2 DEF Pass
<1>4. ASSUME NEW n \in Pass, n.pc = "classify", n.specs = p.specs, n.service = p.service,
             n.todo = p.todo, n.seen = p.seen \ {c},
             \/ tracker[c] = "unhealthy" /\ n.available = p.available
             \/ n.available = p.available \cup {c},
             pass' = [pass EXCEPT ![t] = Counted(n)]
      PROVE  \E q \in Pass :
              /\ pass' = [pass EXCEPT ![t] = q]
              /\ q.pc \in {"classify", "act"} /\ q.service = p.service
              /\ q.specs = p.specs
              /\ \A d \in Taken(p) : d \in Taken(q) \/ tracker[d] = "unhealthy"
              /\ q.pc = "act" => /\ Taken(q) = q.available
                                 /\ q.missing = SpecOf(q).replicas - Cardinality(q.available)
  <2>1. WorksOnSpecs(n)
    BY <1>2, <1>4 DEF WorksOnSpecs
  <2> DEFINE q == Counted(n)
  <2>2. /\ q \in Pass /\ q.pc \in {"classify", "act"} /\ q.service = p.service
        /\ q.specs = p.specs /\ q.seen = n.seen /\ q.available = n.available
        /\ q.pc = "act" => q.seen = {} /\ q.missing = SpecOf(n).replicas - Cardinality(q.available)
    BY <1>4, <2>1, CountedType
  <2>3. SpecOf(q) = SpecOf(n)
    BY <1>4, <2>2 DEF SpecOf
  <2>4. pass' = [pass EXCEPT ![t] = q]
    BY <1>4
  <2> HIDE DEF q
  <2>5. \A d \in Taken(p) : d \in Taken(q) \/ tracker[d] = "unhealthy"
    BY <1>4, <2>2 DEF Taken
  <2>6. q.pc = "act" => Taken(q) = q.available
    BY <2>2 DEF Taken
  <2> QED
    BY <2>2, <2>3, <2>4, <2>5, <2>6
<1>5. /\ q1 \in Pass /\ q1.pc = "classify" /\ q1.specs = p.specs /\ q1.service = p.service
      /\ q1.todo = p.todo /\ q1.seen = p.seen \ {c} /\ q1.available = p.available
  BY <1>2, <1>3 DEF Pass
<1>6. /\ q2 \in Pass /\ q2.pc = "classify" /\ q2.specs = p.specs /\ q2.service = p.service
      /\ q2.todo = p.todo /\ q2.seen = p.seen \ {c} /\ q2.available = p.available \cup {c}
  BY <1>2, <1>3 DEF Pass
<1>7. \/ tracker[c] = "unhealthy" /\ pass' = [pass EXCEPT ![t] = Counted(q1)]
      \/ pass' = [pass EXCEPT ![t] = Counted(q2)]
  BY <1>1
<1>8. UNCHANGED <<services, containers, created, tracker, faults>>
  BY DEF ReadHealth
<1> HIDE DEF q1, q2
<1>9. \E q \in Pass :
              /\ pass' = [pass EXCEPT ![t] = q]
              /\ q.pc \in {"classify", "act"} /\ q.service = p.service
              /\ q.specs = p.specs
              /\ \A d \in Taken(p) : d \in Taken(q) \/ tracker[d] = "unhealthy"
              /\ q.pc = "act" => /\ Taken(q) = q.available
                                 /\ q.missing = SpecOf(q).replicas - Cardinality(q.available)
  BY <1>4, <1>5, <1>6, <1>7
<1> QED
  BY <1>2, <1>8, <1>9

\* What a step of the pass of t does to the container it is starting.
LEMMA StartingStep ==
  ASSUME IInv, LInv, NEW t \in Callers, PassStep(t)
  PROVE  \/ pass'[t].pc \notin {"start", "track"}
         \/ /\ pass[t].pc \in {"start", "track"}
            /\ pass'[t].starting = pass[t].starting /\ pass'[t].service = pass[t].service
            /\ SpecOf(pass'[t]) = SpecOf(pass[t])
         \/ /\ Creates(t) /\ pass'[t].starting = created + 1
            /\ pass'[t].service = pass[t].service /\ SpecOf(pass'[t]) = SpecOf(pass[t])
<1> DEFINE p == pass[t]
<1>0. p \in Pass /\ pass \in [Callers -> Pass]
  BY PassFacts DEF IInv, TypeOK
<1>1. \A x : Advance(x).pc \notin {"start", "track"}
  BY DEF Advance, IdlePass
<1>2. ASSUME pass' = [pass EXCEPT ![t] = AfterStart(p)] PROVE pass'[t].pc \notin {"start", "track"}
  <2>1. [p EXCEPT !.pc = "act", !.missing = p.missing - 1, !.starting = 0].pc = "act"
    BY <1>0 DEF Pass
  <2>2. AfterStart(p).pc \notin {"start", "track"}
    BY <1>1, <2>1 DEF AfterStart
  <2> QED
    BY <1>0, <1>2, <2>2
<1>3. CASE ListRunningContainers(t) \/ ReadHealth(t)
  <2>1. \E q \in Pass : pass' = [pass EXCEPT ![t] = q] /\ q.pc \in {"classify", "act"}
    BY <1>3, PassLists, PassReads
  <2> QED
    BY <1>0, <2>1
<1>4. CASE ListFails(t)
  <2>1. PICK x : pass' = [pass EXCEPT ![t] = Advance(x)]
    BY <1>4 DEF ListFails
  <2> QED
    BY <1>0, <1>1, <2>1
<1>5. CASE RolloutStop(t) \/ EndService(t)
  <2>1. pass' = [pass EXCEPT ![t] = Advance(p)]
    BY <1>5 DEF RolloutStop, EndService
  <2> QED
    BY <1>0, <1>1, <2>1
<1>6. CASE ReplaceUnhealthy(t) \/ ScaleDown(t)
  <2>1. /\ p.pc = "act"
        /\ \/ \E U : pass' = [pass EXCEPT ![t] = [p EXCEPT !.unhealthy = U]]
           \/ \E A : pass' = [pass EXCEPT ![t] =
                 [p EXCEPT !.missing = p.missing + 1, !.available = A]]
           \/ pass' = [pass EXCEPT ![t] = [p EXCEPT !.missing = p.missing + 1]]
    BY <1>6 DEF ReplaceUnhealthy, ScaleDown
  <2>2. /\ \A U : [p EXCEPT !.unhealthy = U].pc = p.pc
        /\ \A A : [p EXCEPT !.missing = p.missing + 1, !.available = A].pc = p.pc
        /\ [p EXCEPT !.missing = p.missing + 1].pc = p.pc
    BY <1>0 DEF Pass
  <2>3. pass'[t].pc = "act"
    BY <1>0, <2>1, <2>2
  <2> QED
    BY <2>3
<1>7. CASE CreateReplica(t)
  <2> DEFINE q == [p EXCEPT !.pc = "start", !.starting = created + 1]
  <2>1. CASE CreateContainer(p.service, SpecOf(p)) /\ pass' = [pass EXCEPT ![t] = q]
    <3>1. q.starting = created + 1 /\ q.service = p.service /\ q.specs = p.specs
      BY <1>0 DEF Pass
    <3>2. pass'[t] = q
      BY <1>0, <2>1
    <3> HIDE DEF q
    <3> QED
      BY <1>7, <2>1, <3>1, <3>2 DEF Creates, SpecOf
  <2>2. CASE pass' = [pass EXCEPT ![t] = AfterStart(p)]
    BY <1>2, <2>2
  <2> QED
    BY <1>7, <2>1, <2>2 DEF CreateReplica
<1>8. CASE StartReplica(t)
  <2> DEFINE q == [p EXCEPT !.pc = "track"]
  <2>1. CASE pass' = [pass EXCEPT ![t] = q]
    <3>1. q.starting = p.starting /\ q.service = p.service /\ q.specs = p.specs
      BY <1>0 DEF Pass
    <3>2. pass'[t] = q /\ p.pc = "start"
      BY <1>0, <1>8, <2>1 DEF StartReplica
    <3> HIDE DEF q
    <3> QED
      BY <3>1, <3>2 DEF SpecOf
  <2>2. CASE pass' = [pass EXCEPT ![t] = AfterStart(p)]
    BY <1>2, <2>2
  <2> QED
    BY <1>8, <2>1, <2>2 DEF StartReplica
<1>9. CASE TrackReplica(t)
  BY <1>2, <1>9 DEF TrackReplica
<1>10. CASE TrackPanics(t)
  BY <1>0, <1>10, IdleType DEF TrackPanics
<1> QED
  BY <1>3, <1>4, <1>5, <1>6, <1>7, <1>8, <1>9, <1>10 DEF PassStep

\* How a step changes the passes, and who takes it.
LEMMA PassesMove ==
  ASSUME IInv, [ControlPlaneNext]_allVars
  PROVE  \/ UNCHANGED pass
         \/ \E t \in Callers : BeginPass(t)
         \/ \E t \in Callers : Reconcile(t)
         \/ Restart \/ BootFails
<1>1. ASSUME NEW t \in Handlers, Serve(t) PROVE UNCHANGED pass \/ BeginPass(t)
  BY <1>1 DEF Serve, Save, SaveFails, ListVictims, ListVictimsFails, StopVictim, ReconcileNow, vars
<1>2. ASSUME NEW t \in Handlers,
             UpsertService(t) \/ ScaleService(t) \/ RestartService(t) \/ DeleteService(t)
      PROVE  UNCHANGED pass
  BY <1>2, RequestStep, AskedType DEF IInv, TypeOK
<1>3. CASE \E c \in Ids : Observed(c) \/ Breaks(c)
  BY <1>3, EnvironmentType
<1>4. CASE LoopTurn
  BY <1>4, DeployerAssumption DEF LoopTurn
<1> QED
  BY <1>1, <1>2, <1>3, <1>4 DEF ControlPlaneNext, Handlers, allVars, vars

\* What a pass starts stays of its service and generation.
LEMMA BegunNext == CInv /\ [ControlPlaneNext]_allVars => Begun'
<1> SUFFICES ASSUME CInv, [ControlPlaneNext]_allVars, NEW t \in Callers,
                    pass'[t].pc \in {"start", "track"},
                    containers'[pass'[t].starting].state # "none"
             PROVE  /\ containers'[pass'[t].starting].service = pass'[t].service
                    /\ containers'[pass'[t].starting].generation = SpecOf(pass'[t]).generation
  BY DEF Begun, SpecOf
<1> USE DEF CInv
<1>0. pass \in [Callers -> Pass]
  BY DEF IInv, TypeOK
<1>1. ASSUME pass[t].pc \in {"start", "track"}, pass'[t].starting = pass[t].starting,
             pass'[t].service = pass[t].service, SpecOf(pass'[t]) = SpecOf(pass[t])
      PROVE  /\ containers'[pass'[t].starting].service = pass'[t].service
             /\ containers'[pass'[t].starting].generation = SpecOf(pass'[t]).generation
  <2>1. pass[t].starting \in Ids /\ pass[t].starting <= created
    BY <1>1, PassFacts DEF LInv, Familiar
  <2>2. Ages(pass[t].starting)
    BY <2>1, ContainersAge
  <2> QED
    BY <1>1, <2>2 DEF Ages, Begun
<1>2. ASSUME Creates(t), pass'[t].starting = created + 1, pass'[t].service = pass[t].service,
             SpecOf(pass'[t]) = SpecOf(pass[t])
      PROVE  /\ containers'[pass'[t].starting].service = pass'[t].service
             /\ containers'[pass'[t].starting].generation = SpecOf(pass'[t]).generation
  <2>1. pass[t].service \in Services /\ SpecOf(pass[t]) \in ValidSpec
    BY <1>2, PassFacts DEF Creates, CreateReplica, Working
  <2>2. CreateContainer(pass[t].service, SpecOf(pass[t])) /\ DockerOK
    BY <1>2, DockerFacts DEF Creates
  <2>3. containers'[created + 1] = [service |-> pass[t].service, image |-> SpecOf(pass[t]).image,
                                    generation |-> SpecOf(pass[t]).generation,
                                    state |-> "created"]
    BY <2>1, <2>2, CreateContainerStep
  <2> QED
    BY <1>2, <2>3
<1>3. CASE pass'[t] = pass[t]
  BY <1>1, <1>3
<1>4. ASSUME NEW u \in Callers, Reconcile(u)
      PROVE  pass'[t] = pass[t] \/ (u = t /\ PassStep(t))
  <2>1. \E q : pass' = [pass EXCEPT ![u] = q]
    BY <1>4, ReconcileType DEF StepOK, PassMoves
  <2> QED
    BY <1>0, <1>4, <2>1 DEF Reconcile
<1>5. ASSUME NEW u \in Callers, BeginPass(u) PROVE pass'[t] = pass[t]
  BY <1>0, <1>5, BeginPassStep
<1>6. ~Restart /\ ~BootFails
  BY CrashType, IdleType
<1>7. CASE PassStep(t)
  BY <1>1, <1>2, <1>7, StartingStep
<1> QED
  BY <1>3, <1>4, <1>5, <1>6, <1>7, PassesMove

\* The invariant the counting rests on.
LEMMA CInit == ControlPlaneInit => CInv
<1>1. ControlPlaneInit => Begun
  BY DEF ControlPlaneInit, Init, Begun, IdlePass
<1> QED
  BY <1>1, InitOK, LInit DEF CInv

\* Every step keeps it.
LEMMA CNext == CInv /\ [ControlPlaneNext]_allVars => CInv'
  BY NextOK, LNext, BegunNext DEF CInv

-----------------------------------------------------------------------------
(***************************************************************************)
(* Counting.                                                               *)
(***************************************************************************)
\* A subset of a finite set is finite, and no larger.
LEMMA Fewer ==
  ASSUME NEW T, IsFiniteSet(T), NEW S, S \subseteq T
  PROVE  /\ IsFiniteSet(S) /\ Cardinality(S) \in Nat /\ Cardinality(T) \in Nat
         /\ Cardinality(S) <= Cardinality(T)
  BY FS_Subset, FS_CardinalityType

\* A union is not larger than its parts together.
LEMMA Together ==
  ASSUME NEW S, IsFiniteSet(S), NEW T, IsFiniteSet(T), NEW A, A \subseteq S \cup T
  PROVE  /\ Cardinality(A) \in Nat /\ Cardinality(S) \in Nat /\ Cardinality(T) \in Nat
         /\ Cardinality(A) <= Cardinality(S) + Cardinality(T)
<1>1. IsFiniteSet(S \cup T)
      /\ Cardinality(S \cup T) = Cardinality(S) + Cardinality(T) - Cardinality(S \cap T)
  BY FS_Union
<1>2. Cardinality(S) \in Nat /\ Cardinality(T) \in Nat /\ Cardinality(S \cap T) \in Nat
  <2>1. S \cap T \subseteq S
    OBVIOUS
  <2> QED
    BY <2>1, Fewer, FS_CardinalityType
<1>3. Cardinality(A) \in Nat /\ Cardinality(A) <= Cardinality(S \cup T)
  BY <1>1, Fewer
<1> QED
  BY <1>1, <1>2, <1>3

\* What is unseen is a set of containers.
LEMMA UnseenFinite ==
  ASSUME NEW s, NEW g, NEW Q
  PROVE  /\ Unseen(s, g, Q) \in SUBSET Ids /\ IsFiniteSet(Unseen(s, g, Q))
         /\ Unseen(s, g, Q)' \in SUBSET Ids /\ IsFiniteSet(Unseen(s, g, Q)')
<1>1. Unseen(s, g, Q) \in SUBSET Ids /\ Unseen(s, g, Q)' \in SUBSET Ids
  BY DEF Unseen
<1> QED
  BY <1>1, CountType

\* The room that the callers outside Q have.
LEMMA Room ==
  ASSUME IsFiniteSet(Callers), NEW Q \in SUBSET Callers, NEW r \in Nat
  PROVE  /\ IsFiniteSet((Callers \ Q) \X (1 .. r))
         /\ Cardinality((Callers \ Q) \X (1 .. r)) = (Cardinality(Callers) - Cardinality(Q)) * r
         /\ (Cardinality(Callers) - Cardinality(Q)) * r \in Nat
         /\ Cardinality(Callers) \in Nat /\ Cardinality(Q) \in Nat
         /\ Cardinality(Q) <= Cardinality(Callers)
<1>1. /\ Cardinality(Callers) \in Nat /\ Cardinality(Q) \in Nat
      /\ Cardinality(Q) <= Cardinality(Callers)
  BY Fewer
<1>2. IsFiniteSet(Callers \ Q) /\ Cardinality(Callers \ Q) = Cardinality(Callers) - Cardinality(Q)
  <2>1. Callers \cap Q = Q
    OBVIOUS
  <2> QED
    BY <2>1, FS_Difference
<1>3. IsFiniteSet(1 .. r) /\ Cardinality(1 .. r) = r
  BY FS_Interval
<1>4. /\ IsFiniteSet((Callers \ Q) \X (1 .. r))
      /\ Cardinality((Callers \ Q) \X (1 .. r)) = (Cardinality(Callers) - Cardinality(Q)) * r
  BY <1>2, <1>3, FS_Product
<1>5. Cardinality((Callers \ Q) \X (1 .. r)) \in Nat
  BY <1>4, FS_CardinalityType
<1> QED
  BY <1>1, <1>4, <1>5

\* A caller is to start no more than the ceiling.
LEMMA StartsBound ==
  ASSUME IsFiniteSet(Callers), NEW Q \in SUBSET Callers, NEW r \in Nat, NEW ps, NEW s, NEW g,
         \A t \in Callers : ps[t].missing \in Int /\ MissesAtMost(ps[t], s, r)
  PROVE  /\ IsFiniteSet(AllToStart(ps, s, g, Q))
         /\ Cardinality(AllToStart(ps, s, g, Q)) \in Nat
         /\ Cardinality(AllToStart(ps, s, g, Q)) <= (Cardinality(Callers) - Cardinality(Q)) * r
<1>1. \A t \in Callers : ToStart(ps[t], s, g) \subseteq 1 .. r
  BY DEF ToStart, Remaining, MissesAtMost
<1>2. AllToStart(ps, s, g, Q) \subseteq (Callers \ Q) \X (1 .. r)
  BY <1>1 DEF AllToStart
<1> HIDE DEF AllToStart
<1>3. IsFiniteSet((Callers \ Q) \X (1 .. r))
  BY Room
<1>4. /\ IsFiniteSet(AllToStart(ps, s, g, Q))
      /\ Cardinality(AllToStart(ps, s, g, Q)) \in Nat
      /\ Cardinality(AllToStart(ps, s, g, Q)) <= Cardinality((Callers \ Q) \X (1 .. r))
  BY <1>2, <1>3, Fewer
<1> QED
  BY <1>4, Room

\* In particular below a ceiling.
LEMMA CeilingBounds ==
  ASSUME CInv, IsFiniteSet(Callers), NEW s \in Services, NEW r \in Nat, Ceiling(s, r), NEW g,
         NEW Q \in SUBSET Callers
  PROVE  /\ IsFiniteSet(AllToStart(pass, s, g, Q))
         /\ Cardinality(AllToStart(pass, s, g, Q)) \in Nat
         /\ Cardinality(AllToStart(pass, s, g, Q)) <= (Cardinality(Callers) - Cardinality(Q)) * r
<1>1. \A t \in Callers : pass[t].missing \in Int /\ MissesAtMost(pass[t], s, r)
  BY PassFacts DEF CInv, Ceiling, Pass
<1> QED
  BY <1>1, StartsBound

\* A pass that starts no more than it did adds nothing.
LEMMA StartsShrink ==
  ASSUME NEW t \in Callers, NEW q, pass \in [Callers -> Pass], pass' = [pass EXCEPT ![t] = q],
         NEW s, NEW g, ToStart(q, s, g) \subseteq ToStart(pass[t], s, g), NEW Q
  PROVE  AllToStart(pass', s, g, Q) \subseteq AllToStart(pass, s, g, Q)
<1>1. \A u \in Callers : ToStart(pass'[u], s, g) \subseteq ToStart(pass[u], s, g)
  OBVIOUS
<1> QED
  BY <1>1 DEF AllToStart

\* A start that is no longer to be made.
LEMMA StartsLose ==
  ASSUME NEW t \in Callers, NEW q, pass \in [Callers -> Pass], pass' = [pass EXCEPT ![t] = q],
         NEW s, NEW g, NEW Q, t \notin Q,
         NEW k, k \in ToStart(pass[t], s, g), k \notin ToStart(q, s, g)
  PROVE  /\ <<t, k>> \in AllToStart(pass, s, g, Q)
         /\ <<t, k>> \notin AllToStart(pass', s, g, Q)
<1>1. pass'[t] = q
  OBVIOUS
<1>2. <<t, k>> \in {t} \X ToStart(pass[t], s, g)
  OBVIOUS
<1>3. <<t, k>> \in AllToStart(pass, s, g, Q)
  BY <1>2 DEF AllToStart
<1>4. ASSUME <<t, k>> \in AllToStart(pass', s, g, Q) PROVE FALSE
  <2>1. PICK u \in Callers \ Q : <<t, k>> \in {u} \X ToStart(pass'[u], s, g)
    BY <1>4 DEF AllToStart
  <2>2. u = t /\ k \in ToStart(pass'[u], s, g)
    BY <2>1
  <2> QED
    BY <1>1, <2>2
<1> QED
  BY <1>3, <1>4

\* What is unseen grows by what joins.
LEMMA UnseenJoins ==
  ASSUME NEW s, NEW g, NEW X, Joins(s, g, X), NEW Q, \A q \in Q : pass'[q] = pass[q]
  PROVE  Unseen(s, g, Q)' \subseteq Unseen(s, g, Q) \cup X
  BY DEF Unseen, Joins

\* A step keeps the bound when what joins the unseen costs a fault or one of the
\* starts that were to be made.
LEMMA FitsKept ==
  ASSUME IInv, [ControlPlaneNext]_allVars, NEW s, NEW g, NEW r \in Nat, IsFiniteSet(Callers),
         NEW Q \in SUBSET Callers, Fits(s, g, Q, r),
         IsFiniteSet(AllToStart(pass, s, g, Q)),
         AllToStart(pass', s, g, Q) \subseteq AllToStart(pass, s, g, Q),
         \/ Unseen(s, g, Q)' \subseteq Unseen(s, g, Q)
         \/ \E c \in Ids :
              /\ Unseen(s, g, Q)' \subseteq Unseen(s, g, Q) \cup {c}
              /\ \/ faults' = faults + 1
                 \/ \E x \in AllToStart(pass, s, g, Q) : x \notin AllToStart(pass', s, g, Q)
  PROVE  Fits(s, g, Q, r)'
<1> DEFINE U == Unseen(s, g, Q)
           V == Unseen(s, g, Q)'
           S == AllToStart(pass, s, g, Q)
           T == AllToStart(pass', s, g, Q)
           room == (Cardinality(Callers) - Cardinality(Q)) * r
<1>1. Cardinality(U) \in Nat /\ Cardinality(V) \in Nat /\ U \in SUBSET Ids
  BY UnseenFinite, FS_CardinalityType
<1>2. Cardinality(S) \in Nat /\ Cardinality(T) \in Nat /\ Cardinality(T) <= Cardinality(S)
  BY Fewer
<1>3. faults \in Nat /\ faults' \in Nat /\ faults <= faults'
  BY FaultsGrow
<1>4. room \in Nat
  BY Room
<1>5. Cardinality(U) + Cardinality(S) <= room + faults
  BY DEF Fits
<1>6. ASSUME V \subseteq U PROVE Cardinality(V) <= Cardinality(U)
  <2> HIDE DEF U, V
  <2> QED
    BY <1>1, <1>6, NotLarger
<1>7. ASSUME NEW c \in Ids, V \subseteq U \cup {c} PROVE Cardinality(V) <= Cardinality(U) + 1
  <2> HIDE DEF U, V
  <2> QED
    BY <1>1, <1>7, OneMore
<1>8. ASSUME NEW x \in S, x \notin T PROVE Cardinality(T) <= Cardinality(S) - 1
  <2>1. T \subseteq S \ {x} /\ IsFiniteSet(S)
    BY <1>8
  <2> HIDE DEF S, T
  <2>2. IsFiniteSet(S \ {x}) /\ Cardinality(S \ {x}) = Cardinality(S) - 1
    BY <1>8, <2>1, FS_RemoveElement
  <2> QED
    BY <2>1, <2>2, Fewer
<1>9. Cardinality(V) + Cardinality(T) <= room + faults'
  <2>1. \/ V \subseteq U
        \/ \E c \in Ids : V \subseteq U \cup {c} /\ (faults' = faults + 1 \/ \E x \in S : x \notin T)
    OBVIOUS
  <2> HIDE DEF U, V, S, T, room
  <2>2. CASE V \subseteq U
    BY <1>1, <1>2, <1>3, <1>4, <1>5, <1>6, <2>2
  <2>3. ASSUME NEW c \in Ids, V \subseteq U \cup {c}, faults' = faults + 1
        PROVE  Cardinality(V) + Cardinality(T) <= room + faults'
    <3>1. Cardinality(V) <= Cardinality(U) + 1
      BY <1>7, <2>3
    <3> QED
      BY <1>1, <1>2, <1>3, <1>4, <1>5, <2>3, <3>1
  <2>4. ASSUME NEW c \in Ids, V \subseteq U \cup {c}, NEW x \in S, x \notin T
        PROVE  Cardinality(V) + Cardinality(T) <= room + faults'
    <3>1. Cardinality(V) <= Cardinality(U) + 1
      BY <1>7, <2>4
    <3>2. Cardinality(T) <= Cardinality(S) - 1
      BY <1>8, <2>4
    <3> QED
      BY <1>1, <1>2, <1>3, <1>4, <1>5, <3>1, <3>2
  <2> QED
    BY <2>1, <2>2, <2>3, <2>4
<1> QED
  BY <1>9 DEF Fits

\* In particular a gentle step that leaves the counting passes alone.
LEMMA GentleFits ==
  ASSUME IInv, [ControlPlaneNext]_allVars, NEW s, NEW g, NEW r \in Nat, IsFiniteSet(Callers),
         NEW Q \in SUBSET Callers, Fits(s, g, Q, r), \A q \in Q : pass'[q] = pass[q],
         IsFiniteSet(AllToStart(pass, s, g, Q)),
         AllToStart(pass', s, g, Q) \subseteq AllToStart(pass, s, g, Q), Gentle
  PROVE  Fits(s, g, Q, r)'
<1>1. \/ Joins(s, g, {})
      \/ \E c \in Ids : Joins(s, g, {c}) /\ faults' = faults + 1
  BY DEF Gentle
<1>2. ASSUME NEW X, Joins(s, g, X)
      PROVE  Unseen(s, g, Q)' \subseteq Unseen(s, g, Q) \cup X
  BY <1>2, UnseenJoins
<1>3. \/ Unseen(s, g, Q)' \subseteq Unseen(s, g, Q) \cup {}
      \/ \E c \in Ids : /\ Unseen(s, g, Q)' \subseteq Unseen(s, g, Q) \cup {c}
                        /\ faults' = faults + 1
  BY <1>1, <1>2
<1>4. \/ Unseen(s, g, Q)' \subseteq Unseen(s, g, Q)
      \/ \E c \in Ids : /\ Unseen(s, g, Q)' \subseteq Unseen(s, g, Q) \cup {c}
                        /\ faults' = faults + 1
  BY <1>3
<1> QED
  BY <1>4, FitsKept

-----------------------------------------------------------------------------
(***************************************************************************)
(* The steps that count.                                                   *)
(***************************************************************************)
\* A pass that lists the replicas takes all of them; if there are none, it is to
\* start as many as its copy of the spec wants.
LEMMA FitsByList ==
  ASSUME CInv, CInv', [ControlPlaneNext]_allVars, NEW s \in Services,
         NEW g \in 1 .. MaxGeneration, NEW r \in Nat,
         IsFiniteSet(Callers), Ceiling(s, r), Ceiling(s, r)', Bounded(s, r),
         Cardinality(Sick') <= faults',
         NEW t \in Callers, ListRunningContainers(t),
         NEW Q \in SUBSET Callers, \A q \in Q : Counting(pass'[q], s, g)
  PROVE  Fits(s, g, Q, r)'
<1> DEFINE p == pass[t]
<1>0. IInv /\ LInv /\ pass \in [Callers -> Pass]
  BY DEF CInv, IInv, TypeOK
<1>1. UNCHANGED <<containers, tracker, faults>>
  BY <1>0, PassLists
<1>2. PICK x \in Services, q \in Pass :
        /\ pass' = [pass EXCEPT ![t] = q]
        /\ q.pc \in {"classify", "act"} /\ q.service = x /\ q.specs = p.specs
        /\ \A c \in Ids : IsReplica(c, x, SpecOf(q).generation) => c \in Taken(q)
        /\ q.pc = "act" => Taken(q) = {}
  BY <1>0, PassLists
<1>3. pass'[t] = q /\ \A u \in Callers \ {t} : pass'[u] = pass[u]
  BY <1>0, <1>2
<1>4. CASE x = s /\ SpecOf(q).generation = g /\ (t \in Q \/ q.pc = "act")
  <2>1. Unseen(s, g, Q)' \subseteq Sick'
    <3> SUFFICES ASSUME NEW c \in Unseen(s, g, Q)' PROVE c \in Sick'
      OBVIOUS
    <3>1. CASE tracker'[c] = "unhealthy"
      BY <3>1 DEF Unseen, Sick
    <3>2. CASE IsReplica(c, s, g)' /\ \A u \in Q : c \notin Taken(pass'[u])
      <4>1. c \in Ids /\ IsReplica(c, s, g)
        BY <1>1, <3>2 DEF Unseen, IsReplica
      <4>2. c \in Taken(q)
        BY <1>2, <1>4, <4>1
      <4> QED
        BY <1>2, <1>3, <1>4, <3>2, <4>2
    <3> QED
      BY <3>1, <3>2 DEF Unseen
  <2>2. Sick' \in SUBSET Ids
    BY DEF Sick
  <2>3. /\ Cardinality(Unseen(s, g, Q)') <= Cardinality(Sick')
        /\ Cardinality(Unseen(s, g, Q)') \in Nat /\ Cardinality(Sick') \in Nat
    BY <2>1, <2>2, NotLarger
  <2>4. /\ Cardinality(AllToStart(pass', s, g, Q)) \in Nat
        /\ Cardinality(AllToStart(pass', s, g, Q)) <= (Cardinality(Callers) - Cardinality(Q)) * r
    <3>1. \A u \in Callers : pass'[u].missing \in Int /\ MissesAtMost(pass'[u], s, r)
      BY DEF CInv, IInv, TypeOK, Pass, Ceiling, MissesAtMost
    <3> QED
      BY <3>1, StartsBound
  <2>5. (Cardinality(Callers) - Cardinality(Q)) * r \in Nat /\ faults' \in Nat
    BY <1>0, Room, FaultsGrow
  <2>6. Cardinality(Unseen(s, g, Q)') + Cardinality(AllToStart(pass', s, g, Q))
          <= (Cardinality(Callers) - Cardinality(Q)) * r + faults'
    BY <2>3, <2>4, <2>5
  <2> QED
    BY <2>6 DEF Fits
<1>5. CASE ~(x = s /\ SpecOf(q).generation = g /\ (t \in Q \/ q.pc = "act"))
  <2>1. t \notin Q
    BY <1>2, <1>3, <1>5 DEF Counting
  <2>2. \A u \in Q : pass'[u] = pass[u]
    BY <1>3, <2>1
  <2>3. ToStart(q, s, g) = {}
    BY <1>2, <1>5 DEF ToStart, Acting
  <2>4. Fits(s, g, Q, r)
    BY <2>2 DEF Bounded
  <2>5. Unseen(s, g, Q)' \subseteq Unseen(s, g, Q)
    BY <1>1, <2>2 DEF Unseen, IsReplica
  <2>6. AllToStart(pass', s, g, Q) \subseteq AllToStart(pass, s, g, Q)
    BY <1>0, <1>2, <2>3, StartsShrink
  <2>7. IsFiniteSet(AllToStart(pass, s, g, Q))
    BY CeilingBounds
  <2> QED
    BY <1>0, <2>4, <2>5, <2>6, <2>7, FitsKept
<1> QED
  BY <1>4, <1>5

\* One caller more leaves less room, by the ceiling.
LEMMA RoomOfOne ==
  ASSUME NEW n \in Nat, NEW m \in Nat, m + 1 <= n, NEW r \in Nat
  PROVE  (n - (m + 1)) * r + r = (n - m) * r
<1>1. PICK k \in Nat : k = n - (m + 1)
  OBVIOUS
<1>2. n - m = k + 1
  BY <1>1
<1>3. (k + 1) * r = k * r + r
  OBVIOUS
<1> QED
  BY <1>1, <1>2, <1>3

\* A pass that read the last report is to start what is missing besides those
\* that it found well; until then it drops only sick ones.
LEMMA FitsByRead ==
  ASSUME CInv, [ControlPlaneNext]_allVars, NEW s \in Services, NEW g \in 1 .. MaxGeneration,
         NEW r \in Nat, IsFiniteSet(Callers), Ceiling(s, r), Bounded(s, r),
         NEW t \in Callers, ReadHealth(t),
         NEW Q \in SUBSET Callers, \A q \in Q : Counting(pass'[q], s, g)
  PROVE  Fits(s, g, Q, r)'
<1> DEFINE p == pass[t]
<1>0. IInv /\ LInv /\ pass \in [Callers -> Pass] /\ faults \in Nat
  BY FaultsGrow DEF CInv, IInv, TypeOK
<1>1. /\ UNCHANGED <<containers, tracker, faults>> /\ p.pc = "classify"
      /\ SpecOf(p) \in ValidSpec /\ p.service \in Services
  BY <1>0, PassReads
<1>2. PICK q \in Pass :
        /\ pass' = [pass EXCEPT ![t] = q]
        /\ q.pc \in {"classify", "act"} /\ q.service = p.service /\ q.specs = p.specs
        /\ \A c \in Taken(p) : c \in Taken(q) \/ tracker[c] = "unhealthy"
        /\ q.pc = "act" => /\ Taken(q) = q.available
                           /\ q.missing = SpecOf(q).replicas - Cardinality(q.available)
  BY <1>0, PassReads
<1>3. pass'[t] = q /\ \A u \in Callers \ {t} : pass'[u] = pass[u]
  BY <1>0, <1>2
<1>4. SpecOf(q) = SpecOf(p)
  BY <1>2 DEF SpecOf
<1>5. CASE ToStart(q, s, g) = {}
  <2>1. \A u \in Q : Counting(pass[u], s, g)
    BY <1>1, <1>2, <1>3, <1>4 DEF Counting
  <2>2. Fits(s, g, Q, r)
    BY <2>1 DEF Bounded
  <2>3. \A u \in Q : \A c \in Taken(pass[u]) : c \in Taken(pass'[u]) \/ tracker[c] = "unhealthy"
    BY <1>2, <1>3
  <2>4. Unseen(s, g, Q)' \subseteq Unseen(s, g, Q)
    BY <1>1, <2>3 DEF Unseen, IsReplica
  <2>5. AllToStart(pass', s, g, Q) \subseteq AllToStart(pass, s, g, Q)
    BY <1>0, <1>2, <1>5, StartsShrink
  <2>6. IsFiniteSet(AllToStart(pass, s, g, Q))
    BY CeilingBounds
  <2> QED
    BY <1>0, <2>2, <2>4, <2>5, <2>6, FitsKept
<1>6. CASE ToStart(q, s, g) # {}
  <2>0. /\ q.pc = "act" /\ p.service = s /\ SpecOf(p).generation = g
        /\ ToStart(q, s, g) = 1 .. q.missing /\ q.missing \in Int /\ q.missing > 0
    BY <1>2, <1>4, <1>6 DEF ToStart, Remaining, Acting, Pass
  <2> DEFINE P == Q \cup {t}
             U == Unseen(s, g, P)
             V == Unseen(s, g, Q)'
             S == AllToStart(pass, s, g, P)
             T == AllToStart(pass', s, g, Q)
             n == Cardinality(Callers)
             m == Cardinality(Q)
             well == q.available
  <2>1. t \notin Q /\ \A u \in Q : pass'[u] = pass[u]
    BY <1>3, <2>0 DEF Counting
  <2>2. P \in SUBSET Callers /\ \A u \in P : Counting(pass[u], s, g)
    BY <1>1, <2>0, <2>1 DEF Counting
  <2>3. Fits(s, g, P, r)
    BY <2>2 DEF Bounded
  <2>4. n \in Nat /\ m \in Nat /\ Cardinality(P) = m + 1 /\ m + 1 <= n
    <3>1. IsFiniteSet(Q)
      BY Fewer
    <3>2. Cardinality(P) = m + 1
      BY <2>1, <3>1, FS_AddElement
    <3> QED
      BY <2>2, <3>2, Room
  <2>5. (n - (m + 1)) * r + r = (n - m) * r
    BY <2>4, RoomOfOne
  <2>6. well \in SUBSET Ids /\ Cardinality(well) \in Nat /\ IsFiniteSet(well)
    BY CountType DEF Pass
  <2>7. Cardinality(V) \in Nat /\ Cardinality(U) \in Nat
        /\ Cardinality(V) <= Cardinality(U) + Cardinality(well)
    <3>1. V \subseteq U \cup well
      <4> SUFFICES ASSUME NEW c \in V, c \notin well PROVE c \in U
        OBVIOUS
      <4>1. c \in Ids /\ (\/ tracker[c] = "unhealthy"
                          \/ IsReplica(c, s, g) /\ \A u \in Q : c \notin Taken(pass[u]))
        BY <1>1, <2>1 DEF Unseen, IsReplica
      <4>2. c \in Taken(p) => tracker[c] = "unhealthy"
        BY <1>2, <2>0
      <4> QED
        BY <4>1, <4>2 DEF Unseen
    <3>2. IsFiniteSet(U)
      BY UnseenFinite
    <3> HIDE DEF U, V, well
    <3> QED
      BY <2>6, <3>1, <3>2, Together
  <2>8. Cardinality(T) \in Nat /\ Cardinality(S) \in Nat
        /\ Cardinality(T) <= Cardinality(S) + q.missing
    <3> DEFINE W == {t} \X (1 .. q.missing)
    <3>1. T \subseteq S \cup W
      <4> SUFFICES ASSUME NEW x \in T, x \notin W PROVE x \in S
        OBVIOUS
      <4>1. PICK u \in Callers \ Q : x \in {u} \X ToStart(pass'[u], s, g)
        BY DEF AllToStart
      <4>2. u # t
        BY <1>3, <2>0, <4>1
      <4>3. x \in {u} \X ToStart(pass[u], s, g) /\ u \in Callers \ P
        BY <1>3, <4>1, <4>2
      <4> QED
        BY <4>3 DEF AllToStart
    <3>2. IsFiniteSet(S)
      BY <2>2, CeilingBounds
    <3>3. IsFiniteSet(W) /\ Cardinality(W) = q.missing
      <4>1. IsFiniteSet(1 .. q.missing) /\ Cardinality(1 .. q.missing) = q.missing
        BY <2>0, FS_Interval
      <4>2. IsFiniteSet({t}) /\ Cardinality({t}) = 1
        BY FS_Singleton
      <4>3. IsFiniteSet(W) /\ Cardinality(W) = Cardinality({t}) * Cardinality(1 .. q.missing)
        BY <4>1, <4>2, FS_Product
      <4>4. 1 * q.missing = q.missing
        BY <2>0
      <4> QED
        BY <4>1, <4>2, <4>3, <4>4
    <3> HIDE DEF S, T, W
    <3> QED
      BY <3>1, <3>2, <3>3, Together
  <2>9. Cardinality(U) + Cardinality(S) <= (n - (m + 1)) * r + faults
    BY <2>3, <2>4 DEF Fits
  <2>10. (n - m) * r \in Nat /\ (n - (m + 1)) * r \in Nat
    BY <2>2, <2>4, Room
  <2>11. q.missing + Cardinality(well) <= r
    <3>1. q.missing = SpecOf(p).replicas - Cardinality(well)
      BY <1>2, <1>4, <2>0
    <3>2. SpecOf(p).replicas <= r /\ SpecOf(p).replicas \in Nat
      BY <1>1, <2>0 DEF Ceiling, SpecOf, ValidSpec
    <3> HIDE DEF well, p
    <3> QED
      BY <2>6, <3>1, <3>2
  <2>12. Cardinality(V) + Cardinality(T) <= (n - m) * r + faults'
    <3> DEFINE a == (n - m) * r
               b == (n - (m + 1)) * r
    <3>1. b + r = a /\ a \in Nat /\ b \in Nat /\ Cardinality(U) + Cardinality(S) <= b + faults
      BY <2>5, <2>9, <2>10
    <3>2. faults' = faults
      BY <1>1
    <3> HIDE DEF a, b, U, V, S, T, well
    <3>3. Cardinality(V) + Cardinality(T) <= a + faults'
      BY <1>0, <2>0, <2>6, <2>7, <2>8, <2>11, <3>1, <3>2
    <3> QED
      BY <3>3 DEF a
  <2> QED
    BY <2>12 DEF Fits
<1> QED
  BY <1>5, <1>6

-----------------------------------------------------------------------------
(***************************************************************************)
(* Every step.                                                             *)
(***************************************************************************)
\* Every step is one of a pass, or begins one, or is a crash, or is gentle and
\* leaves the passes alone.
LEMMA StepKinds ==
  ASSUME IInv, [ControlPlaneNext]_allVars
  PROVE  \/ UNCHANGED pass /\ Gentle
         \/ \E t \in Callers : BeginPass(t)
         \/ \E t \in Callers : PassStep(t)
         \/ Restart \/ BootFails
<1>0. faults \in Nat
  BY FaultsGrow
<1>1. ASSUME UNCHANGED <<containers, tracker>>, faults' = faults \/ Fault PROVE Gentle
  BY <1>0, <1>1, NothingJoins
<1>2. ASSUME NEW t \in Handlers, Serve(t)
      PROVE  (UNCHANGED pass /\ Gentle) \/ BeginPass(t)
  <2>1. CASE StopVictim(t)
    <3>1. handler[t].victims \subseteq Ids
      BY DEF Handlers, IInv, ProcessOK, HandlerState
    <3>2. UNCHANGED pass /\ \E c \in Ids : StopContainer(c) \/ StopFails(c)
      BY <2>1, <3>1 DEF StopVictim
    <3> QED
      BY <3>2, StopIsGentle
  <2>2. CASE Save(t) \/ SaveFails(t) \/ ListVictims(t) \/ ListVictimsFails(t)
    BY <1>1, <2>2 DEF Save, SaveFails, ListVictims, ListVictimsFails, vars
  <2> QED
    BY <1>2, <2>1, <2>2 DEF Serve, ReconcileNow
<1>3. ASSUME NEW t \in Handlers,
             UpsertService(t) \/ ScaleService(t) \/ RestartService(t) \/ DeleteService(t)
      PROVE  UNCHANGED pass /\ Gentle
  <2>1. UNCHANGED <<containers, created, tracker, pass, faults>>
    BY <1>3, RequestStep, AskedType DEF IInv, TypeOK
  <2> QED
    BY <1>1, <2>1
<1>4. ASSUME NEW c \in Ids, Observed(c) \/ Breaks(c) PROVE UNCHANGED pass /\ Gentle
  BY <1>4, EnvironmentType, EnvironmentIsGentle
<1>5. CASE UNCHANGED allVars
  BY <1>1, <1>5 DEF allVars, vars
<1>6. CASE LoopTurn
  BY <1>6, DeployerAssumption DEF LoopTurn
<1> QED
  BY <1>2, <1>3, <1>4, <1>5, <1>6 DEF ControlPlaneNext, Handlers, Reconcile

\* The sick stay paid for.
LEMMA SickStep ==
  ASSUME CInv, [ControlPlaneNext]_allVars, Cardinality(Sick) <= faults
  PROVE  Cardinality(Sick') <= faults'
<1>0. /\ IInv /\ LInv /\ faults \in Nat /\ faults' \in Nat /\ faults <= faults'
      /\ Sick \in SUBSET Ids
  BY FaultsGrow DEF CInv, Sick
<1>1. CASE Sick' \subseteq Sick
  BY <1>0, <1>1, NotLarger
<1>2. ASSUME NEW c \in Ids, Sick' \subseteq Sick \cup {c}, faults' = faults + 1
      PROVE  Cardinality(Sick') <= faults'
  <2>1. Cardinality(Sick') \in Nat /\ Cardinality(Sick) \in Nat
        /\ Cardinality(Sick') <= Cardinality(Sick) + 1
    BY <1>0, <1>2, OneMore
  <2> QED
    BY <1>0, <1>2, <2>1
<1>3. CASE Gentle
  <2>1. CASE \A s, g : Joins(s, g, {})
    BY <1>1, <2>1 DEF Joins, Sick
  <2>2. CASE \E c \in Ids : (\A s, g : Joins(s, g, {c})) /\ faults' = faults + 1
    BY <1>2, <2>2 DEF Joins, Sick
  <2> QED
    BY <1>3, <2>1, <2>2 DEF Gentle
<1>4. CASE UNCHANGED tracker
  BY <1>1, <1>4 DEF Sick
<1>5. ASSUME NEW t \in Callers, PassStep(t) PROVE Gentle \/ UNCHANGED tracker
  <2>1. CASE ListRunningContainers(t) \/ ReadHealth(t)
    BY <1>0, <2>1, PassLists, PassReads
  <2>2. CASE Starts(t)
    BY <2>2 DEF Starts, StartContainer
  <2> QED
    BY <1>0, <1>5, <2>1, <2>2, PassIsGentle
<1>6. CASE Restart \/ BootFails
  <2>1. tracker' = [c \in Ids |-> "absent"]
    BY <1>6 DEF Restart, BootFails, Crash
  <2> QED
    BY <1>1, <2>1 DEF Sick
<1> QED
  BY <1>0, <1>3, <1>4, <1>5, <1>6, StepKinds DEF BeginPass

\* The replicas that a change of the store asks for.
LEMMA PutReplicas ==
  ASSUME NEW store \in Store, NEW s \in Services, NEW spec, NEW x \in Services
  PROVE  \/ Put(store, s, spec)[x] = store[x]
         \/ spec.replicas >= 1 /\ Put(store, s, spec)[x] = spec
  BY DEF Put, Validate, Store

\* A request leaves a service with no more replicas than it had, or with those it
\* asks for.
LEMMA RequestReplicas ==
  ASSUME IInv, NEW t \in Handlers, NEW x \in Services,
         UpsertService(t) \/ ScaleService(t) \/ RestartService(t) \/ DeleteService(t)
  PROVE  \/ services'[x].replicas = services[x].replicas
         \/ services'[x].replicas = 0
         \/ services'[x].replicas \in ReplicaChoices /\ services'[x].replicas >= 1
<1>0. services \in Store
  BY DEF IInv, TypeOK
<1>1. ASSUME NEW s \in Services, NEW k \in ReplicaChoices, NEW spec, spec.replicas = k,
             services' = Put(services, s, spec)
      PROVE  \/ services'[x].replicas = services[x].replicas
             \/ services'[x].replicas \in ReplicaChoices /\ services'[x].replicas >= 1
  BY <1>0, <1>1, PutReplicas
<1>2. CASE UpsertService(t)
  <2>1. PICK s \in Services, image \in Images, k \in ReplicaChoices, g \in GenerationChoices :
          services' = Upsert(services, s,
                             [image |-> image, replicas |-> k, generation |-> g])
    BY <1>2 DEF UpsertService, Accept
  <2> DEFINE spec == [image |-> image, replicas |-> k, generation |-> g]
  <2>2. UpsertSpec(services, s, spec).replicas = k
    BY DEF UpsertSpec
  <2>3. services' = Put(services, s, UpsertSpec(services, s, spec))
    BY <2>1 DEF Upsert
  <2> HIDE DEF spec
  <2> QED
    BY <1>1, <2>2, <2>3
<1>3. CASE ScaleService(t)
  <2>1. PICK s \in Services, k \in ReplicaChoices : Found(services, s) /\ services' = Scale(services, s, k)
    BY <1>3 DEF ScaleService, Accept
  <2>2. services[s] \in ValidSpec
    BY <1>0, <2>1, FoundGeneration
  <2>3. [services[s] EXCEPT !.replicas = k].replicas = k
    BY <2>2 DEF ValidSpec
  <2> QED
    BY <1>1, <2>1, <2>3 DEF Scale
<1>4. CASE RestartService(t)
  <2>1. PICK s \in Services : Found(services, s) /\ services' = RequestRestart(services, s)
    BY <1>4 DEF RestartService, Accept
  <2> DEFINE spec == [services[s] EXCEPT !.generation = Increment(@)]
  <2>2. services[s] \in ValidSpec
    BY <1>0, <2>1, FoundGeneration
  <2>3. spec.replicas = services[s].replicas
    BY <2>2 DEF ValidSpec
  <2>4. services' = Put(services, s, spec)
    BY <2>1 DEF RequestRestart
  <2> HIDE DEF spec
  <2>5. services'[x] = services[x] \/ (x = s /\ services'[x] = spec)
    BY <1>0, <2>4 DEF Put, Store
  <2> QED
    BY <2>3, <2>5
<1>5. CASE DeleteService(t)
  <2>1. PICK s \in Services : services' = Delete(services, s)
    BY <1>5 DEF DeleteService, Accept
  <2>2. services'[x] = services[x] \/ services'[x] = NoSpec
    BY <1>0, <2>1 DEF Delete, Store
  <2> QED
    BY <2>2 DEF NoSpec
<1> QED
  BY <1>2, <1>3, <1>4, <1>5

\* The steps that change the store or the file.
LEMMA StoreSteps ==
  ASSUME IInv, [ControlPlaneNext]_allVars
  PROVE  \/ UNCHANGED saved /\ services' \in {services, saved}
         \/ UNCHANGED services /\ saved' = services
         \/ /\ UNCHANGED saved
            /\ \E t \in Handlers :
                 UpsertService(t) \/ ScaleService(t) \/ RestartService(t) \/ DeleteService(t)
<1>1. ASSUME NEW t \in Handlers,
             UpsertService(t) \/ ScaleService(t) \/ RestartService(t) \/ DeleteService(t)
      PROVE  UNCHANGED saved
  <2>1. Asked(t)
    BY <1>1, RequestStep DEF IInv, TypeOK
  <2> QED
    BY <2>1 DEF Asked, Accept
<1>2. ASSUME NEW t \in Handlers, Serve(t)
      PROVE  UNCHANGED services /\ (saved' = services \/ UNCHANGED saved)
  BY <1>2 DEF Serve, Save, SaveFails, ListVictims, ListVictimsFails, StopVictim, ReconcileNow,
     BeginPass, vars
<1>3. CASE Restart \/ BootFails
  BY <1>3 DEF Restart, BootFails, Crash
<1>4. CASE LoopTurn \/ UNCHANGED allVars
  BY <1>4, LoopTurnType DEF allVars, vars, process
<1>5. ASSUME NEW t \in Callers, Reconcile(t) PROVE UNCHANGED <<services, saved>>
  BY <1>5, ReconcileType DEF process
<1>6. ASSUME NEW c \in Ids, Observed(c) \/ Breaks(c) PROVE UNCHANGED <<services, saved>>
  BY <1>6, EnvironmentType DEF process
<1> QED
  BY <1>1, <1>2, <1>3, <1>4, <1>5, <1>6 DEF ControlPlaneNext

\* The store and the file stay below a ceiling, if need be that of the request.
LEMMA StoresBelow ==
  ASSUME IInv, [ControlPlaneNext]_allVars, NEW s \in Services, NEW r \in Nat, Ceiling(s, r)
  PROVE  \E k \in Nat : /\ r <= k /\ (k = r \/ k \in Wanted)
                        /\ services'[s].replicas <= k /\ saved'[s].replicas <= k
<1>0. services[s].replicas <= r /\ saved[s].replicas <= r
  BY DEF Ceiling
<1>1. CASE services'[s].replicas <= r /\ saved'[s].replicas <= r
  BY <1>1
<1>2. ASSUME NEW t \in Handlers, UNCHANGED saved, ~(services'[s].replicas <= r),
             UpsertService(t) \/ ScaleService(t) \/ RestartService(t) \/ DeleteService(t)
      PROVE  \E k \in Nat : /\ r <= k /\ (k = r \/ k \in Wanted)
                            /\ services'[s].replicas <= k /\ saved'[s].replicas <= k
  <2> DEFINE k == services'[s].replicas
  <2>1. k \in ReplicaChoices /\ k >= 1
    BY <1>0, <1>2, RequestReplicas
  <2>2. k \in Wanted /\ k \in Int /\ ~(k <= r)
    BY <1>2, <2>1, DeployerAssumption DEF Wanted
  <2>3. saved[s].replicas \in Int
    BY DEF IInv, ProcessOK, Store, ValidSpec, NoSpec
  <2> HIDE DEF k
  <2>4. k \in Nat /\ r <= k /\ saved[s].replicas <= k
    BY <1>0, <2>1, <2>2, <2>3
  <2> QED
    BY <1>2, <2>2, <2>4 DEF k
<1>3. services'[s].replicas <= r => saved'[s].replicas <= r
  BY <1>0, StoreSteps
<1> QED
  BY <1>0, <1>1, <1>2, <1>3, StoreSteps

\* A ceiling of the store and the file stays one of the passes.
LEMMA CeilingKept ==
  ASSUME CInv, [ControlPlaneNext]_allVars, NEW s \in Services, NEW r \in Nat, Ceiling(s, r),
         services'[s].replicas <= r, saved'[s].replicas <= r
  PROVE  Ceiling(s, r)'
<1>0. IInv /\ LInv /\ pass \in [Callers -> Pass]
  BY DEF CInv, IInv, TypeOK
<1>1. IdlePass.pc = "idle" /\ IdlePass.specs[s].replicas <= r
  BY DEF IdlePass, NoSpec
<1>2. CASE UNCHANGED pass
  BY <1>2 DEF Ceiling, MissesAtMost
<1>3. ASSUME NEW t \in Callers, NEW q, pass' = [pass EXCEPT ![t] = q],
             MissesAtMost(q, s, r), q.specs[s].replicas <= r
      PROVE  Ceiling(s, r)'
  <2>1. \A u \in Callers : pass'[u].specs[s].replicas <= r /\ MissesAtMost(pass'[u], s, r)
    BY <1>0, <1>3 DEF Ceiling
  <2> QED
    BY <2>1 DEF Ceiling, MissesAtMost
<1>4. ASSUME NEW t \in Callers, BeginPass(t) PROVE Ceiling(s, r)'
  <2>1. PICK q : /\ q.specs = services \/ q.specs = IdlePass.specs
                 /\ q.pc \in {"idle", "next"}
                 /\ pass' = [pass EXCEPT ![t] = q]
    BY <1>0, <1>4, BeginPassStep
  <2>2. q.specs[s].replicas <= r
    BY <1>1, <2>1 DEF Ceiling
  <2>3. MissesAtMost(q, s, r)
    BY <2>1 DEF MissesAtMost, Acting
  <2> QED
    BY <1>3, <2>1, <2>2, <2>3
<1>5. ASSUME NEW t \in Callers, PassStep(t) PROVE Ceiling(s, r)'
  <2>1. PICK q : PassMoves(t, q)
    BY <1>0, <1>5, PassStepOK DEF StepOK
  <2>2. pass'[t] = q /\ pass' = [pass EXCEPT ![t] = q]
    BY <1>0, <2>1 DEF PassMoves
  <2>3. q.specs[s].replicas <= r
    BY <1>1, <2>1 DEF PassMoves, Ceiling
  <2>4. CASE ListRunningContainers(t)
    <3>1. /\ q.pc = "act" => q.missing = SpecOf(q).replicas
          /\ q.pc \in {"classify", "act"}
      BY <1>0, <2>2, <2>4, PassLists
    <3>2. MissesAtMost(q, s, r)
      BY <2>3, <3>1 DEF MissesAtMost, SpecOf, Acting
    <3> QED
      BY <1>3, <2>2, <2>3, <3>2
  <2>5. CASE ReadHealth(t)
    <3>1. /\ q.pc \in {"classify", "act"} /\ SpecOf(q) = SpecOf(pass[t])
          /\ q.pc = "act" => q.missing = SpecOf(q).replicas - Cardinality(q.available)
          /\ SpecOf(pass[t]) \in ValidSpec /\ q \in Pass
      <4>1. PICK n \in Pass :
              /\ pass' = [pass EXCEPT ![t] = n]
              /\ n.pc \in {"classify", "act"} /\ n.service = pass[t].service
              /\ n.specs = pass[t].specs
              /\ n.pc = "act" => n.missing = SpecOf(n).replicas - Cardinality(n.available)
        BY <1>0, <2>5, PassReads
      <4>2. n = q
        BY <1>0, <2>2, <4>1
      <4> QED
        BY <1>0, <2>5, <4>1, <4>2, PassReads DEF SpecOf
    <3>2. Cardinality(q.available) \in Nat
      <4>1. q.available \in SUBSET Ids
        BY <3>1 DEF Pass
      <4> QED
        BY <4>1, CountType
    <3>3. MissesAtMost(q, s, r)
      <4> SUFFICES ASSUME q.pc = "act", q.service = s PROVE q.missing <= r
        BY <3>1 DEF MissesAtMost, Acting
      <4>1. SpecOf(q).replicas <= r /\ SpecOf(q).replicas \in Nat
        BY <2>3, <3>1 DEF SpecOf, ValidSpec
      <4> QED
        BY <3>1, <3>2, <4>1
    <3> QED
      BY <1>3, <2>2, <2>3, <3>3
  <2>6. CASE ~ListRunningContainers(t) /\ ~ReadHealth(t)
    <3>1. PICK n : MovesOn(t, n)
      <4>1. CASE Starts(t)
        BY <4>1, PassStarts
      <4> QED
        BY <1>0, <1>5, <2>6, <4>1, PassIsGentle
    <3>2. n = q
      BY <1>0, <2>2, <3>1 DEF MovesOn
    <3>3. MissesAtMost(q, s, r)
      BY <3>1, <3>2 DEF MovesOn, Ceiling
    <3> QED
      BY <1>3, <2>2, <2>3, <3>3
  <2> QED
    BY <2>4, <2>5, <2>6
<1>6. CASE Restart \/ BootFails
  <2>1. \A t \in Callers : pass'[t] = IdlePass
    BY <1>0, <1>6, CrashType
  <2>2. MissesAtMost(IdlePass, s, r)
    BY <1>1 DEF MissesAtMost, Acting
  <2>3. \A t \in Callers : pass'[t].specs[s].replicas <= r /\ MissesAtMost(pass'[t], s, r)
    BY <1>1, <2>1, <2>2
  <2> QED
    BY <2>3 DEF Ceiling, MissesAtMost
<1> QED
  BY <1>0, <1>2, <1>4, <1>5, <1>6, StepKinds

\* The bound survives a step below one ceiling.
LEMMA BoundedStep ==
  ASSUME CInv, CInv', [ControlPlaneNext]_allVars, IsFiniteSet(Callers),
         NEW s \in Services, NEW r \in Nat,
         Ceiling(s, r), Ceiling(s, r)', Bounded(s, r), Cardinality(Sick') <= faults'
  PROVE  Bounded(s, r)'
<1> SUFFICES ASSUME NEW g \in 1 .. MaxGeneration, NEW Q \in SUBSET Callers,
                    \A q \in Q : Counting(pass'[q], s, g)
             PROVE  Fits(s, g, Q, r)'
  BY DEF Bounded
<1>0. IInv /\ LInv /\ pass \in [Callers -> Pass] /\ faults \in Nat
  BY FaultsGrow DEF CInv, IInv, TypeOK
<1>1. IsFiniteSet(AllToStart(pass, s, g, Q))
  BY CeilingBounds
<1>2. ASSUME NEW t \in Callers, NEW q, MovesOn(t, q)
      PROVE  /\ t \notin Q /\ \A u \in Q : pass'[u] = pass[u]
             /\ Fits(s, g, Q, r)
             /\ AllToStart(pass', s, g, Q) \subseteq AllToStart(pass, s, g, Q)
  <2>1. /\ pass' = [pass EXCEPT ![t] = q] /\ pass'[t] = q /\ q.pc # "classify"
        /\ \A u \in Callers \ {t} : pass'[u] = pass[u]
        /\ ToStart(q, s, g) \subseteq ToStart(pass[t], s, g)
    BY <1>0, <1>2 DEF MovesOn
  <2>2. t \notin Q /\ \A u \in Q : pass'[u] = pass[u]
    BY <2>1 DEF Counting
  <2>3. Fits(s, g, Q, r)
    BY <2>2 DEF Bounded
  <2> QED
    BY <1>0, <2>1, <2>2, <2>3, StartsShrink
<1>3. ASSUME NEW t \in Callers, NEW q, MovesOn(t, q), Gentle PROVE Fits(s, g, Q, r)'
  BY <1>0, <1>1, <1>2, <1>3, GentleFits
<1>4. CASE UNCHANGED pass /\ Gentle
  <2>1. Fits(s, g, Q, r)
    BY <1>4 DEF Bounded
  <2> QED
    BY <1>0, <1>1, <1>4, <2>1, GentleFits
<1>5. ASSUME NEW t \in Callers, BeginPass(t) PROVE Fits(s, g, Q, r)'
  <2>1. PICK x : pass' = [pass EXCEPT ![t] = Advance(x)]
    BY <1>5 DEF BeginPass
  <2>2. Gentle
    <3>1. UNCHANGED <<containers, tracker, faults>>
      BY <1>5 DEF BeginPass
    <3> QED
      BY <1>0, <3>1, NothingJoins
  <2>3. MovesOn(t, Advance(x))
    BY <2>1, AdvanceMovesOn
  <2> QED
    BY <1>3, <2>2, <2>3
<1>6. ASSUME NEW t \in Callers, PassStep(t) PROVE Fits(s, g, Q, r)'
  <2>1. CASE ListRunningContainers(t)
    BY <2>1, FitsByList
  <2>2. CASE ReadHealth(t)
    BY <2>2, FitsByRead
  <2>3. CASE Starts(t)
    <3>1. PICK q : /\ MovesOn(t, q)
                   /\ \/ Joins(s, g, {})
                      \/ /\ \E c \in Ids : Joins(s, g, {c})
                         /\ pass[t].missing \in ToStart(pass[t], s, g)
                         /\ pass[t].missing \notin ToStart(q, s, g)
      BY <2>3, PassStarts
    <3>2. /\ t \notin Q /\ \A u \in Q : pass'[u] = pass[u]
          /\ Fits(s, g, Q, r)
          /\ AllToStart(pass', s, g, Q) \subseteq AllToStart(pass, s, g, Q)
      BY <1>2, <3>1
    <3>3. ASSUME NEW X, Joins(s, g, X)
          PROVE  Unseen(s, g, Q)' \subseteq Unseen(s, g, Q) \cup X
      BY <3>2, <3>3, UnseenJoins
    <3>4. CASE Joins(s, g, {})
      <4>1. Unseen(s, g, Q)' \subseteq Unseen(s, g, Q) \cup {}
        BY <3>3, <3>4
      <4>2. Unseen(s, g, Q)' \subseteq Unseen(s, g, Q)
        BY <4>1
      <4> QED
        BY <1>0, <1>1, <3>2, <4>2, FitsKept
    <3>5. ASSUME NEW c \in Ids, Joins(s, g, {c}),
                 pass[t].missing \in ToStart(pass[t], s, g),
                 pass[t].missing \notin ToStart(q, s, g)
          PROVE  Fits(s, g, Q, r)'
      <4>1. Unseen(s, g, Q)' \subseteq Unseen(s, g, Q) \cup {c}
        BY <3>3, <3>5
      <4>2. \E x \in AllToStart(pass, s, g, Q) : x \notin AllToStart(pass', s, g, Q)
        BY <1>0, <3>1, <3>2, <3>5, StartsLose DEF MovesOn
      <4> QED
        BY <1>0, <1>1, <3>2, <4>1, <4>2, FitsKept
    <3> QED
      BY <3>1, <3>4, <3>5
  <2>4. CASE ~ListRunningContainers(t) /\ ~ReadHealth(t) /\ ~Starts(t)
    BY <1>0, <1>3, <1>6, <2>4, PassIsGentle
  <2> QED
    BY <2>1, <2>2, <2>3, <2>4
<1>7. CASE Restart \/ BootFails
  <2>1. /\ UNCHANGED <<containers, faults>> /\ tracker' = [c \in Ids |-> "absent"]
        /\ \A u \in Callers : pass'[u] = IdlePass
    BY <1>0, <1>7, CrashType DEF Restart, BootFails, Crash
  <2>2. Q = {}
    BY <2>1, IdleType DEF Counting
  <2>3. Fits(s, g, Q, r)
    BY <2>2 DEF Bounded
  <2>4. \A u \in Callers : ToStart(pass'[u], s, g) = {}
    BY <2>1, IdleType DEF ToStart, Acting
  <2>5. AllToStart(pass', s, g, Q) \subseteq AllToStart(pass, s, g, Q)
    BY <2>4 DEF AllToStart
  <2>6. Gentle
    BY <1>0, <2>1 DEF Gentle, Joins, IsReplica
  <2> QED
    BY <1>0, <1>1, <2>2, <2>3, <2>5, <2>6, GentleFits
<1> QED
  BY <1>0, <1>4, <1>5, <1>6, <1>7, StepKinds

\* A higher ceiling is a ceiling too, and its bound holds all the more.
LEMMA Higher ==
  ASSUME CInv, IsFiniteSet(Callers), NEW s \in Services, NEW r \in Nat, NEW k \in Nat, r <= k,
         Ceiling(s, r), Bounded(s, r)
  PROVE  Ceiling(s, k) /\ Bounded(s, k)
<1>0. IInv
  BY DEF CInv
<1>1. Ceiling(s, k)
  <2>1. services[s].replicas \in Int /\ saved[s].replicas \in Int
    BY <1>0 DEF IInv, TypeOK, ProcessOK, Store, ValidSpec, NoSpec
  <2>2. \A t \in Callers : pass[t].missing \in Int /\ pass[t].specs \in Store
    BY <1>0 DEF IInv, TypeOK, Pass
  <2>3. \A t \in Callers : pass[t].specs[s].replicas \in Int
    BY <2>2 DEF Store, ValidSpec, NoSpec
  <2> QED
    BY <2>1, <2>2, <2>3 DEF Ceiling, MissesAtMost
<1>2. ASSUME NEW g \in 1 .. MaxGeneration, NEW Q \in SUBSET Callers, Fits(s, g, Q, r)
      PROVE  Fits(s, g, Q, k)
  <2> DEFINE n == Cardinality(Callers) - Cardinality(Q)
  <2>1. n \in Nat /\ n * r \in Nat /\ n * k \in Nat
    <3>1. n * r \in Nat /\ n * k \in Nat
      BY Room
    <3>2. /\ Cardinality(Callers) \in Nat /\ Cardinality(Q) \in Nat
          /\ Cardinality(Q) <= Cardinality(Callers)
      BY Room
    <3> QED
      BY <3>1, <3>2
  <2>2. n * r <= n * k
    <3>1. PICK d \in Nat : k = r + d
      OBVIOUS
    <3>2. n * k = n * r + n * d
      BY <2>1, <3>1
    <3>3. n * d \in Nat
      BY <2>1, <3>1, Room
    <3> HIDE DEF n
    <3> QED
      BY <2>1, <3>2, <3>3
  <2>3. /\ Cardinality(Unseen(s, g, Q)) \in Nat
        /\ Cardinality(AllToStart(pass, s, g, Q)) \in Nat
    BY UnseenFinite, CeilingBounds, FS_CardinalityType
  <2>4. faults \in Nat
    BY <1>0 DEF IInv, TypeOK
  <2> HIDE DEF n
  <2>5. Cardinality(Unseen(s, g, Q)) + Cardinality(AllToStart(pass, s, g, Q)) <= n * r + faults
    BY <1>2 DEF Fits, n
  <2>6. Cardinality(Unseen(s, g, Q)) + Cardinality(AllToStart(pass, s, g, Q)) <= n * k + faults
    BY <2>1, <2>2, <2>3, <2>4, <2>5
  <2> QED
    BY <2>6 DEF Fits, n
<1> QED
  BY <1>1, <1>2 DEF Bounded

\* Only a pass that acts creates containers, for a spec that wants a replica.
LEMMA CreatedForSome ==
  ASSUME CInv, OvershootInv, [ControlPlaneNext]_allVars, created' > 0
  PROVE  \E r \in Wanted : r \in Nat
<1>0. IInv /\ created \in Nat
  BY DEF CInv, IInv, TypeOK
<1>1. CASE created' = created
  BY <1>1 DEF OvershootInv
<1>2. ASSUME NEW t \in Callers, Creates(t) PROVE \E r \in Wanted : r \in Nat
  <2>1. SpecOf(pass[t]) \in ValidSpec /\ pass[t].service \in Services
    BY <1>0, <1>2, PassFacts DEF Creates, CreateReplica, Working
  <2>2. PICK r \in Wanted \cup {0} : r \in Nat /\ Ceiling(pass[t].service, r)
    BY <2>1 DEF OvershootInv
  <2>3. SpecOf(pass[t]).replicas <= r
    BY <2>2 DEF Ceiling, SpecOf
  <2>4. r # 0
    BY <2>1, <2>3 DEF ValidSpec
  <2> QED
    BY <2>2, <2>4
<1> QED
  BY <1>0, <1>1, <1>2, DockerSteps
  DEF Starts, StartContainer, Stops, StopContainer, StopFails, StartsLate, ContainerExits

\* Every step keeps the bound, for the same ceiling or that of a request.
LEMMA OvershootNext ==
  ASSUME IsFiniteSet(Callers)
  PROVE  CInv /\ CInv' /\ OvershootInv /\ [ControlPlaneNext]_allVars => OvershootInv'
<1> SUFFICES ASSUME CInv, CInv', OvershootInv, [ControlPlaneNext]_allVars PROVE OvershootInv'
  OBVIOUS
<1>1. Cardinality(Sick') <= faults'
  BY SickStep DEF OvershootInv
<1>2. ASSUME NEW s \in Services
      PROVE  \E k \in Wanted \cup {0} : k \in Nat /\ Ceiling(s, k)' /\ Bounded(s, k)'
  <2>1. PICK r \in Wanted \cup {0} : r \in Nat /\ Ceiling(s, r) /\ Bounded(s, r)
    BY <1>2 DEF OvershootInv
  <2>2. PICK k \in Nat : /\ r <= k /\ (k = r \/ k \in Wanted)
                         /\ services'[s].replicas <= k /\ saved'[s].replicas <= k
    BY <1>2, <2>1, StoresBelow DEF CInv
  <2>3. Ceiling(s, k) /\ Bounded(s, k)
    BY <1>2, <2>1, <2>2, Higher
  <2>4. Ceiling(s, k)'
    BY <1>2, <2>2, <2>3, CeilingKept
  <2>5. Bounded(s, k)'
    BY <1>1, <1>2, <2>3, <2>4, BoundedStep
  <2> QED
    BY <2>1, <2>2, <2>4, <2>5
<1> QED
  BY <1>1, <1>2, CreatedForSome DEF OvershootInv, Wanted

\* Nothing has started before the first step.
LEMMA NothingStarted ==
  ASSUME IsFiniteSet(Callers), ControlPlaneInit, NEW s, NEW r \in Nat
  PROVE  Bounded(s, r)
<1> SUFFICES ASSUME NEW g \in 1 .. MaxGeneration, NEW Q \in SUBSET Callers PROVE Fits(s, g, Q, r)
  BY DEF Bounded
<1>0. /\ containers = [c \in Ids |-> NoContainer] /\ tracker = [c \in Ids |-> "absent"]
      /\ pass = [t \in Callers |-> IdlePass] /\ faults = 0
  BY DEF ControlPlaneInit, Init
<1>1. Unseen(s, g, Q) = {}
  BY <1>0 DEF Unseen, IsReplica, NoContainer
<1>2. AllToStart(pass, s, g, Q) = {}
  <2>1. \A t \in Callers : ToStart(pass[t], s, g) = {}
    BY <1>0, IdleType DEF ToStart, Acting
  <2> QED
    BY <2>1 DEF AllToStart
<1> DEFINE room == (Cardinality(Callers) - Cardinality(Q)) * r
<1>3. room \in Nat
  BY Room
<1>4. Cardinality(Unseen(s, g, Q)) = 0 /\ Cardinality(AllToStart(pass, s, g, Q)) = 0
  BY <1>1, <1>2, FS_EmptySet
<1>5. Fits(s, g, Q, r) <=> Cardinality(Unseen(s, g, Q)) + Cardinality(AllToStart(pass, s, g, Q))
                             <= room + faults
  BY DEF Fits
<1> HIDE DEF room
<1> QED
  BY <1>0, <1>3, <1>4, <1>5

\* Initially, what is stored is a ceiling.
LEMMA InitialCeiling ==
  ASSUME ControlPlaneInit, NEW s \in Services, NEW r \in Nat, services[s].replicas <= r
  PROVE  Ceiling(s, r)
<1>1. saved = services /\ pass = [t \in Callers |-> IdlePass]
  BY DEF ControlPlaneInit, Init
<1>2. IdlePass.specs[s].replicas <= r /\ IdlePass.pc \notin Acting
  BY DEF IdlePass, NoSpec, Acting
<1> QED
  BY <1>1, <1>2 DEF Ceiling, MissesAtMost

\* So the bound holds with the ceiling of the specs at boot.
LEMMA OvershootInit ==
  ASSUME IsFiniteSet(Callers), ControlPlaneInit
  PROVE  OvershootInv
<1>0. /\ services \in [Services -> InitialSpecs \cup {NoSpec}] /\ created = 0
      /\ tracker = [c \in Ids |-> "absent"] /\ faults = 0
  BY DEF ControlPlaneInit, Init
<1>1. Sick = {}
  BY <1>0 DEF Sick
<1>2. Cardinality(Sick) <= faults
  BY <1>0, <1>1, FS_EmptySet
<1>3. ASSUME NEW s \in Services
      PROVE  \E r \in Wanted \cup {0} : r \in Nat /\ Ceiling(s, r) /\ Bounded(s, r)
  <2> DEFINE r == services[s].replicas
  <2>1. r \in Wanted \cup {0} /\ r \in Nat
    BY <1>0, DeployerAssumption DEF Wanted, NoSpec, ValidSpec
  <2>2. r <= r
    BY <2>1
  <2> QED
    BY <2>1, <2>2, InitialCeiling, NothingStarted
<1> QED
  BY <1>0, <1>2, <1>3 DEF OvershootInv

\* The running replicas of s of generation g.
Replicas(s, g) == {d \in Matching(s) : containers[d].generation = g}

\* The bound on what is unseen and still to start is one on what runs.
LEMMA AtMost ==
  ASSUME OwnNames, IsFiniteSet(Callers), CInv, NEW s \in Services, NEW g \in 1 .. MaxGeneration,
         NEW r \in Nat, Ceiling(s, r), Bounded(s, r)
  PROVE  /\ Cardinality(Replicas(s, g)) \in Nat
         /\ Cardinality(Replicas(s, g)) <= Cardinality(Callers) * r + faults
<1> DEFINE n == Cardinality(Callers)
           U == Unseen(s, g, {})
           S == AllToStart(pass, s, g, {})
<1>1. Cardinality(Replicas(s, g)) \in Nat /\ Cardinality(U) \in Nat
      /\ Cardinality(Replicas(s, g)) <= Cardinality(U)
  <2>1. Replicas(s, g) \subseteq U
    BY DEF Replicas, Matching, Running, OwnNames, Unseen, IsReplica
  <2>2. IsFiniteSet(U)
    BY UnseenFinite
  <2> HIDE DEF U
  <2> QED
    BY <2>1, <2>2, Fewer
<1>2. Cardinality(S) \in Nat
  BY CeilingBounds
<1>3. Cardinality(U) + Cardinality(S) <= n * r + faults
  <2>1. Fits(s, g, {}, r)
    BY DEF Bounded
  <2>2. Cardinality({}) = 0 /\ n \in Nat
    BY FS_EmptySet, FS_CardinalityType
  <2>3. n - 0 = n
    BY <2>2
  <2> HIDE DEF n
  <2> QED
    BY <2>1, <2>2, <2>3 DEF Fits, n
<1>4. n * r \in Nat /\ faults \in Nat
  <2>1. n \in Nat
    BY FS_CardinalityType
  <2> HIDE DEF n
  <2> QED
    BY <2>1 DEF CInv, IInv, TypeOK
<1> HIDE DEF n, U, S
<1>5. Cardinality(Replicas(s, g)) <= n * r + faults
  <2> DEFINE room == n * r
  <2>1. room \in Nat /\ Cardinality(U) + Cardinality(S) <= room + faults
    BY <1>3, <1>4
  <2> HIDE DEF room
  <2>2. Cardinality(Replicas(s, g)) <= room + faults
    BY <1>1, <1>2, <1>4, <2>1
  <2> QED
    BY <2>2 DEF room
<1> QED
  BY <1>1, <1>5 DEF n

\* A container that runs is of a generation of some spec, and was created.
LEMMA RunningGeneration ==
  ASSUME CInv, NEW c \in Running
  PROVE  containers[c].generation \in 1 .. MaxGeneration /\ created > 0
<1>1. containers[c] \in Container
  BY DEF CInv, IInv, TypeOK, Running, NoContainer
<1>2. c \in Ids /\ c <= created /\ created \in Nat
  BY DEF CInv, IInv, TypeOK, FreshIds, Running
<1> QED
  BY <1>1, <1>2 DEF Container, Ids

\* The bound holds of every service, for a replica count that may be asked for.
LEMMA OvershootHolds ==
  ASSUME OwnNames, IsFiniteSet(Callers), CInv, OvershootInv
  PROVE  OvershootIsBounded
<1> SUFFICES ASSUME NEW s \in Services, NEW c \in Running
             PROVE  \E r \in Wanted : Cardinality(Replicas(s, containers[c].generation))
                                       <= Cardinality(Callers) * r + faults
  BY DEF OvershootIsBounded, Replicas
<1> DEFINE D == Replicas(s, containers[c].generation)
           n == Cardinality(Callers)
<1>1. PICK r \in Wanted \cup {0} : r \in Nat /\ Ceiling(s, r) /\ Bounded(s, r)
  BY DEF OvershootInv
<1>2. PICK w \in Wanted : w \in Nat
  BY RunningGeneration DEF OvershootInv
<1>3. Cardinality(D) \in Nat /\ Cardinality(D) <= n * r + faults
  BY <1>1, AtMost, RunningGeneration
<1>4. n \in Nat /\ faults \in Nat
  BY FS_CardinalityType DEF CInv, IInv, TypeOK
<1> HIDE DEF D, n
<1>5. CASE r \in Wanted
  BY <1>3, <1>5 DEF D, n
<1>6. CASE r = 0
  <2>1. n * r = 0 /\ n * w \in Nat
    BY <1>2, <1>4, <1>6
  <2>2. Cardinality(D) <= n * w + faults
    BY <1>3, <1>4, <2>1
  <2> QED
    BY <1>2, <2>2 DEF D, n
<1> QED
  BY <1>1, <1>5, <1>6

\* However the passes of the loop and of the handlers interleave, and whatever
\* fails or restarts: no service has more running replicas of one generation
\* than every caller wants on its own, and one for each fault.  Names no service
\* shares with another are assumed, and finitely many callers.
THEOREM OvershootHasABound ==
  ASSUME OwnNames, IsFiniteSet(Callers)
  PROVE  ControlPlaneSpec => []OvershootIsBounded
<1>1. ControlPlaneInit => CInv /\ OvershootInv
  BY CInit, OvershootInit
<1>2. CInv /\ OvershootInv /\ [ControlPlaneNext]_allVars => CInv' /\ OvershootInv'
  BY CNext, OvershootNext
<1>3. CInv /\ OvershootInv => OvershootIsBounded
  BY OvershootHolds
<1> QED
  BY <1>1, <1>2, <1>3, PTL DEF ControlPlaneSpec

-----------------------------------------------------------------------------
(***************************************************************************)
(* The bound in terms of what was asked for.                               *)
(***************************************************************************)
\* What the bound rests on when service s was never asked to have more than r
\* replicas.
DemandInv(s, r) ==
  /\ CInv
  /\ Cardinality(Sick) <= faults
  /\ Ceiling(s, r) /\ Bounded(s, r)

\* The file holds no more either.
LEMMA SavedBelow ==
  ASSUME CInv, [ControlPlaneNext]_allVars, NEW s \in Services, NEW r \in Nat,
         Ceiling(s, r), services'[s].replicas <= r
  PROVE  saved'[s].replicas <= r
  BY StoreSteps DEF CInv, Ceiling

\* In every behaviour, from the largest replica count that a service was ever
\* asked to have: it runs no more replicas of one generation than that for every
\* caller, and one for each fault.  The count need not be bounded beforehand.
THEOREM OvershootFollowsDemand ==
  ASSUME OwnNames, IsFiniteSet(Callers), NEW s \in Services, NEW r \in Nat
  PROVE  ControlPlaneSpec /\ [](services[s].replicas <= r)
           => [](\A g \in 1 .. MaxGeneration :
                   Cardinality(Replicas(s, g)) <= Cardinality(Callers) * r + faults)
<1> DEFINE Below == services[s].replicas <= r
           Bound == \A g \in 1 .. MaxGeneration :
                      Cardinality(Replicas(s, g)) <= Cardinality(Callers) * r + faults
<1>1. ControlPlaneInit /\ Below => DemandInv(s, r)
  <2> SUFFICES ASSUME ControlPlaneInit, Below PROVE DemandInv(s, r)
    OBVIOUS
  <2>1. CInv /\ OvershootInv
    BY CInit, OvershootInit
  <2>2. Bounded(s, r) /\ Ceiling(s, r)
    BY NothingStarted, InitialCeiling
  <2> QED
    BY <2>1, <2>2 DEF OvershootInv, DemandInv
<1>2. DemandInv(s, r) /\ Below' /\ [ControlPlaneNext]_allVars => DemandInv(s, r)'
  <2> SUFFICES ASSUME DemandInv(s, r), Below', [ControlPlaneNext]_allVars PROVE DemandInv(s, r)'
    OBVIOUS
  <2>1. CInv /\ Ceiling(s, r) /\ Bounded(s, r) /\ CInv'
    BY CNext DEF DemandInv
  <2>2. Cardinality(Sick') <= faults'
    BY <2>1, SickStep DEF DemandInv
  <2>3. Ceiling(s, r)'
    BY <2>1, SavedBelow, CeilingKept
  <2>4. Bounded(s, r)'
    BY <2>1, <2>2, <2>3, BoundedStep
  <2> QED
    BY <2>1, <2>2, <2>3, <2>4 DEF DemandInv, Sick
<1>3. DemandInv(s, r) => Bound
  BY AtMost DEF DemandInv
<1> HIDE DEF Below, Bound
<1>4. ControlPlaneSpec /\ []Below => []Bound
  BY <1>1, <1>2, <1>3, PTL DEF ControlPlaneSpec
<1> QED
  BY <1>4 DEF Below, Bound
=============================================================================
