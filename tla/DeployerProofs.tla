--------------------------- MODULE DeployerProofs ---------------------------
(***************************************************************************)
(* The type of the orchestrator's state, for every number of callers,      *)
(* services and containers, and the lemmas about Docker and the passes     *)
(* that the other proofs build on.                                         *)
(***************************************************************************)
EXTENDS ControlPlane, ServiceSpecsProofs, FiniteSetTheorems, TLAPS

-----------------------------------------------------------------------------
(***************************************************************************)
(* Docker and the tracker.                                                 *)
(***************************************************************************)
\* The part of the type invariant that calls to Docker can disturb.
DockerOK ==
  /\ containers \in [Ids -> Container \cup {NoContainer}]
  /\ created \in 0 .. MaxContainers
  /\ tracker \in [Ids -> Health]
  /\ faults \in 0 .. MaxFaults

\* Every container is older than this step, unless it was created by it with
\* the given service and generation.
NewFrom(s, g) ==
  \A c \in Ids : containers'[c].state # "none" =>
    \/ /\ containers[c].state # "none"
       /\ containers'[c].service = containers[c].service
       /\ containers'[c].generation = containers[c].generation
    \/ containers'[c].service = s /\ containers'[c].generation = g

\* Ids are given out in order.
FreshIds == \A c \in Ids : containers[c].state # "none" => c <= created

\* No service matches the containers of another one by the prefix of its name.
OwnNames == \A s \in Services : Claims[s] = {s}

\* c alone may have changed.
OnlyChanges(c) == \A d \in Ids \ {c} : containers'[d] = containers[d]

\* The fault counter keeps its type.
LEMMA FaultType ==
  ASSUME faults \in 0 .. MaxFaults, Fault
  PROVE  faults' \in 0 .. MaxFaults /\ faults' = faults + 1
  BY DeployerAssumption DEF Fault

\* A container that changes its state keeps its labels.
LEMMA StateChange ==
  ASSUME DockerOK, NEW c \in Ids, containers[c].state # "none",
         NEW st \in {"created", "running", "exited"},
         containers' = [containers EXCEPT ![c].state = st], NEW s, NEW g
  PROVE  /\ containers' \in [Ids -> Container \cup {NoContainer}]
         /\ NewFrom(s, g)
         /\ OnlyChanges(c)
         /\ containers'[c].state = st
         /\ containers'[c].service = containers[c].service
         /\ containers'[c].generation = containers[c].generation
<1>1. containers[c] \in Container
  BY DEF DockerOK, NoContainer
<1>2. /\ [containers[c] EXCEPT !.state = st] \in Container
      /\ [containers[c] EXCEPT !.state = st].state = st
      /\ [containers[c] EXCEPT !.state = st].service = containers[c].service
      /\ [containers[c] EXCEPT !.state = st].generation = containers[c].generation
  BY <1>1 DEF Container
<1>3. containers' = [containers EXCEPT ![c] = [containers[c] EXCEPT !.state = st]]
  OBVIOUS
<1>4. containers' \in [Ids -> Container \cup {NoContainer}]
  BY <1>2, <1>3 DEF DockerOK
<1>5. containers'[c] = [containers[c] EXCEPT !.state = st] /\ OnlyChanges(c)
  BY <1>3 DEF DockerOK, OnlyChanges
<1>6. NewFrom(s, g)
  BY <1>2, <1>5 DEF NewFrom, OnlyChanges
<1> QED
  BY <1>2, <1>4, <1>5, <1>6

\* Creating a container gives it the service and the generation asked for.
LEMMA CreateContainerStep ==
  ASSUME DockerOK, NEW s \in Services, NEW spec \in ValidSpec, CreateContainer(s, spec)
  PROVE  /\ DockerOK'
         /\ NewFrom(s, spec.generation)
         /\ created + 1 \in Ids /\ OnlyChanges(created + 1)
         /\ containers'[created + 1] = [service |-> s, image |-> spec.image,
                                        generation |-> spec.generation, state |-> "created"]
         /\ FreshIds => FreshIds'
<1> DEFINE c == created + 1
           new == [service |-> s, image |-> spec.image, generation |-> spec.generation,
                   state |-> "created"]
<1>1. c \in Ids /\ created' = c /\ created' \in 0 .. MaxContainers /\ created \in Int
  BY DeployerAssumption DEF DockerOK, CreateContainer, Ids
<1>2. new \in Container
  BY DEF ValidSpec, Container
<1>3. containers' = [containers EXCEPT ![c] = new]
  BY DEF CreateContainer
<1>4. containers' \in [Ids -> Container \cup {NoContainer}]
  BY <1>1, <1>2, <1>3 DEF DockerOK
<1>5. containers'[c] = new /\ OnlyChanges(c)
  BY <1>1, <1>3 DEF DockerOK, OnlyChanges
<1>6. NewFrom(s, spec.generation)
  BY <1>5 DEF NewFrom, OnlyChanges
<1>7. FreshIds => FreshIds'
  BY <1>1, <1>5 DEF FreshIds, OnlyChanges, Ids
<1> QED
  BY <1>1, <1>4, <1>5, <1>6, <1>7 DEF DockerOK, CreateContainer

\* A step that leaves the containers alone.
LEMMA DockerUnchanged ==
  ASSUME DockerOK, UNCHANGED <<containers, created>>, NEW s, NEW g
  PROVE  NewFrom(s, g) /\ (FreshIds => FreshIds')
  BY DEF DockerOK, NewFrom, FreshIds

\* Failed creations and starts leave no trace but the fault.
LEMMA FailedStartStep ==
  ASSUME DockerOK, CreateFails \/ StartFails, NEW s, NEW g
  PROVE  /\ DockerOK' /\ NewFrom(s, g) /\ (FreshIds => FreshIds')
         /\ UNCHANGED <<containers, created, tracker>>
<1>1. faults' \in 0 .. MaxFaults /\ UNCHANGED <<containers, created, tracker>>
  BY FaultType DEF CreateFails, StartFails, DockerOK
<1> QED
  BY <1>1, DockerUnchanged DEF DockerOK

\* A container that starts keeps its labels.
LEMMA StartContainerStep ==
  ASSUME DockerOK, NEW c \in Ids, StartContainer(c), NEW s, NEW g
  PROVE  DockerOK' /\ NewFrom(s, g) /\ OnlyChanges(c) /\ (FreshIds => FreshIds')
<1>1. /\ containers' \in [Ids -> Container \cup {NoContainer}]
      /\ NewFrom(s, g) /\ OnlyChanges(c)
  BY StateChange DEF StartContainer
<1> QED
  BY <1>1 DEF StartContainer, DockerOK, FreshIds, OnlyChanges

\* Looking up its port changes at most its health record.
LEMMA TrackStep ==
  ASSUME DockerOK, NEW c \in Ids, TrackContainer(c) \/ PortNotFound(c), NEW s, NEW g
  PROVE  /\ DockerOK' /\ NewFrom(s, g) /\ (FreshIds => FreshIds')
         /\ UNCHANGED <<containers, created>>
<1>1. tracker' \in [Ids -> Health]
  BY DEF TrackContainer, PortNotFound, DockerOK, Health
<1>2. faults' \in 0 .. MaxFaults /\ UNCHANGED <<containers, created>>
  BY FaultType DEF TrackContainer, PortNotFound, DockerOK
<1> QED
  BY <1>1, <1>2, DockerUnchanged DEF DockerOK

\* A stop, successful or not, creates no container and changes one at most: it
\* is gone, or has exited, or is as it was.
LEMMA StopStep ==
  ASSUME DockerOK, NEW c \in Ids, StopContainer(c) \/ StopFails(c), NEW s, NEW g
  PROVE  /\ DockerOK' /\ NewFrom(s, g) /\ OnlyChanges(c) /\ (FreshIds => FreshIds')
         /\ created' = created
         /\ \/ containers'[c].state \in {"none", "exited"}
            \/ containers'[c] = containers[c]
<1>1. CASE StopContainer(c)
  <2>1. containers' \in [Ids -> Container \cup {NoContainer}] /\ containers'[c] = NoContainer
        /\ OnlyChanges(c)
    BY <1>1 DEF DockerOK, StopContainer, OnlyChanges
  <2>2. tracker' \in [Ids -> Health]
    BY <1>1 DEF DockerOK, StopContainer, Health
  <2>3. NewFrom(s, g)
    BY <2>1 DEF NewFrom, OnlyChanges, NoContainer
  <2> QED
    BY <1>1, <2>1, <2>2, <2>3 DEF DockerOK, StopContainer, FreshIds, OnlyChanges, NoContainer
<1>2. CASE StopFails(c) /\ UNCHANGED <<containers, tracker>> /\ (UNCHANGED faults \/ Fault)
  <2>1. faults' \in 0 .. MaxFaults /\ created' = created /\ tracker' = tracker
    BY <1>2, FaultType DEF DockerOK, StopFails
  <2> QED
    BY <1>2, <2>1, DockerUnchanged DEF DockerOK, OnlyChanges
<1>3. CASE /\ StopFails(c)
           /\ containers[c].state # "none"
           /\ Fault
           /\ containers' = [containers EXCEPT ![c].state = "exited"]
           /\ tracker' = [tracker EXCEPT ![c] = "absent"]
  <2>1. /\ containers' \in [Ids -> Container \cup {NoContainer}]
        /\ NewFrom(s, g) /\ OnlyChanges(c) /\ containers'[c].state = "exited"
    BY <1>3, StateChange
  <2>2. tracker' \in [Ids -> Health] /\ faults' \in 0 .. MaxFaults
    BY <1>3, FaultType DEF DockerOK, Health
  <2> QED
    BY <1>3, <2>1, <2>2 DEF DockerOK, StopFails, FreshIds, OnlyChanges
<1> QED
  BY <1>1, <1>2, <1>3 DEF StopFails

\* So does a container that starts late or exits.
LEMMA AloneStep ==
  ASSUME DockerOK, NEW c \in Ids, StartsLate(c) \/ ContainerExits(c), NEW s, NEW g
  PROVE  /\ DockerOK' /\ NewFrom(s, g) /\ OnlyChanges(c) /\ (FreshIds => FreshIds')
         /\ created' = created
<1>1. /\ containers' \in [Ids -> Container \cup {NoContainer}]
      /\ NewFrom(s, g) /\ OnlyChanges(c)
  BY StateChange DEF StartsLate, ContainerExits
<1>2. faults' \in 0 .. MaxFaults
  BY FaultType DEF StartsLate, ContainerExits, DockerOK
<1> QED
  BY <1>1, <1>2 DEF StartsLate, ContainerExits, DockerOK, FreshIds, OnlyChanges

\* The count of a set of containers is a number.
LEMMA CountType ==
  ASSUME NEW S \in SUBSET Ids
  PROVE  Cardinality(S) \in Nat /\ IsFiniteSet(S)
<1>1. IsFiniteSet(Ids)
  BY FS_Interval, DeployerAssumption DEF Ids
<1> QED
  BY <1>1, FS_Subset, FS_CardinalityType

-----------------------------------------------------------------------------
(***************************************************************************)
(* The passes.                                                             *)
(***************************************************************************)
Working == {"classify", "act", "start", "track"}

\* The requests that handlers serve.
HandlerState ==
  [pc : {"idle", "save", "list", "stop", "reconcile"}, service : Services \cup {0},
   delete : BOOLEAN, victims : SUBSET Ids, listed : SUBSET Ids]

ProcessOK ==
  /\ saved \in Store /\ crashes \in Nat
  /\ handler \in [Callers -> HandlerState]
  /\ \A t \in Callers : handler[t].pc # "idle" => handler[t].service \in Services

IInv == TypeOK /\ PassesWorkOnSpecs /\ ProcessOK /\ FreshIds

\* What one step of the pass of t may do to the locals of the pass: they stay
\* well-formed, and the copies of the specs stay as they are or are dropped.
PassMoves(t, q) ==
  /\ q \in Pass
  /\ WorksOnSpecs(q)
  /\ q.specs = pass[t].specs \/ q.specs = IdlePass.specs
  /\ pass' = [pass EXCEPT ![t] = q]

\* An idle pass is well-formed.
LEMMA IdleType == IdlePass \in Pass /\ WorksOnSpecs(IdlePass) /\ IdlePass.pc = "idle"
  BY DEF IdlePass, Pass, WorksOnSpecs, Store

\* Going on to the next service keeps the copies or ends the pass.
LEMMA AdvanceType ==
  ASSUME NEW p \in Pass, \A s \in p.todo : Found(p.specs, s)
  PROVE  /\ Advance(p) \in Pass
         /\ WorksOnSpecs(Advance(p))
         /\ Advance(p).specs = p.specs \/ Advance(p).specs = IdlePass.specs
         /\ Advance(p).pc \in {"idle", "next"}
         /\ Advance(p).outdated = {} /\ Advance(p).seen = {} /\ Advance(p).unhealthy = {}
         /\ Advance(p).available = {} /\ Advance(p).service = 0 /\ Advance(p).starting = 0
<1>1. CASE p.todo = {}
  BY <1>1, IdleType DEF Advance, IdlePass
<1>2. CASE p.todo # {}
  <2> DEFINE q == [IdlePass EXCEPT !.pc = "next", !.todo = p.todo, !.specs = p.specs]
  <2>1. /\ q \in Pass /\ q.pc = "next" /\ q.todo = p.todo /\ q.specs = p.specs
        /\ q.outdated = {} /\ q.seen = {} /\ q.unhealthy = {}
        /\ q.available = {} /\ q.service = 0 /\ q.starting = 0
    BY IdleType DEF Pass, IdlePass
  <2>2. Advance(p) = q
    BY <1>2 DEF Advance
  <2> QED
    BY <2>1, <2>2 DEF WorksOnSpecs
<1> QED
  BY <1>1, <1>2

\* Facts about every pass, and about one that works on a service.
LEMMA PassFacts ==
  ASSUME IInv, NEW t \in Callers
  PROVE  /\ pass[t] \in Pass
         /\ WorksOnSpecs(pass[t])
         /\ \A s \in pass[t].todo : Found(pass[t].specs, s)
         /\ pass[t].pc \in Working =>
              pass[t].service \in Services /\ SpecOf(pass[t]) \in ValidSpec
         /\ pass[t].pc \in {"start", "track"} => pass[t].starting \in Ids
<1>1. pass[t] \in Pass /\ WorksOnSpecs(pass[t])
  BY DEF IInv, TypeOK, PassesWorkOnSpecs
<1>2. pass[t].specs \in Store
  BY <1>1 DEF Pass
<1> QED
  BY <1>1, <1>2, FoundGeneration DEF WorksOnSpecs, SpecOf, Working

\* Counting the missing replicas touches nothing else.
LEMMA CountedType ==
  ASSUME NEW p \in Pass, p.pc = "classify", WorksOnSpecs(p)
  PROVE  /\ Counted(p) \in Pass /\ WorksOnSpecs(Counted(p))
         /\ Counted(p).pc \in {"classify", "act"}
         /\ Counted(p).specs = p.specs /\ Counted(p).service = p.service
         /\ Counted(p).todo = p.todo /\ Counted(p).outdated = p.outdated
         /\ Counted(p).seen = p.seen /\ Counted(p).unhealthy = p.unhealthy
         /\ Counted(p).available = p.available /\ Counted(p).starting = p.starting
         /\ Counted(p).pc = "act" =>
              p.seen = {} /\ Counted(p).missing = SpecOf(p).replicas - Cardinality(p.available)
         /\ Counted(p).pc = "classify" => Counted(p) = p /\ p.seen # {}
<1>1. CASE p.seen # {}
  BY <1>1 DEF Counted
<1>2. CASE p.seen = {}
  <2> DEFINE m == SpecOf(p).replicas - Cardinality(p.available)
             q == [p EXCEPT !.pc = "act", !.missing = m]
  <2>1. p.service \in Services /\ SpecOf(p) \in ValidSpec /\ p.available \in SUBSET Ids
    BY FoundGeneration DEF WorksOnSpecs, SpecOf, Pass
  <2>2. m \in Int
    BY <2>1, CountType DEF ValidSpec
  <2>3. Counted(p) = q
    BY <1>2 DEF Counted
  <2> HIDE DEF m
  <2>4. /\ q \in Pass /\ q.specs = p.specs /\ q.service = p.service /\ q.todo = p.todo
        /\ q.outdated = p.outdated /\ q.seen = p.seen /\ q.unhealthy = p.unhealthy
        /\ q.available = p.available /\ q.pc = "act" /\ q.starting = p.starting
        /\ q.missing = m
    BY <2>2 DEF Pass
  <2> HIDE DEF q
  <2>5. WorksOnSpecs(q)
    BY <2>4 DEF WorksOnSpecs
  <2> QED
    BY <1>2, <2>3, <2>4, <2>5 DEF m
<1> QED
  BY <1>1, <1>2

\* After a start, the pass goes on with the service or with the next one.
LEMMA AfterStartType ==
  ASSUME NEW p \in Pass, p.pc \in Working, WorksOnSpecs(p)
  PROVE  /\ AfterStart(p) \in Pass /\ WorksOnSpecs(AfterStart(p))
         /\ AfterStart(p).specs = p.specs \/ AfterStart(p).specs = IdlePass.specs
         /\ AfterStart(p).starting = 0 /\ AfterStart(p).pc \in {"idle", "next", "act"}
<1>1. CASE p.outdated # {}
  BY <1>1, AdvanceType DEF AfterStart, WorksOnSpecs
<1>2. CASE p.outdated = {}
  <2> DEFINE m == p.missing - 1
             q == [p EXCEPT !.pc = "act", !.missing = m, !.starting = 0]
  <2>1. m \in Int
    BY DEF Pass
  <2> HIDE DEF m
  <2>2. /\ q \in Pass /\ q.specs = p.specs /\ q.service = p.service /\ q.todo = p.todo
        /\ q.pc = "act" /\ q.starting = 0
    BY <2>1 DEF Pass
  <2>3. AfterStart(p) = q
    BY <1>2 DEF AfterStart, m
  <2> HIDE DEF q
  <2> QED
    BY <2>2, <2>3 DEF WorksOnSpecs, Working
<1> QED
  BY <1>1, <1>2

\* Listing the containers of a service.
LEMMA ListStep ==
  ASSUME IInv, NEW t \in Callers, ListRunningContainers(t)
  PROVE  \E q : PassMoves(t, q)
<1> DEFINE p == pass[t]
<1>1. PICK s \in p.todo :
        LET old == {c \in Matching(s) : containers[c].generation # p.specs[s].generation}
        IN  pass' = [pass EXCEPT ![t] =
              Counted([p EXCEPT !.pc = "classify", !.service = s, !.todo = p.todo \ {s},
                                !.outdated = old, !.seen = Matching(s) \ old])]
  BY DEF ListRunningContainers
<1> DEFINE old == {c \in Matching(s) : containers[c].generation # p.specs[s].generation}
           q == [p EXCEPT !.pc = "classify", !.service = s, !.todo = p.todo \ {s},
                          !.outdated = old, !.seen = Matching(s) \ old]
<1>2. old \in SUBSET Ids /\ Matching(s) \in SUBSET Ids
  BY DEF Matching, Running
<1>3. p \in Pass /\ WorksOnSpecs(p) /\ s \in Services /\ Found(p.specs, s)
  BY PassFacts DEF Pass
<1>4. pass' = [pass EXCEPT ![t] = Counted(q)]
  BY <1>1
<1> HIDE DEF old
<1>5. q \in Pass /\ q.pc = "classify" /\ q.specs = p.specs /\ q.service = s
      /\ q.todo = p.todo \ {s}
  BY <1>2, <1>3 DEF Pass
<1> HIDE DEF q
<1>6. WorksOnSpecs(q)
  BY <1>3, <1>5 DEF WorksOnSpecs
<1> QED
  BY <1>4, <1>5, <1>6, CountedType DEF PassMoves

\* Giving a service up because the list failed.
LEMMA ListFailsStep ==
  ASSUME IInv, NEW t \in Callers, ListFails(t)
  PROVE  \E q : PassMoves(t, q)
<1> DEFINE p == pass[t]
<1>1. PICK s \in p.todo : pass' = [pass EXCEPT ![t] = Advance([p EXCEPT !.todo = p.todo \ {s}])]
  BY DEF ListFails
<1> DEFINE q == [p EXCEPT !.todo = p.todo \ {s}]
<1>2. q \in Pass /\ q.specs = p.specs /\ q.todo = p.todo \ {s}
  BY PassFacts DEF Pass
<1>3. pass' = [pass EXCEPT ![t] = Advance(q)]
  BY <1>1
<1> HIDE DEF q
<1>4. \A o \in q.todo : Found(q.specs, o)
  BY <1>2, PassFacts
<1> QED
  BY <1>2, <1>3, <1>4, AdvanceType DEF PassMoves

\* Reading the health of one replica.
LEMMA ReadHealthStep ==
  ASSUME IInv, NEW t \in Callers, ReadHealth(t)
  PROVE  \E q : PassMoves(t, q)
<1> DEFINE p == pass[t]
<1>1. PICK c \in p.seen :
        LET q == [p EXCEPT !.seen = p.seen \ {c}] IN
        pass' = [pass EXCEPT ![t] = Counted(
             IF tracker[c] = "unhealthy"
             THEN [q EXCEPT !.unhealthy = p.unhealthy \cup {c}]
             ELSE [q EXCEPT !.available = p.available \cup {c}])]
  BY DEF ReadHealth
<1> DEFINE q0 == [p EXCEPT !.seen = p.seen \ {c}]
           q1 == [q0 EXCEPT !.unhealthy = p.unhealthy \cup {c}]
           q2 == [q0 EXCEPT !.available = p.available \cup {c}]
<1>2. p \in Pass /\ WorksOnSpecs(p) /\ p.pc = "classify" /\ c \in Ids
  BY PassFacts DEF ReadHealth, Pass
<1>3. p.seen \ {c} \in SUBSET Ids /\ p.unhealthy \cup {c} \in SUBSET Ids
      /\ p.available \cup {c} \in SUBSET Ids
  BY <1>2 DEF Pass
<1>4. /\ q1 \in Pass /\ q1.pc = "classify" /\ q1.specs = p.specs /\ q1.service = p.service
      /\ q1.todo = p.todo
  BY <1>2, <1>3 DEF Pass
<1>5. /\ q2 \in Pass /\ q2.pc = "classify" /\ q2.specs = p.specs /\ q2.service = p.service
      /\ q2.todo = p.todo
  BY <1>2, <1>3 DEF Pass
<1>6. pass' = [pass EXCEPT ![t] = Counted(q1)] \/ pass' = [pass EXCEPT ![t] = Counted(q2)]
  BY <1>1
<1> HIDE DEF q1, q2
<1>7. WorksOnSpecs(q1) /\ WorksOnSpecs(q2)
  BY <1>2, <1>4, <1>5 DEF WorksOnSpecs
<1>8. PassMoves(t, Counted(q1)) \/ PassMoves(t, Counted(q2))
  BY <1>4, <1>5, <1>6, <1>7, CountedType DEF PassMoves
<1> QED
  BY <1>8

\* What one step of the pass of t may do altogether: a container it creates is
\* of the service and the generation the pass works on.
StepOK(t) ==
  /\ DockerOK'
  /\ NewFrom(pass[t].service, SpecOf(pass[t]).generation)
  /\ FreshIds'
  /\ \E q : PassMoves(t, q)
  /\ UNCHANGED <<services, requests>>

\* The parts of the invariant that the lemmas on Docker need.
LEMMA DockerFacts == IInv => DockerOK /\ FreshIds
  BY DEF IInv, TypeOK, DockerOK

\* Ending the service and going on to the next one.
LEMMA AdvanceMoves ==
  ASSUME IInv, NEW t \in Callers, pass' = [pass EXCEPT ![t] = Advance(pass[t])]
  PROVE  \E q : PassMoves(t, q)
  BY PassFacts, AdvanceType DEF PassMoves

\* A call of StartContainer is over.
LEMMA AfterStartMoves ==
  ASSUME IInv, NEW t \in Callers, pass[t].pc \in Working,
         pass' = [pass EXCEPT ![t] = AfterStart(pass[t])]
  PROVE  \E q : PassMoves(t, q)
  BY PassFacts, AfterStartType DEF PassMoves

\* Replacing an unhealthy replica.
LEMMA ReplaceUnhealthyStep ==
  ASSUME IInv, NEW t \in Callers, ReplaceUnhealthy(t)
  PROVE  StepOK(t)
<1> DEFINE p == pass[t]
<1>1. DockerOK /\ FreshIds /\ p.pc \in Working /\ UNCHANGED <<services, requests>>
  BY DockerFacts DEF ReplaceUnhealthy, Working
<1>2. PICK c \in p.unhealthy :
        /\ StopContainer(c) \/ StopFails(c)
        /\ pass' = [pass EXCEPT ![t] = [p EXCEPT !.unhealthy = p.unhealthy \ {c}]]
  BY DEF ReplaceUnhealthy
<1>3. c \in Ids
  BY <1>1, PassFacts DEF Pass
<1>4. DockerOK' /\ NewFrom(p.service, SpecOf(p).generation) /\ FreshIds'
  BY <1>1, <1>2, <1>3, StopStep
<1> DEFINE q == [p EXCEPT !.unhealthy = p.unhealthy \ {c}]
<1>5. /\ q \in Pass /\ q.specs = p.specs /\ q.service = p.service
      /\ q.todo = p.todo /\ q.pc = p.pc /\ q.starting = p.starting
  BY <1>1, PassFacts DEF Pass
<1>6. WorksOnSpecs(q)
  BY <1>1, <1>5, PassFacts DEF WorksOnSpecs
<1> HIDE DEF q
<1>7. PassMoves(t, q)
  BY <1>2, <1>5, <1>6 DEF PassMoves, q
<1> QED
  BY <1>1, <1>4, <1>7 DEF StepOK

\* Creating a missing replica.
LEMMA CreateReplicaStep ==
  ASSUME IInv, NEW t \in Callers, CreateReplica(t)
  PROVE  StepOK(t)
<1> DEFINE p == pass[t]
           q == [p EXCEPT !.pc = "start", !.starting = created + 1]
<1>1. /\ DockerOK /\ FreshIds /\ p.pc \in Working /\ UNCHANGED <<services, requests>>
      /\ p.service \in Services /\ SpecOf(p) \in ValidSpec /\ p \in Pass /\ WorksOnSpecs(p)
  BY DockerFacts, PassFacts DEF CreateReplica, Working
<1>2. CASE CreateContainer(p.service, SpecOf(p)) /\ pass' = [pass EXCEPT ![t] = q]
  <2>1. DockerOK' /\ NewFrom(p.service, SpecOf(p).generation) /\ FreshIds' /\ created + 1 \in Ids
    BY <1>1, <1>2, CreateContainerStep
  <2>2. /\ q \in Pass /\ q.specs = p.specs /\ q.service = p.service /\ q.todo = p.todo
        /\ q.pc = "start" /\ q.starting \in Ids
    BY <1>1, <2>1 DEF Pass
  <2>3. pass' = [pass EXCEPT ![t] = q]
    BY <1>2
  <2> HIDE DEF q
  <2>4. PassMoves(t, q)
    BY <1>1, <2>2, <2>3 DEF PassMoves, WorksOnSpecs, Working
  <2> QED
    BY <1>1, <2>1, <2>4 DEF StepOK
<1>3. CASE CreateFails /\ pass' = [pass EXCEPT ![t] = AfterStart(p)]
  BY <1>1, <1>3, FailedStartStep, AfterStartMoves DEF StepOK
<1> QED
  BY <1>2, <1>3 DEF CreateReplica

\* Starting the container that was created.
LEMMA StartReplicaStep ==
  ASSUME IInv, NEW t \in Callers, StartReplica(t)
  PROVE  StepOK(t)
<1> DEFINE p == pass[t]
           q == [p EXCEPT !.pc = "track"]
<1>1. /\ DockerOK /\ FreshIds /\ p.pc \in Working /\ UNCHANGED <<services, requests>>
      /\ p.starting \in Ids /\ p.service \in Services /\ p \in Pass /\ WorksOnSpecs(p)
  BY DockerFacts, PassFacts DEF StartReplica, Working
<1>2. CASE StartContainer(p.starting) /\ pass' = [pass EXCEPT ![t] = q]
  <2>1. DockerOK' /\ NewFrom(p.service, SpecOf(p).generation) /\ FreshIds'
    BY <1>1, <1>2, StartContainerStep
  <2>2. /\ q \in Pass /\ q.specs = p.specs /\ q.service = p.service /\ q.todo = p.todo
        /\ q.pc = "track" /\ q.starting = p.starting
    BY <1>1 DEF Pass
  <2>3. pass' = [pass EXCEPT ![t] = q]
    BY <1>2
  <2> HIDE DEF q
  <2>4. PassMoves(t, q)
    BY <1>1, <2>2, <2>3 DEF PassMoves, WorksOnSpecs, Working
  <2> QED
    BY <1>1, <2>1, <2>4 DEF StepOK
<1>3. CASE StartFails /\ pass' = [pass EXCEPT ![t] = AfterStart(p)]
  BY <1>1, <1>3, FailedStartStep, AfterStartMoves DEF StepOK
<1> QED
  BY <1>2, <1>3 DEF StartReplica

\* Tracking it.
LEMMA TrackReplicaStep ==
  ASSUME IInv, NEW t \in Callers, TrackReplica(t)
  PROVE  StepOK(t)
<1>1. /\ DockerOK /\ FreshIds /\ pass[t].pc \in Working /\ UNCHANGED <<services, requests>>
      /\ pass[t].starting \in Ids
  BY DockerFacts, PassFacts DEF TrackReplica, Working
<1> QED
  BY <1>1, TrackStep, AfterStartMoves DEF TrackReplica, StepOK

\* Stopping one outdated replica.
LEMMA RolloutStopStep ==
  ASSUME IInv, NEW t \in Callers, RolloutStop(t)
  PROVE  StepOK(t)
<1> DEFINE p == pass[t]
<1>1. DockerOK /\ FreshIds /\ UNCHANGED <<services, requests>>
  BY DockerFacts DEF RolloutStop
<1>2. PICK c \in p.outdated : StopContainer(c) \/ StopFails(c)
  BY DEF RolloutStop
<1>3. c \in Ids
  BY PassFacts DEF Pass
<1>4. DockerOK' /\ NewFrom(p.service, SpecOf(p).generation) /\ FreshIds'
  BY <1>1, <1>2, <1>3, StopStep
<1>5. \E q : PassMoves(t, q)
  BY AdvanceMoves DEF RolloutStop
<1> QED
  BY <1>1, <1>4, <1>5 DEF StepOK

\* Stopping one surplus replica.
LEMMA ScaleDownStep ==
  ASSUME IInv, NEW t \in Callers, ScaleDown(t)
  PROVE  StepOK(t)
<1> DEFINE p == pass[t]
<1>1. /\ DockerOK /\ FreshIds /\ p.pc = "act" /\ UNCHANGED <<services, requests>>
      /\ p \in Pass /\ WorksOnSpecs(p)
  BY DockerFacts, PassFacts DEF ScaleDown
<1>2. PICK c \in p.available :
        \/ /\ StopContainer(c)
           /\ pass' = [pass EXCEPT ![t] =
                 [p EXCEPT !.missing = p.missing + 1, !.available = p.available \ {c}]]
        \/ /\ StopFails(c)
           /\ pass' = [pass EXCEPT ![t] = [p EXCEPT !.missing = p.missing + 1]]
  BY DEF ScaleDown
<1>3. c \in Ids
  BY <1>1 DEF Pass
<1>4. DockerOK' /\ NewFrom(p.service, SpecOf(p).generation) /\ FreshIds'
  BY <1>1, <1>2, <1>3, StopStep
<1> DEFINE q1 == [p EXCEPT !.missing = p.missing + 1, !.available = p.available \ {c}]
           q2 == [p EXCEPT !.missing = p.missing + 1]
<1>5. p.missing + 1 \in Int /\ p.available \ {c} \in SUBSET Ids
  BY <1>1 DEF Pass
<1>6. /\ q1 \in Pass /\ q1.specs = p.specs /\ q1.service = p.service
      /\ q1.todo = p.todo /\ q1.pc = "act"
  BY <1>1, <1>5 DEF Pass
<1>7. /\ q2 \in Pass /\ q2.specs = p.specs /\ q2.service = p.service
      /\ q2.todo = p.todo /\ q2.pc = "act"
  BY <1>1, <1>5 DEF Pass
<1>8. pass' = [pass EXCEPT ![t] = q1] \/ pass' = [pass EXCEPT ![t] = q2]
  BY <1>2
<1> HIDE DEF q1, q2
<1>9. PassMoves(t, q1) \/ PassMoves(t, q2)
  BY <1>1, <1>6, <1>7, <1>8 DEF PassMoves, WorksOnSpecs
<1> QED
  BY <1>1, <1>4, <1>9 DEF StepOK

\* Every step of a pass.
LEMMA PassStepOK ==
  ASSUME IInv, NEW t \in Callers, PassStep(t)
  PROVE  StepOK(t)
<1>0. DockerOK /\ FreshIds
  BY DockerFacts
<1>1. CASE ListRunningContainers(t)
  BY <1>0, <1>1, ListStep, DockerUnchanged DEF ListRunningContainers, StepOK, DockerOK
<1>2. CASE ListFails(t)
  <2>1. faults' \in 0 .. MaxFaults /\ UNCHANGED <<containers, created, tracker>>
    BY <1>0, <1>2, FaultType DEF ListFails, DockerOK
  <2> QED
    BY <1>0, <1>2, <2>1, ListFailsStep, DockerUnchanged DEF ListFails, StepOK, DockerOK
<1>3. CASE ReadHealth(t)
  BY <1>0, <1>3, ReadHealthStep, DockerUnchanged DEF ReadHealth, StepOK, DockerOK
<1>4. CASE TrackPanics(t)
  <2>1. PassMoves(t, IdlePass)
    BY <1>4, IdleType DEF TrackPanics, PassMoves
  <2>2. faults' \in 0 .. MaxFaults
    BY <1>0, <1>4, FaultType DEF TrackPanics, DockerOK
  <2> QED
    BY <1>0, <1>4, <2>1, <2>2, DockerUnchanged DEF TrackPanics, StepOK, DockerOK
<1>5. CASE EndService(t)
  <2>1. \E q : PassMoves(t, q)
    BY <1>5, AdvanceMoves DEF EndService
  <2> QED
    BY <1>0, <1>5, <2>1, DockerUnchanged DEF EndService, StepOK, DockerOK
<1> QED
  BY <1>1, <1>2, <1>3, <1>4, <1>5, ReplaceUnhealthyStep, CreateReplicaStep, StartReplicaStep,
     TrackReplicaStep, RolloutStopStep, ScaleDownStep DEF PassStep

\* Beginning a pass takes copies of what is stored, or nothing.
LEMMA BeginPassStep ==
  ASSUME IInv, NEW t \in Callers, BeginPass(t)
  PROVE  \E q \in Pass : /\ WorksOnSpecs(q)
                         /\ q.specs = services \/ q.specs = IdlePass.specs
                         /\ q.pc \in {"idle", "next"} /\ q.service = 0 /\ q.starting = 0
                         /\ q.outdated = {} /\ q.seen = {} /\ q.unhealthy = {}
                         /\ q.available = {}
                         /\ pass' = [pass EXCEPT ![t] = q]
<1> DEFINE found == {s \in Services : Found(services, s)}
           p == [IdlePass EXCEPT !.specs = services, !.todo = found]
<1>1. services \in Store
  BY DEF IInv, TypeOK
<1>2. pass' = [pass EXCEPT ![t] = Advance(p)]
  BY DEF BeginPass
<1>3. found \in SUBSET Services /\ \A s \in found : Found(services, s)
  OBVIOUS
<1> HIDE DEF found
<1>4. p \in Pass /\ p.specs = services /\ p.todo = found
  BY <1>1, <1>3, IdleType DEF Pass, IdlePass
<1> HIDE DEF p
<1> QED
  BY <1>2, <1>3, <1>4, AdvanceType

-----------------------------------------------------------------------------
(***************************************************************************)
(* The process.                                                            *)
(***************************************************************************)
\* A request stores a store, lowers a generation only as a client says or by a
\* delete, and is saved next.
Asked(t) ==
  \E s \in Services, store \in Store, delete \in BOOLEAN :
    /\ Accept(t, s, store, delete)
    /\ \/ Raises(services, store)
       \/ store = Delete(services, s)
       \/ \E g \in GenerationChoices :
            /\ store[s].generation = g
            /\ \A r \in Services \ {s} : store[r] = services[r]

\* The four kinds of requests are all like that.
LEMMA RequestStep ==
  ASSUME services \in Store, NEW t \in Handlers,
         UpsertService(t) \/ ScaleService(t) \/ RestartService(t) \/ DeleteService(t)
  PROVE  Asked(t)
<1>1. CASE UpsertService(t)
  <2>1. PICK s \in Services, image \in Images, r \in ReplicaChoices, g \in GenerationChoices :
          LET spec == [image |-> image, replicas |-> r, generation |-> g] IN
          /\ Validate(UpsertSpec(services, s, spec))
          /\ Accept(t, s, Upsert(services, s, spec), FALSE)
    BY <1>1 DEF UpsertService
  <2> DEFINE spec == [image |-> image, replicas |-> r, generation |-> g]
             store == Upsert(services, s, spec)
  <2>2. spec \in ClientSpec /\ spec.generation = g /\ g \in Int
    BY DeployerAssumption DEF ClientSpec
  <2>3. Accept(t, s, store, FALSE) /\ Validate(UpsertSpec(services, s, spec))
    BY <2>1
  <2> HIDE DEF spec
  <2>4. store \in Store /\ (g < 1 => Raises(services, store))
    BY <2>2, UpsertType
  <2>5. CASE g < 1
    BY <2>3, <2>4, <2>5 DEF Asked
  <2>6. CASE ~(g < 1)
    <3>1. UpsertSpec(services, s, spec).generation = g
      BY <2>2, <2>6 DEF UpsertSpec, UpsertGeneration, Normalize, ClientSpec
    <3>2. store[s].generation = g /\ \A x \in Services \ {s} : store[x] = services[x]
      BY <2>3, <3>1 DEF Upsert, Put, Store
    <3> QED
      BY <2>3, <2>4, <3>2 DEF Asked
  <2> QED
    BY <2>5, <2>6
<1>2. CASE ScaleService(t)
  BY <1>2, ScaleType, DeployerAssumption DEF ScaleService, Asked
<1>3. CASE RestartService(t)
  BY <1>3, RestartType DEF RestartService, Asked
<1>4. CASE DeleteService(t)
  BY <1>4, DeleteType DEF DeleteService, Asked
<1> QED
  BY <1>1, <1>2, <1>3, <1>4

\* What accepting a request changes.
LEMMA AskedType ==
  ASSUME IInv, NEW t \in Handlers, Asked(t)
  PROVE  IInv' /\ UNCHANGED <<containers, created, tracker, pass, faults>>
<1>1. PICK s \in Services, store \in Store, delete \in BOOLEAN : Accept(t, s, store, delete)
  BY DEF Asked
<1> DEFINE h == [IdleHandler EXCEPT !.pc = "save", !.service = s, !.delete = delete]
<1>2. h \in HandlerState /\ h.service = s
  BY DEF HandlerState, IdleHandler
<1>3. handler' = [handler EXCEPT ![t] = h]
  BY <1>1 DEF Accept
<1> HIDE DEF h
<1>4. requests' \in 0 .. MaxRequests /\ services' \in Store
  BY <1>1, DeployerAssumption DEF Accept, IInv, TypeOK
<1>5. UNCHANGED <<containers, created, tracker, pass, faults, saved, crashes>>
  BY <1>1 DEF Accept
<1>6. ProcessOK'
  BY <1>2, <1>3, <1>5 DEF IInv, ProcessOK
<1> QED
  BY <1>4, <1>5, <1>6 DEF IInv, TypeOK, PassesWorkOnSpecs, FreshIds

\* Every step of a handler after that.
LEMMA ServeType ==
  ASSUME IInv, NEW t \in Handlers, Serve(t)
  PROVE  IInv' /\ services' = services /\ created' = created
<1>0. t \in Callers /\ handler[t] \in HandlerState /\ DockerOK
  BY DockerFacts DEF Handlers, IInv, ProcessOK
<1>1. ASSUME NEW h \in HandlerState, h.service = handler[t].service \/ h.pc = "idle",
             handler[t].pc # "idle", handler' = [handler EXCEPT ![t] = h], saved' \in Store,
             crashes' = crashes
      PROVE  ProcessOK'
  BY <1>1 DEF IInv, ProcessOK
<1>2. IdleHandler \in HandlerState /\ IdleHandler.pc = "idle"
  BY DEF IdleHandler, HandlerState
<1>3. CASE Save(t)
  <2> DEFINE pc == IF handler[t].delete THEN "list" ELSE "reconcile"
             h == [handler[t] EXCEPT !.pc = pc]
  <2>1. pc \in {"list", "reconcile"}
    OBVIOUS
  <2>2. handler' = [handler EXCEPT ![t] = h]
    BY <1>3 DEF Save
  <2> HIDE DEF pc
  <2>3. h \in HandlerState /\ h.service = handler[t].service
    BY <1>0, <2>1 DEF HandlerState
  <2> HIDE DEF h
  <2>4. ProcessOK'
    BY <1>1, <1>3, <2>2, <2>3 DEF Save, IInv, TypeOK
  <2> QED
    BY <1>3, <2>4 DEF Save, vars, IInv, TypeOK, PassesWorkOnSpecs, FreshIds
<1>4. CASE SaveFails(t) \/ ListVictimsFails(t)
  <2>1. faults' \in 0 .. MaxFaults /\ UNCHANGED <<services, containers, created, tracker, pass, requests, saved, crashes>>
    BY <1>0, <1>4, FaultType DEF SaveFails, ListVictimsFails, DockerOK
  <2>2. ProcessOK'
    BY <1>1, <1>2, <1>4, <2>1 DEF SaveFails, ListVictimsFails, IInv, ProcessOK
  <2> QED
    BY <2>1, <2>2 DEF IInv, TypeOK, PassesWorkOnSpecs, FreshIds
<1>5. CASE ListVictims(t)
  <2> DEFINE m == Matching(handler[t].service)
             h == [handler[t] EXCEPT !.pc = "stop", !.victims = m, !.listed = m]
  <2>1. m \in SUBSET Ids
    BY DEF Matching, Running
  <2>2. handler' = [handler EXCEPT ![t] = h]
    BY <1>5 DEF ListVictims
  <2> HIDE DEF m
  <2>3. h \in HandlerState /\ h.service = handler[t].service
    BY <1>0, <2>1 DEF HandlerState
  <2> HIDE DEF h
  <2>4. ProcessOK'
    BY <1>1, <1>5, <2>2, <2>3 DEF ListVictims, IInv, ProcessOK
  <2> QED
    BY <1>5, <2>4 DEF ListVictims, vars, IInv, TypeOK, PassesWorkOnSpecs, FreshIds
<1>6. CASE StopVictim(t)
  <2>1. PICK c \in handler[t].victims :
          /\ StopContainer(c) \/ StopFails(c)
          /\ handler' = [handler EXCEPT ![t].victims = handler[t].victims \ {c}]
    BY <1>6 DEF StopVictim
  <2> DEFINE left == handler[t].victims \ {c}
             h == [handler[t] EXCEPT !.victims = left]
  <2>2. c \in Ids /\ left \in SUBSET Ids
    BY <1>0 DEF HandlerState
  <2>3. handler' = [handler EXCEPT ![t] = h]
    BY <2>1
  <2> HIDE DEF left
  <2>4. h \in HandlerState /\ h.service = handler[t].service
    BY <1>0, <2>2 DEF HandlerState
  <2> HIDE DEF h
  <2>5. ProcessOK'
    BY <1>1, <1>6, <2>3, <2>4 DEF StopVictim, IInv, ProcessOK
  <2>6. DockerOK' /\ FreshIds' /\ created' = created
    BY <1>0, <2>1, <2>2, StopStep, DockerFacts
  <2> QED
    BY <1>6, <2>5, <2>6 DEF StopVictim, DockerOK, IInv, TypeOK, PassesWorkOnSpecs
<1>7. CASE ReconcileNow(t)
  <2>1. ProcessOK'
    BY <1>1, <1>2, <1>7 DEF ReconcileNow, IInv, ProcessOK
  <2>2. pass' \in [Callers -> Pass] /\ PassesWorkOnSpecs'
    BY <1>0, <1>7, BeginPassStep DEF ReconcileNow, IInv, TypeOK, PassesWorkOnSpecs
  <2> QED
    BY <1>7, <2>1, <2>2 DEF ReconcileNow, BeginPass, IInv, TypeOK, FreshIds
<1> QED
  BY <1>3, <1>4, <1>5, <1>6, <1>7 DEF Serve

\* A crash forgets every pass, every request and every report; the store is then
\* the one that was saved, or nothing can be said of a process that cannot boot.
LEMMA CrashType ==
  ASSUME IInv, Restart \/ BootFails
  PROVE  /\ IInv' /\ UNCHANGED <<containers, created, faults>>
         /\ services' \in {services, saved} /\ crashes' # crashes
         /\ \A t \in Callers : pass'[t] = IdlePass /\ handler'[t] = IdleHandler
<1>1. /\ UNCHANGED <<containers, created, requests, faults, saved>>
      /\ services' \in {services, saved} /\ crashes' = crashes + 1
      /\ tracker' = [c \in Ids |-> "absent"]
      /\ pass' = [t \in Callers |-> IdlePass]
      /\ handler' = [t \in Callers |-> IdleHandler]
  BY DEF Restart, BootFails, Crash
<1>2. IdleHandler \in HandlerState /\ IdleHandler.pc = "idle"
  BY DEF IdleHandler, HandlerState
<1>3. ProcessOK'
  BY <1>1, <1>2 DEF IInv, ProcessOK
<1>4. pass' \in [Callers -> Pass] /\ PassesWorkOnSpecs'
  BY <1>1, IdleType DEF PassesWorkOnSpecs
<1>5. services' \in Store /\ tracker' \in [Ids -> Health]
  BY <1>1 DEF IInv, TypeOK, ProcessOK, Health
<1>6. crashes' # crashes
  BY <1>1 DEF IInv, ProcessOK
<1> QED
  BY <1>1, <1>3, <1>4, <1>5, <1>6 DEF IInv, TypeOK, FreshIds

\* The environment keeps the state well-formed, and touches neither the store nor
\* the passes.
LEMMA EnvironmentType ==
  ASSUME IInv, NEW c \in Ids, Observed(c) \/ Breaks(c)
  PROVE  IInv' /\ UNCHANGED <<services, created, pass, requests, process>>
<1>0. DockerOK
  BY DockerFacts
<1>1. CASE Observed(c)
  <2>1. tracker' \in [Ids -> Health]
    BY <1>0, <1>1 DEF Observed, ReportHealthy, Health, DockerOK
  <2> QED
    BY <1>1, <2>1
    DEF Observed, ReportHealthy, IInv, TypeOK, PassesWorkOnSpecs, ProcessOK, FreshIds, process
<1>2. CASE (ReportUnhealthy(c) \/ MonitorEnds(c)) /\ UNCHANGED process
  <2>1. tracker' \in [Ids -> Health]
    BY <1>0, <1>2 DEF ReportUnhealthy, MonitorEnds, Health, DockerOK
  <2>2. faults' \in 0 .. MaxFaults
    BY <1>0, <1>2, FaultType DEF ReportUnhealthy, MonitorEnds, DockerOK
  <2> QED
    BY <1>2, <2>1, <2>2
    DEF ReportUnhealthy, MonitorEnds, IInv, TypeOK, PassesWorkOnSpecs, ProcessOK, FreshIds, process
<1>3. CASE (StartsLate(c) \/ ContainerExits(c)) /\ UNCHANGED process
  <2>1. DockerOK' /\ FreshIds' /\ created' = created
    BY <1>0, <1>3, AloneStep, DockerFacts
  <2> QED
    BY <1>3, <2>1
    DEF StartsLate, ContainerExits, DockerOK, IInv, TypeOK, PassesWorkOnSpecs, ProcessOK, process
<1> QED
  BY <1>1, <1>2, <1>3 DEF Breaks

\* Steps of a pass do too.
LEMMA ReconcileType ==
  ASSUME IInv, NEW t \in Callers, Reconcile(t)
  PROVE  IInv' /\ StepOK(t) /\ UNCHANGED <<services, process>>
<1>1. StepOK(t) /\ UNCHANGED process
  BY PassStepOK DEF Reconcile
<1>2. pass' \in [Callers -> Pass] /\ PassesWorkOnSpecs'
  BY <1>1 DEF StepOK, PassMoves, IInv, TypeOK, PassesWorkOnSpecs
<1>3. ProcessOK'
  BY <1>1 DEF process, ProcessOK, IInv
<1> QED
  BY <1>1, <1>2, <1>3 DEF StepOK, DockerOK, IInv, TypeOK

\* And a turn of the loop.
LEMMA LoopTurnType ==
  ASSUME IInv, LoopTurn
  PROVE  IInv' /\ UNCHANGED <<services, containers, created, tracker, faults, process>>
<1>1. pass' \in [Callers -> Pass] /\ PassesWorkOnSpecs'
  BY BeginPassStep, DeployerAssumption DEF LoopTurn, IInv, TypeOK, PassesWorkOnSpecs
<1> QED
  BY <1>1 DEF LoopTurn, BeginPass, process, IInv, TypeOK, ProcessOK, FreshIds

-----------------------------------------------------------------------------
(***************************************************************************)
(* The specification.                                                      *)
(***************************************************************************)
\* The initial states are well-formed.
LEMMA InitOK == ControlPlaneInit => IInv
<1> SUFFICES ASSUME ControlPlaneInit PROVE IInv
  OBVIOUS
<1>1. services \in Store
  BY DeployerAssumption DEF ControlPlaneInit, Init, Store
<1>2. /\ containers \in [Ids -> Container \cup {NoContainer}]
      /\ tracker \in [Ids -> Health] /\ FreshIds
  BY DEF ControlPlaneInit, Init, Health, FreshIds, NoContainer
<1>3. pass \in [Callers -> Pass] /\ PassesWorkOnSpecs
  BY IdleType DEF ControlPlaneInit, Init, PassesWorkOnSpecs
<1>4. ProcessOK
  BY <1>1 DEF ControlPlaneInit, ProcessOK, IdleHandler, HandlerState
<1> QED
  BY <1>1, <1>2, <1>3, <1>4, DeployerAssumption DEF ControlPlaneInit, Init, IInv, TypeOK

\* Every step keeps the state well-formed.
LEMMA NextOK == IInv /\ [ControlPlaneNext]_allVars => IInv'
<1> SUFFICES ASSUME IInv, [ControlPlaneNext]_allVars PROVE IInv'
  OBVIOUS
<1>1. ASSUME NEW t \in Handlers,
             UpsertService(t) \/ ScaleService(t) \/ RestartService(t) \/ DeleteService(t)
      PROVE  IInv'
  BY <1>1, RequestStep, AskedType DEF IInv, TypeOK
<1>2. CASE UNCHANGED allVars
  BY <1>2 DEF allVars, vars, process, IInv, TypeOK, PassesWorkOnSpecs, ProcessOK, FreshIds
<1> QED
  BY <1>1, <1>2, ServeType, LoopTurnType, ReconcileType, EnvironmentType, CrashType
  DEF ControlPlaneNext

\* The state always has its type, whatever the interleaving of the requests and
\* the passes, and wherever the process crashes.
THEOREM TypeCorrect == ControlPlaneSpec => []TypeOK
<1>1. IInv => TypeOK
  BY DEF IInv
<1> QED
  BY <1>1, InitOK, NextOK, PTL DEF ControlPlaneSpec

-----------------------------------------------------------------------------
(***************************************************************************)
(* What a step does to the containers that exist.                          *)
(***************************************************************************)
\* The pass or the delete of t stops container c, or fails to.
Stops(t, c) ==
  /\ StopContainer(c) \/ StopFails(c)
  /\ \/ ReplaceUnhealthy(t) /\ c \in pass[t].unhealthy
     \/ RolloutStop(t) /\ c \in pass[t].outdated
     \/ ScaleDown(t) /\ c \in pass[t].available /\ \A d \in pass[t].available : c <= d
     \/ StopVictim(t) /\ c \in handler[t].victims

Creates(t) == CreateReplica(t) /\ CreateContainer(pass[t].service, SpecOf(pass[t]))

Starts(t) == StartReplica(t) /\ StartContainer(pass[t].starting)

\* The calls a step may make to Docker.
LEMMA DockerSteps ==
  ASSUME IInv, [ControlPlaneNext]_allVars
  PROVE  \/ UNCHANGED <<containers, created>>
         \/ \E t \in Callers : Creates(t) \/ Starts(t) \/ \E c \in Ids : Stops(t, c)
         \/ \E c \in Ids : StartsLate(c) \/ ContainerExits(c)
<1>1. ASSUME NEW t \in Callers, Reconcile(t)
      PROVE  \/ UNCHANGED <<containers, created>>
             \/ Creates(t) \/ Starts(t) \/ \E c \in Ids : Stops(t, c)
  <2>1. pass[t].unhealthy \subseteq Ids /\ pass[t].outdated \subseteq Ids
        /\ pass[t].available \subseteq Ids
    BY PassFacts DEF Pass
  <2>2. CASE ReplaceUnhealthy(t)
    BY <2>1, <2>2 DEF ReplaceUnhealthy, Stops
  <2>3. CASE RolloutStop(t)
    BY <2>1, <2>3 DEF RolloutStop, Stops
  <2>4. CASE ScaleDown(t)
    BY <2>1, <2>4 DEF ScaleDown, Stops
  <2>5. CASE CreateReplica(t)
    BY <2>5 DEF CreateReplica, Creates, CreateFails
  <2>6. CASE StartReplica(t)
    BY <2>6 DEF StartReplica, Starts, StartFails
  <2> QED
    BY <1>1, <2>2, <2>3, <2>4, <2>5, <2>6
    DEF Reconcile, PassStep, ListRunningContainers, ListFails, ReadHealth, TrackReplica,
        TrackContainer, PortNotFound, TrackPanics, EndService
<1>2. ASSUME NEW t \in Handlers, Serve(t)
      PROVE  UNCHANGED <<containers, created>> \/ \E c \in Ids : Stops(t, c)
  <2>1. handler[t].victims \subseteq Ids
    BY DEF Handlers, IInv, ProcessOK, HandlerState
  <2>2. CASE StopVictim(t)
    BY <2>1, <2>2 DEF StopVictim, Stops
  <2> QED
    BY <1>2, <2>2
    DEF Serve, Save, SaveFails, ListVictims, ListVictimsFails, ReconcileNow, BeginPass, vars
<1>3. ASSUME NEW t \in Handlers,
             UpsertService(t) \/ ScaleService(t) \/ RestartService(t) \/ DeleteService(t)
      PROVE  UNCHANGED <<containers, created>>
  BY <1>3, RequestStep, AskedType DEF IInv, TypeOK
<1>4. CASE \E c \in Ids : Observed(c) \/ Breaks(c)
  BY <1>4 DEF Observed, Breaks, ReportHealthy, ReportUnhealthy, MonitorEnds
<1> QED
  BY <1>1, <1>2, <1>3, <1>4, CrashType, LoopTurnType
  DEF ControlPlaneNext, Handlers, allVars, vars

\* Container c keeps its labels while it exists, and never goes back to being
\* created.
Ages(c) ==
  \/ containers'[c].state = "none"
  \/ /\ containers[c].state # "none"
     /\ containers'[c].service = containers[c].service
     /\ containers'[c].generation = containers[c].generation
     /\ \/ containers'[c].state = containers[c].state
        \/ containers'[c].state = "exited"
        \/ containers[c].state = "created" /\ containers'[c].state = "running"

\* The containers that exist age, and new ones get new ids.
LEMMA ContainersAge ==
  ASSUME IInv, [ControlPlaneNext]_allVars
  PROVE  /\ created <= created'
         /\ \A c \in Ids : c <= created => Ages(c)
<1>0. DockerOK /\ created \in Int /\ FreshIds
  BY DockerFacts DEF DockerOK
<1>1. CASE UNCHANGED <<containers, created>>
  BY <1>0, <1>1 DEF Ages
<1>2. ASSUME NEW t \in Callers, Creates(t)
      PROVE  created <= created' /\ \A c \in Ids : c <= created => Ages(c)
  <2>1. pass[t].service \in Services /\ SpecOf(pass[t]) \in ValidSpec
    BY <1>2, PassFacts DEF Creates, CreateReplica, Working
  <2>2. OnlyChanges(created + 1) /\ created' = created + 1
    BY <1>0, <1>2, <2>1, CreateContainerStep DEF Creates, CreateContainer
  <2>3. \A c \in Ids : c <= created => c # created + 1
    BY <1>0 DEF Ids
  <2> QED
    BY <1>0, <2>2, <2>3 DEF OnlyChanges, Ages
<1>3. ASSUME NEW c \in Ids, OnlyChanges(c), Ages(c), created' = created
      PROVE  created <= created' /\ \A d \in Ids : d <= created => Ages(d)
  BY <1>0, <1>3 DEF OnlyChanges, Ages
<1>4. ASSUME NEW t \in Callers, Starts(t)
      PROVE  created <= created' /\ \A c \in Ids : c <= created => Ages(c)
  <2> DEFINE c == pass[t].starting
  <2>1. c \in Ids /\ StartContainer(c) /\ created' = created
    BY <1>4, PassFacts DEF Starts, StartReplica, StartContainer
  <2>2. OnlyChanges(c) /\ Ages(c)
    BY <1>0, <2>1, StateChange DEF StartContainer, Ages
  <2> QED
    BY <1>3, <2>1, <2>2
<1>5. ASSUME NEW c \in Ids, StopContainer(c) \/ StopFails(c)
      PROVE  OnlyChanges(c) /\ Ages(c) /\ created' = created
  <2>1. OnlyChanges(c) /\ created' = created
    BY <1>0, <1>5, StopStep
  <2>2. CASE containers' = [containers EXCEPT ![c].state = "exited"] /\ containers[c].state # "none"
    BY <1>0, <2>1, <2>2, StateChange DEF Ages
  <2>3. CASE UNCHANGED containers \/ containers'[c].state = "none"
    BY <2>1, <2>3 DEF Ages
  <2> QED
    BY <1>0, <1>5, <2>2, <2>3 DEF StopContainer, StopFails, NoContainer, DockerOK
<1>6. ASSUME NEW c \in Ids, StartsLate(c) \/ ContainerExits(c)
      PROVE  OnlyChanges(c) /\ Ages(c) /\ created' = created
  <2>1. OnlyChanges(c) /\ created' = created
    BY <1>0, <1>6, AloneStep
  <2>2. Ages(c)
    BY <1>0, <1>6, StateChange DEF StartsLate, ContainerExits, Ages
  <2> QED
    BY <2>1, <2>2
<1> QED
  BY <1>1, <1>2, <1>3, <1>4, <1>5, <1>6, DockerSteps DEF Stops

\* Faults are never taken back.
LEMMA FaultsGrow ==
  ASSUME IInv, [ControlPlaneNext]_allVars
  PROVE  faults \in Nat /\ faults' \in Nat /\ faults <= faults'
<1>1. faults \in Nat /\ faults' \in Nat
  BY NextOK DEF IInv, TypeOK
<1>2. faults' = faults \/ Fault
  <2>1. ASSUME NEW t \in Callers, Reconcile(t) PROVE faults' = faults \/ Fault
    BY <2>1 DEF Reconcile, PassStep, ListRunningContainers, ListFails, ReadHealth,
       ReplaceUnhealthy, CreateReplica, StartReplica, TrackReplica, TrackPanics, RolloutStop,
       ScaleDown, EndService, CreateContainer, CreateFails, StartContainer, StartFails,
       TrackContainer, PortNotFound, StopContainer, StopFails
  <2>2. ASSUME NEW t \in Handlers, Serve(t) PROVE faults' = faults \/ Fault
    BY <2>2 DEF Serve, Save, SaveFails, ListVictims, ListVictimsFails, StopVictim, ReconcileNow,
       BeginPass, vars, StopContainer, StopFails
  <2>3. ASSUME NEW t \in Handlers,
               UpsertService(t) \/ ScaleService(t) \/ RestartService(t) \/ DeleteService(t)
        PROVE  faults' = faults
    BY <2>3, RequestStep, AskedType DEF IInv, TypeOK
  <2>4. CASE \E c \in Ids : Observed(c) \/ Breaks(c)
    BY <2>4 DEF Observed, Breaks, ReportHealthy, ReportUnhealthy, MonitorEnds, StartsLate,
       ContainerExits
  <2> QED
    BY <2>1, <2>2, <2>3, <2>4, CrashType, LoopTurnType DEF ControlPlaneNext, allVars, vars
<1> QED
  BY <1>1, <1>2 DEF Fault

-----------------------------------------------------------------------------
(***************************************************************************)
(* What a pass has listed.                                                 *)
(***************************************************************************)
Listed(p) == p.outdated \cup p.seen \cup p.unhealthy \cup p.available

\* A pass sorts what it lists into disjoint sets, and while it has something to
\* roll out or to stop, it counted no replica it has not got.
Sorted(p) ==
  /\ p.pc \in {"idle", "next"} => Listed(p) = {} /\ p.starting = 0
  /\ p.pc \in {"act", "start", "track"} => p.seen = {}
  /\ p.pc \in {"classify", "act"} => p.starting = 0
  /\ p.pc \in {"start", "track"} => p.missing > 0
  /\ p.outdated \cap (p.seen \cup p.unhealthy \cup p.available) = {}
  /\ p.unhealthy \cap (p.seen \cup p.available) = {}
  /\ p.seen \cap p.available = {}
  /\ (p.pc \in {"act", "start", "track"} /\ (p.outdated # {} \/ p.missing < 0))
       => SpecOf(p).replicas <= Cardinality(p.available) + p.missing

\* What it listed are containers that began to run, of its service and, but for
\* the outdated ones, of its generation; what it starts is younger.
Familiar(p, cs, n) ==
  /\ p.starting <= n
  /\ \A c \in Listed(p) :
       /\ c <= n /\ c # p.starting
       /\ cs[c].state # "created"
       /\ cs[c].state # "none" =>
            /\ cs[c].service \in Claims[p.service]
            /\ c \notin p.outdated => cs[c].generation = SpecOf(p).generation

LInv == \A t \in Callers : Sorted(pass[t]) /\ Familiar(pass[t], containers, created)

\* A pass that has listed nothing is both.
LEMMA NothingListed ==
  ASSUME NEW p \in Pass, p.pc \in {"idle", "next"}, p.outdated = {}, p.seen = {},
         p.unhealthy = {}, p.available = {}, p.starting = 0, created \in Nat
  PROVE  Sorted(p) /\ Familiar(p, containers, created)
  BY DEF Sorted, Familiar, Listed

\* What a pass listed remains familiar when time goes on.
LEMMA StaysFamiliar ==
  ASSUME IInv, [ControlPlaneNext]_allVars, NEW p \in Pass, Familiar(p, containers, created)
  PROVE  Familiar(p, containers', created')
<1>1. /\ created \in Int /\ created' \in Int /\ created <= created'
      /\ \A c \in Ids : c <= created => Ages(c)
  BY NextOK, ContainersAge DEF IInv, TypeOK
<1>2. Listed(p) \subseteq Ids /\ p.starting \in Int
  BY DEF Listed, Pass, Ids
<1>3. \A c \in Listed(p) : c \in Int
  BY <1>2 DEF Ids
<1> QED
  BY <1>1, <1>2, <1>3 DEF Familiar, Ages, Listed, SpecOf

\* The pass of t goes on as q.
GoesOn(t, q) == pass' = [pass EXCEPT ![t] = q] /\ Sorted(q) /\ Familiar(q, containers', created')

\* Going on to the next service.
LEMMA AdvanceGoesOn ==
  ASSUME IInv, IInv', NEW t \in Callers, NEW p \in Pass, \A s \in p.todo : Found(p.specs, s),
         pass' = [pass EXCEPT ![t] = Advance(p)]
  PROVE  GoesOn(t, Advance(p))
<1>1. created' \in Nat
  BY DEF IInv, TypeOK
<1>2. created \in Nat
  BY DEF IInv, TypeOK
<1>3. Advance(p) \in Pass /\ Sorted(Advance(p))
  BY <1>2, AdvanceType, NothingListed
<1>4. Familiar(Advance(p), containers', created')
  BY <1>1, AdvanceType DEF Familiar, Listed
<1> QED
  BY <1>3, <1>4 DEF GoesOn

\* Listing.
LEMMA ListSorts ==
  ASSUME IInv, LInv, NEW t \in Callers, ListRunningContainers(t)
  PROVE  \E q : GoesOn(t, q)
<1> DEFINE p == pass[t]
<1>1. PICK s \in p.todo :
        LET old == {c \in Matching(s) : containers[c].generation # p.specs[s].generation}
        IN  pass' = [pass EXCEPT ![t] =
              Counted([p EXCEPT !.pc = "classify", !.service = s, !.todo = p.todo \ {s},
                                !.outdated = old, !.seen = Matching(s) \ old])]
  BY DEF ListRunningContainers
<1> DEFINE old == {c \in Matching(s) : containers[c].generation # p.specs[s].generation}
           q == [p EXCEPT !.pc = "classify", !.service = s, !.todo = p.todo \ {s},
                          !.outdated = old, !.seen = Matching(s) \ old]
<1>2. old \in SUBSET Ids /\ Matching(s) \in SUBSET Ids /\ old \subseteq Matching(s)
  BY DEF Matching, Running
<1>3. /\ p \in Pass /\ WorksOnSpecs(p) /\ s \in Services /\ Found(p.specs, s)
      /\ Listed(p) = {} /\ p.starting = 0
  BY PassFacts DEF Pass, LInv, Sorted, ListRunningContainers
<1>4. pass' = [pass EXCEPT ![t] = Counted(q)] /\ UNCHANGED <<containers, created>>
  BY <1>1 DEF ListRunningContainers
<1>5. \A c \in Matching(s) : /\ c \in Ids /\ c <= created /\ c # 0
                             /\ containers[c].state = "running"
                             /\ containers[c].service \in Claims[s]
                             /\ c \notin old => containers[c].generation = p.specs[s].generation
  BY DEF Matching, Running, IInv, FreshIds, Ids
<1> HIDE DEF old
<1>6. /\ q \in Pass /\ q.pc = "classify" /\ q.specs = p.specs /\ q.service = s
      /\ q.todo = p.todo \ {s} /\ q.outdated = old /\ q.seen = Matching(s) \ old
      /\ q.unhealthy = {} /\ q.available = {} /\ q.starting = 0
  BY <1>2, <1>3 DEF Pass, Listed
<1> HIDE DEF q
<1>7. WorksOnSpecs(q) /\ SpecOf(q) = p.specs[s]
  BY <1>3, <1>6 DEF WorksOnSpecs, SpecOf
<1> DEFINE n == Counted(q)
<1>8. /\ n \in Pass /\ n.pc \in {"classify", "act"} /\ SpecOf(n) = p.specs[s] /\ n.service = s
      /\ n.outdated = old /\ n.seen = Matching(s) \ old /\ n.unhealthy = {}
      /\ n.available = {} /\ n.starting = 0
      /\ n.pc = "act" => n.seen = {} /\ n.missing = SpecOf(n).replicas - Cardinality(n.available)
  BY <1>6, <1>7, CountedType DEF SpecOf
<1>9. pass' = [pass EXCEPT ![t] = n]
  BY <1>4
<1> HIDE DEF n
<1>10. Cardinality(n.available) \in Nat /\ SpecOf(n).replicas \in Int /\ n.missing \in Int
  <2>1. SpecOf(n) \in ValidSpec
    BY <1>3, <1>8, FoundGeneration DEF Pass
  <2>2. n.available \in SUBSET Ids /\ n.missing \in Int
    BY <1>8 DEF Pass
  <2> QED
    BY <2>1, <2>2, CountType DEF ValidSpec
<1>11. Sorted(n)
  BY <1>2, <1>8, <1>10 DEF Sorted, Listed
<1>12. Familiar(n, containers', created')
  <2>1. created' \in Nat
    BY <1>4 DEF IInv, TypeOK
  <2>2. Listed(n) = Matching(s)
    BY <1>2, <1>8 DEF Listed
  <2> QED
    BY <1>4, <1>5, <1>8, <2>1, <2>2 DEF Familiar, SpecOf, Listed
<1> QED
  BY <1>9, <1>11, <1>12 DEF GoesOn

\* Reading one report.
LEMMA ReadSorts ==
  ASSUME IInv, LInv, NEW t \in Callers, ReadHealth(t)
  PROVE  \E q : GoesOn(t, q)
<1> DEFINE p == pass[t]
<1>1. PICK c \in p.seen :
        LET q == [p EXCEPT !.seen = p.seen \ {c}] IN
        pass' = [pass EXCEPT ![t] = Counted(
             IF tracker[c] = "unhealthy"
             THEN [q EXCEPT !.unhealthy = p.unhealthy \cup {c}]
             ELSE [q EXCEPT !.available = p.available \cup {c}])]
  BY DEF ReadHealth
<1> DEFINE q0 == [p EXCEPT !.seen = p.seen \ {c}]
           q1 == [q0 EXCEPT !.unhealthy = p.unhealthy \cup {c}]
           q2 == [q0 EXCEPT !.available = p.available \cup {c}]
<1>2. p \in Pass /\ WorksOnSpecs(p) /\ p.pc = "classify" /\ c \in Ids /\ Sorted(p) /\ Familiar(p, containers, created)
  BY PassFacts DEF ReadHealth, Pass, LInv
<1>3. p.seen \ {c} \in SUBSET Ids /\ p.unhealthy \cup {c} \in SUBSET Ids
      /\ p.available \cup {c} \in SUBSET Ids
  BY <1>2 DEF Pass
<1>4. UNCHANGED <<containers, created>>
  BY DEF ReadHealth
<1>5. ASSUME NEW q \in Pass, q.pc = "classify", q.specs = p.specs, q.service = p.service,
             q.todo = p.todo, q.outdated = p.outdated, q.seen = p.seen \ {c},
             q.starting = p.starting,
             \/ q.unhealthy = p.unhealthy \cup {c} /\ q.available = p.available
             \/ q.unhealthy = p.unhealthy /\ q.available = p.available \cup {c},
             pass' = [pass EXCEPT ![t] = Counted(q)]
      PROVE  \E r : GoesOn(t, r)
  <2>1. WorksOnSpecs(q)
    BY <1>2, <1>5 DEF WorksOnSpecs
  <2> DEFINE n == Counted(q)
  <2>2. /\ n \in Pass /\ n.pc \in {"classify", "act"} /\ SpecOf(n) = SpecOf(p)
        /\ n.service = p.service /\ n.outdated = p.outdated /\ n.seen = q.seen
        /\ n.unhealthy = q.unhealthy /\ n.available = q.available /\ n.starting = p.starting
        /\ n.pc = "act" => n.seen = {} /\ n.missing = SpecOf(n).replicas - Cardinality(n.available)
    BY <1>5, <2>1, CountedType DEF SpecOf
  <2>3. pass' = [pass EXCEPT ![t] = n]
    BY <1>5
  <2> HIDE DEF n
  <2>4. Cardinality(n.available) \in Nat /\ SpecOf(n).replicas \in Int /\ n.missing \in Int
    <3>1. SpecOf(n) \in ValidSpec
      BY <1>2, <2>2, PassFacts DEF Working
    <3>2. n.available \in SUBSET Ids /\ n.missing \in Int
      BY <2>2 DEF Pass
    <3> QED
      BY <3>1, <3>2, CountType DEF ValidSpec
  <2>5. /\ n.outdated \cap (n.seen \cup n.unhealthy \cup n.available) = {}
        /\ n.unhealthy \cap (n.seen \cup n.available) = {}
        /\ n.seen \cap n.available = {}
    BY <1>2, <1>5, <2>2 DEF Sorted
  <2>6. Sorted(n)
    BY <1>2, <2>2, <2>4, <2>5 DEF Sorted, Listed
  <2>7. Listed(n) = Listed(p)
    BY <1>5, <2>2 DEF Listed
  <2>8. Familiar(n, containers', created')
    BY <1>2, <1>4, <2>2, <2>7 DEF Familiar, SpecOf
  <2> QED
    BY <2>3, <2>6, <2>8 DEF GoesOn
<1>6. /\ q1 \in Pass /\ q1.pc = "classify" /\ q1.specs = p.specs /\ q1.service = p.service
      /\ q1.todo = p.todo /\ q1.outdated = p.outdated /\ q1.seen = p.seen \ {c}
      /\ q1.starting = p.starting
      /\ q1.unhealthy = p.unhealthy \cup {c} /\ q1.available = p.available
  BY <1>2, <1>3 DEF Pass
<1>7. /\ q2 \in Pass /\ q2.pc = "classify" /\ q2.specs = p.specs /\ q2.service = p.service
      /\ q2.todo = p.todo /\ q2.outdated = p.outdated /\ q2.seen = p.seen \ {c}
      /\ q2.starting = p.starting
      /\ q2.unhealthy = p.unhealthy /\ q2.available = p.available \cup {c}
  BY <1>2, <1>3 DEF Pass
<1>8. pass' = [pass EXCEPT ![t] = Counted(q1)] \/ pass' = [pass EXCEPT ![t] = Counted(q2)]
  BY <1>1
<1> HIDE DEF q1, q2
<1> QED
  BY <1>5, <1>6, <1>7, <1>8

\* A step of the pass of t that takes nothing new on its lists.
LEMMA KeepsFamiliar ==
  ASSUME IInv, LInv, [ControlPlaneNext]_allVars, NEW t \in Callers, NEW q \in Pass,
         q.specs = pass[t].specs, q.service = pass[t].service,
         q.outdated = pass[t].outdated, Listed(q) \subseteq Listed(pass[t]),
         q.starting = pass[t].starting \/ q.starting = 0
  PROVE  Familiar(q, containers', created')
<1>1. Familiar(pass[t], containers', created') /\ pass[t] \in Pass
  BY PassFacts, StaysFamiliar DEF LInv
<1>2. created' \in Nat
  BY NextOK DEF IInv, TypeOK
<1>3. \A c \in Listed(pass[t]) : c \in Ids /\ c # 0
  BY <1>1 DEF Listed, Pass, Ids
<1> QED
  BY <1>1, <1>2, <1>3 DEF Familiar, SpecOf

\* A call of StartContainer is over.
LEMMA AfterStartSorts ==
  ASSUME IInv, LInv, [ControlPlaneNext]_allVars, NEW t \in Callers,
         pass[t].pc \in {"act", "start", "track"}, pass[t].missing > 0,
         pass' = [pass EXCEPT ![t] = AfterStart(pass[t])]
  PROVE  GoesOn(t, AfterStart(pass[t]))
<1> DEFINE p == pass[t]
<1>1. p \in Pass /\ Sorted(p) /\ p.pc \in Working /\ IInv'
  BY PassFacts, NextOK DEF LInv, Working
<1>2. CASE p.outdated # {}
  BY <1>1, <1>2, PassFacts, AdvanceGoesOn DEF AfterStart
<1>3. CASE p.outdated = {}
  <2> DEFINE m == p.missing - 1
             q == [p EXCEPT !.pc = "act", !.missing = m, !.starting = 0]
  <2>1. m \in Int /\ ~(m < 0)
    BY <1>1 DEF Pass
  <2>2. AfterStart(p) = q
    BY <1>3 DEF AfterStart
  <2> HIDE DEF m
  <2>3. /\ q \in Pass /\ q.specs = p.specs /\ q.service = p.service /\ q.pc = "act"
        /\ q.outdated = p.outdated /\ q.seen = p.seen /\ q.unhealthy = p.unhealthy
        /\ q.available = p.available /\ q.starting = 0 /\ q.missing = m
    BY <1>1, <2>1 DEF Pass
  <2>4. pass' = [pass EXCEPT ![t] = q]
    BY <2>2
  <2> HIDE DEF q
  <2>5. Familiar(q, containers', created')
    BY <1>1, <2>3, KeepsFamiliar DEF Listed
  <2>6. Sorted(q)
    BY <1>1, <1>3, <2>1, <2>3 DEF Sorted, Listed
  <2> QED
    BY <2>2, <2>4, <2>5, <2>6 DEF GoesOn
<1> QED
  BY <1>2, <1>3

\* Creating.
LEMMA CreateSorts ==
  ASSUME IInv, LInv, [ControlPlaneNext]_allVars, NEW t \in Callers, CreateReplica(t)
  PROVE  \E q : GoesOn(t, q)
<1> DEFINE p == pass[t]
           q == [p EXCEPT !.pc = "start", !.starting = created + 1]
<1>1. /\ p \in Pass /\ Sorted(p) /\ p.pc = "act" /\ p.missing > 0
      /\ Familiar(p, containers, created) /\ Familiar(p, containers', created')
  BY PassFacts, StaysFamiliar DEF LInv, CreateReplica
<1>2. CASE CreateContainer(p.service, SpecOf(p)) /\ pass' = [pass EXCEPT ![t] = q]
  <2>1. created + 1 \in Ids /\ created' = created + 1 /\ created \in Int
    <3>1. p.service \in Services /\ SpecOf(p) \in ValidSpec
      BY <1>1, PassFacts DEF Working
    <3>2. created + 1 \in Ids
      BY <1>2, <3>1, CreateContainerStep, DockerFacts
    <3> QED
      BY <1>2, <3>2, DockerFacts DEF CreateContainer, DockerOK
  <2>2. /\ q \in Pass /\ q.specs = p.specs /\ q.service = p.service /\ q.pc = "start"
        /\ q.outdated = p.outdated /\ q.seen = p.seen /\ q.unhealthy = p.unhealthy
        /\ q.available = p.available /\ q.starting = created + 1 /\ q.missing = p.missing
    BY <1>1, <2>1 DEF Pass
  <2>3. pass' = [pass EXCEPT ![t] = q]
    BY <1>2
  <2> HIDE DEF q
  <2>4. Listed(q) = Listed(p) /\ \A c \in Listed(p) : c \in Int
    BY <1>1, <2>2 DEF Listed, Pass, Ids
  <2>5. Familiar(q, containers', created')
    BY <1>1, <2>1, <2>2, <2>4 DEF Familiar, SpecOf
  <2>6. Sorted(q)
    BY <1>1, <2>2, <2>4 DEF Sorted, SpecOf
  <2> QED
    BY <2>3, <2>5, <2>6 DEF GoesOn
<1>3. CASE pass' = [pass EXCEPT ![t] = AfterStart(p)]
  BY <1>1, <1>3, AfterStartSorts
<1> QED
  BY <1>2, <1>3 DEF CreateReplica

\* A step that changes neither the lists nor what is missing.
LEMMA SameLists ==
  ASSUME IInv, LInv, [ControlPlaneNext]_allVars, NEW t \in Callers, NEW q \in Pass,
         q.specs = pass[t].specs, q.service = pass[t].service, q.missing = pass[t].missing,
         q.outdated = pass[t].outdated, q.seen = pass[t].seen,
         q.unhealthy \subseteq pass[t].unhealthy,
         q.available = pass[t].available, q.starting = pass[t].starting,
         \/ pass[t].pc = "act" /\ q.pc = "act"
         \/ pass[t].pc = "start" /\ q.pc = "track",
         pass' = [pass EXCEPT ![t] = q]
  PROVE  GoesOn(t, q)
<1>1. Sorted(pass[t]) /\ pass[t] \in Pass
  BY PassFacts DEF LInv
<1>2. Familiar(q, containers', created')
  BY KeepsFamiliar DEF Listed
<1>3. Sorted(q)
  BY <1>1 DEF Sorted, SpecOf
<1> QED
  BY <1>2, <1>3 DEF GoesOn

\* Stopping surplus replicas.
LEMMA ScaleDownSorts ==
  ASSUME IInv, LInv, [ControlPlaneNext]_allVars, NEW t \in Callers, ScaleDown(t)
  PROVE  \E q : GoesOn(t, q)
<1> DEFINE p == pass[t]
<1>1. /\ p \in Pass /\ Sorted(p) /\ p.pc = "act" /\ p.missing < 0 /\ p.outdated = {}
      /\ p.unhealthy = {}
  BY PassFacts DEF LInv, ScaleDown
<1>2. PICK c \in p.available :
        \/ pass' = [pass EXCEPT ![t] =
                 [p EXCEPT !.missing = p.missing + 1, !.available = p.available \ {c}]]
        \/ pass' = [pass EXCEPT ![t] = [p EXCEPT !.missing = p.missing + 1]]
  BY DEF ScaleDown
<1> DEFINE rest == p.available \ {c}
           m == p.missing + 1
           q1 == [p EXCEPT !.missing = m, !.available = rest]
           q2 == [p EXCEPT !.missing = m]
<1>3. /\ rest \in SUBSET Ids /\ rest \subseteq p.available /\ m \in Int /\ m - 1 = p.missing
      /\ Cardinality(rest) \in Nat /\ Cardinality(p.available) = Cardinality(rest) + 1
  <2>1. p.available \in SUBSET Ids /\ p.missing \in Int
    BY <1>1 DEF Pass
  <2>2. Cardinality(rest) = Cardinality(p.available) - 1
    BY <2>1, CountType, FS_RemoveElement
  <2> QED
    BY <2>1, <2>2, CountType
<1>4. pass' = [pass EXCEPT ![t] = q1] \/ pass' = [pass EXCEPT ![t] = q2]
  BY <1>2
<1>5. SpecOf(p).replicas \in Int /\ SpecOf(p).replicas <= Cardinality(p.available) + p.missing
  BY <1>1, PassFacts DEF Sorted, Working, ValidSpec
<1> HIDE DEF rest, m
<1>6. /\ q1 \in Pass /\ q1.specs = p.specs /\ q1.service = p.service /\ q1.pc = "act"
      /\ q1.outdated = p.outdated /\ q1.seen = p.seen /\ q1.unhealthy = p.unhealthy
      /\ q1.available = rest /\ q1.starting = p.starting /\ q1.missing = m
  BY <1>1, <1>3 DEF Pass
<1>7. /\ q2 \in Pass /\ q2.specs = p.specs /\ q2.service = p.service /\ q2.pc = "act"
      /\ q2.outdated = p.outdated /\ q2.seen = p.seen /\ q2.unhealthy = p.unhealthy
      /\ q2.available = p.available /\ q2.starting = p.starting /\ q2.missing = m
  BY <1>1, <1>3 DEF Pass
<1> HIDE DEF q1, q2
<1>8. SpecOf(q1) = SpecOf(p) /\ SpecOf(q2) = SpecOf(p)
  BY <1>6, <1>7 DEF SpecOf
<1>9. CASE pass' = [pass EXCEPT ![t] = q1]
  <2>1. Familiar(q1, containers', created')
    BY <1>3, <1>6, KeepsFamiliar DEF Listed
  <2>2. SpecOf(p).replicas <= Cardinality(rest) + m
    BY <1>3, <1>5
  <2>3. Sorted(q1)
    BY <1>1, <1>3, <1>6, <1>8, <2>2 DEF Sorted, Listed
  <2> QED
    BY <1>9, <2>1, <2>3 DEF GoesOn
<1>10. CASE pass' = [pass EXCEPT ![t] = q2]
  <2>1. Familiar(q2, containers', created')
    BY <1>7, KeepsFamiliar DEF Listed
  <2>2. SpecOf(p).replicas <= Cardinality(p.available) + m
    BY <1>3, <1>5
  <2>3. Sorted(q2)
    BY <1>1, <1>7, <1>8, <2>2 DEF Sorted, Listed
  <2> QED
    BY <1>10, <2>1, <2>3 DEF GoesOn
<1> QED
  BY <1>4, <1>9, <1>10

\* Every step of a pass.
LEMMA PassSorts ==
  ASSUME IInv, LInv, [ControlPlaneNext]_allVars, NEW t \in Callers, PassStep(t)
  PROVE  \E q : GoesOn(t, q)
<1> DEFINE p == pass[t]
<1>0. IInv' /\ p \in Pass /\ Sorted(p) /\ created' \in Nat
  BY NextOK, PassFacts DEF LInv, IInv, TypeOK
<1>1. CASE ListFails(t)
  <2>1. PICK s \in p.todo : pass' = [pass EXCEPT ![t] = Advance([p EXCEPT !.todo = p.todo \ {s}])]
    BY <1>1 DEF ListFails
  <2> DEFINE q == [p EXCEPT !.todo = p.todo \ {s}]
  <2>2. q \in Pass /\ q.specs = p.specs /\ q.todo = p.todo \ {s}
    BY <1>0 DEF Pass
  <2>3. pass' = [pass EXCEPT ![t] = Advance(q)]
    BY <2>1
  <2> HIDE DEF q
  <2>4. PICK r : r = q
    OBVIOUS
  <2> QED
    BY <1>0, <2>2, <2>3, <2>4, PassFacts, AdvanceGoesOn
<1>2. CASE ReplaceUnhealthy(t)
  <2>1. PICK c \in p.unhealthy :
          pass' = [pass EXCEPT ![t] = [p EXCEPT !.unhealthy = p.unhealthy \ {c}]]
    BY <1>2 DEF ReplaceUnhealthy
  <2> DEFINE q == [p EXCEPT !.unhealthy = p.unhealthy \ {c}]
  <2>2. /\ q \in Pass /\ q.specs = p.specs /\ q.service = p.service /\ q.missing = p.missing
        /\ q.outdated = p.outdated /\ q.seen = p.seen /\ q.unhealthy \subseteq p.unhealthy
        /\ q.available = p.available /\ q.starting = p.starting /\ q.pc = p.pc /\ p.pc = "act"
    BY <1>0, <1>2 DEF Pass, ReplaceUnhealthy
  <2>3. pass' = [pass EXCEPT ![t] = q]
    BY <2>1
  <2> HIDE DEF q
  <2> QED
    BY <2>2, <2>3, SameLists
<1>3. CASE StartReplica(t)
  <2> DEFINE q == [p EXCEPT !.pc = "track"]
  <2>1. CASE pass' = [pass EXCEPT ![t] = q]
    <3>1. /\ q \in Pass /\ q.specs = p.specs /\ q.service = p.service /\ q.missing = p.missing
          /\ q.outdated = p.outdated /\ q.seen = p.seen /\ q.unhealthy = p.unhealthy
          /\ q.available = p.available /\ q.starting = p.starting
          /\ p.pc = "start" /\ q.pc = "track"
      BY <1>0, <1>3 DEF Pass, StartReplica
    <3>2. pass' = [pass EXCEPT ![t] = q]
      BY <2>1
    <3> HIDE DEF q
    <3> QED
      BY <3>1, <3>2, SameLists
  <2>2. CASE pass' = [pass EXCEPT ![t] = AfterStart(p)]
    BY <1>0, <1>3, <2>2, AfterStartSorts DEF StartReplica, Sorted
  <2> QED
    BY <1>3, <2>1, <2>2 DEF StartReplica
<1>4. CASE TrackReplica(t)
  BY <1>0, <1>4, AfterStartSorts DEF TrackReplica, Sorted
<1>5. CASE TrackPanics(t)
  <2>1. Sorted(IdlePass) /\ Familiar(IdlePass, containers', created')
    BY <1>0 DEF Sorted, Familiar, Listed, IdlePass
  <2> QED
    BY <1>5, <2>1 DEF TrackPanics, GoesOn
<1>6. CASE RolloutStop(t) \/ EndService(t)
  BY <1>0, <1>6, PassFacts, AdvanceGoesOn DEF RolloutStop, EndService
<1> QED
  BY <1>1, <1>2, <1>3, <1>4, <1>5, <1>6, ListSorts, ReadSorts, CreateSorts, ScaleDownSorts
  DEF PassStep

\* Every step keeps the lists of every pass in order.
LEMMA LNext == IInv /\ LInv /\ [ControlPlaneNext]_allVars => LInv'
<1> SUFFICES ASSUME IInv, LInv, [ControlPlaneNext]_allVars PROVE LInv'
  OBVIOUS
<1>0. pass \in [Callers -> Pass] /\ created' \in Nat
  BY NextOK DEF IInv, TypeOK
<1>1. ASSUME NEW u \in Callers PROVE Sorted(pass[u]) /\ Familiar(pass[u], containers', created')
  BY <1>1, PassFacts, StaysFamiliar DEF LInv
<1>2. ASSUME UNCHANGED pass PROVE LInv'
  BY <1>1, <1>2 DEF LInv
<1>3. ASSUME NEW t \in Callers, NEW q, GoesOn(t, q) PROVE LInv'
  BY <1>0, <1>1, <1>3 DEF LInv, GoesOn
<1>4. ASSUME NEW t \in Callers, BeginPass(t) PROVE LInv'
  <2>1. PICK q \in Pass : /\ q.pc \in {"idle", "next"} /\ q.starting = 0
                          /\ q.outdated = {} /\ q.seen = {} /\ q.unhealthy = {}
                          /\ q.available = {}
                          /\ pass' = [pass EXCEPT ![t] = q]
    BY <1>4, BeginPassStep
  <2>2. Sorted(q) /\ Familiar(q, containers', created')
    BY <1>0, <2>1 DEF Sorted, Familiar, Listed
  <2> QED
    BY <1>3, <2>1, <2>2 DEF GoesOn
<1>5. ASSUME NEW t \in Handlers,
             UpsertService(t) \/ ScaleService(t) \/ RestartService(t) \/ DeleteService(t)
      PROVE  UNCHANGED pass
  BY <1>5, RequestStep, AskedType DEF IInv, TypeOK
<1>6. CASE Restart \/ BootFails
  <2>1. Sorted(IdlePass) /\ Familiar(IdlePass, containers', created')
    BY <1>0 DEF Sorted, Familiar, Listed, IdlePass
  <2> QED
    BY <1>6, <2>1, CrashType DEF LInv
<1>7. ASSUME NEW t \in Handlers, Serve(t) PROVE LInv'
  BY <1>2, <1>4, <1>7 DEF Serve, Save, SaveFails, ListVictims, ListVictimsFails, StopVictim,
     ReconcileNow, vars, Handlers
<1>8. CASE LoopTurn
  BY <1>4, <1>8, DeployerAssumption DEF LoopTurn
<1>9. ASSUME NEW t \in Callers, Reconcile(t) PROVE LInv'
  BY <1>3, <1>9, PassSorts DEF Reconcile
<1>10. ASSUME NEW c \in Ids, Observed(c) \/ Breaks(c) PROVE UNCHANGED pass
  BY <1>10, EnvironmentType
<1> QED
  BY <1>2, <1>5, <1>6, <1>7, <1>8, <1>9, <1>10 DEF ControlPlaneNext, allVars, vars

\* Initially no pass has listed anything.
LEMMA LInit == ControlPlaneInit => LInv
  BY DEF ControlPlaneInit, Init, LInv, Sorted, Familiar, Listed, IdlePass
=============================================================================
