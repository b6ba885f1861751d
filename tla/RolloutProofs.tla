---------------------------- MODULE RolloutProofs ----------------------------
(***************************************************************************)
(* Theorems about ControlPlaneHistory, for every number of callers,        *)
(* services, containers, requests, faults and crashes: generations,        *)
(* rollouts, and scaling down.                                             *)
(***************************************************************************)
EXTENDS ControlPlaneHistory, DeployerProofs

-----------------------------------------------------------------------------
(***************************************************************************)
(* Generations.                                                            *)
(***************************************************************************)
\* Unless its generation was taken back, the copies of the spec of a service and
\* its containers are behind the store.
GInv ==
  \A s \in Services \ rewound :
    /\ \A t \in Callers : pass[t].specs[s].generation <= services[s].generation
    /\ \A c \in Existing :
         containers[c].service = s => containers[c].generation <= services[s].generation

\* The history variables only watch.
LEMMA HistoryOnlyWatches ==
  ASSUME [HistoryNext]_historyVars
  PROVE  [ControlPlaneNext]_allVars
  BY DEF HistoryNext, historyVars

\* The only container that a creation changes is the next one, which does not run.
LEMMA CreatedState ==
  ASSUME IInv, NEW t \in Callers, Creates(t)
  PROVE  OnlyChanges(created + 1) /\ containers'[created + 1].state = "created"
<1>1. DockerOK /\ pass[t].service \in Services /\ SpecOf(pass[t]) \in ValidSpec
  BY DockerFacts, PassFacts DEF Creates, CreateReplica, Working
<1>2. CreateContainer(pass[t].service, SpecOf(pass[t]))
  BY DEF Creates
<1>3. /\ OnlyChanges(created + 1)
      /\ containers'[created + 1] = [service |-> pass[t].service, image |-> SpecOf(pass[t]).image,
                                     generation |-> SpecOf(pass[t]).generation,
                                     state |-> "created"]
  BY <1>1, <1>2, CreateContainerStep DEF CreateContainer
<1> QED
  BY <1>3

\* A container that exists after a step existed before, or a pass created it.
LEMMA NewContainers ==
  ASSUME IInv, [ControlPlaneNext]_allVars, NEW c \in Ids, containers'[c].state # "none"
  PROVE  \/ c <= created /\ Ages(c) /\ containers[c].state # "none"
         \/ \E t \in Callers :
              /\ Creates(t) /\ c = created + 1 /\ pass[t].service \in Services
              /\ containers'[c].service = pass[t].service
              /\ containers'[c].generation = SpecOf(pass[t]).generation
<1>0. DockerOK /\ created \in Int /\ created' \in Int /\ c \in Int /\ FreshIds'
  BY NextOK, DockerFacts DEF IInv, TypeOK, Ids
<1>1. CASE c <= created
  BY <1>1, ContainersAge DEF Ages
<1>2. CASE ~(c <= created)
  <2>1. created' # created
    BY <1>0, <1>2 DEF FreshIds
  <2>2. PICK t \in Callers : Creates(t)
    BY <2>1, DockerSteps
    DEF Starts, StartContainer, Stops, StopContainer, StopFails, StartsLate, ContainerExits
  <2>3. pass[t].service \in Services /\ SpecOf(pass[t]) \in ValidSpec
    BY <2>2, PassFacts DEF Creates, CreateReplica, Working
  <2>4. /\ containers'[created + 1] = [service |-> pass[t].service, image |-> SpecOf(pass[t]).image,
                                        generation |-> SpecOf(pass[t]).generation,
                                        state |-> "created"]
        /\ created' = created + 1
    BY <1>0, <2>2, <2>3, CreateContainerStep DEF Creates, CreateContainer
  <2>5. c = created + 1
    BY <1>0, <1>2, <2>4 DEF FreshIds
  <2> QED
    BY <2>2, <2>3, <2>4, <2>5
<1> QED
  BY <1>1, <1>2

\* The copies that a pass works from are kept, or dropped, or taken from the store.
LEMMA CopiesStep ==
  ASSUME IInv, [ControlPlaneNext]_allVars, NEW t \in Callers
  PROVE  \/ pass'[t].specs = pass[t].specs
         \/ pass'[t].specs = IdlePass.specs
         \/ pass'[t].specs = services /\ UNCHANGED services
<1>0. pass \in [Callers -> Pass]
  BY DEF IInv, TypeOK
<1>1. ASSUME NEW u \in Callers, BeginPass(u)
      PROVE  \/ pass'[t].specs = pass[t].specs
             \/ pass'[t].specs = IdlePass.specs
             \/ pass'[t].specs = services /\ UNCHANGED services
  <2>1. PICK q \in Pass : /\ q.specs = services \/ q.specs = IdlePass.specs
                          /\ pass' = [pass EXCEPT ![u] = q]
    BY <1>1, BeginPassStep
  <2> QED
    BY <1>0, <1>1, <2>1 DEF BeginPass
<1>2. ASSUME NEW u \in Callers, Reconcile(u)
      PROVE  pass'[t].specs = pass[t].specs \/ pass'[t].specs = IdlePass.specs
  <2>1. PICK q : PassMoves(u, q)
    BY <1>2, ReconcileType DEF StepOK
  <2> QED
    BY <1>0, <2>1 DEF PassMoves
<1>3. ASSUME NEW u \in Handlers, Serve(u)
      PROVE  UNCHANGED pass \/ BeginPass(u)
  BY <1>3 DEF Serve, Save, SaveFails, ListVictims, ListVictimsFails, StopVictim, ReconcileNow, vars
<1>4. ASSUME NEW u \in Handlers,
             UpsertService(u) \/ ScaleService(u) \/ RestartService(u) \/ DeleteService(u)
      PROVE  UNCHANGED pass
  BY <1>4, RequestStep, AskedType DEF IInv, TypeOK
<1>5. CASE UNCHANGED pass
  BY <1>5
<1> QED
  BY <1>1, <1>2, <1>3, <1>4, <1>5, CrashType, EnvironmentType, DeployerAssumption
  DEF ControlPlaneNext, LoopTurn, Handlers, allVars, vars

\* The generation of a service that is not remembered as taken back rises.
LEMMA Rises ==
  ASSUME IInv, [HistoryNext]_historyVars, NEW s \in Services \ rewound'
  PROVE  s \notin rewound /\ services[s].generation <= services'[s].generation
<1>0. /\ services \in Store /\ services' \in Store
      /\ services[s].generation \in Nat /\ services'[s].generation \in Nat
  <2>1. services \in Store /\ services' \in Store
    BY HistoryOnlyWatches, NextOK DEF IInv, TypeOK
  <2> QED
    BY <2>1, FoundGeneration
<1>1. CASE UNCHANGED historyVars
  BY <1>0, <1>1 DEF historyVars, history, allVars, vars
<1>2. CASE HistoryNext
  <2>1. s \notin rewound /\ ~TakesBack(s) /\ ControlPlaneNext
    BY <1>2 DEF HistoryNext, Remember
  <2>2. CASE UNCHANGED services
    BY <1>0, <2>1, <2>2
  <2>3. CASE Restart \/ BootFails
    <3>1. crashes' # crashes
      BY <2>3, CrashType
    <3> QED
      BY <1>0, <2>1, <3>1 DEF TakesBack
  <2>4. ASSUME NEW t \in Handlers, Asked(t)
        PROVE  services[s].generation <= services'[s].generation
    <3>1. PICK r \in Services, store \in Store, delete \in BOOLEAN :
            /\ services' = store
            /\ \/ Raises(services, store)
               \/ store = Delete(services, r)
               \/ \E g \in GenerationChoices :
                    /\ store[r].generation = g
                    /\ \A x \in Services \ {r} : store[x] = services[x]
      BY <2>4 DEF Asked, Accept
    <3>2. CASE Raises(services, store)
      BY <3>1, <3>2 DEF Raises
    <3>3. CASE store = Delete(services, r)
      <4>1. r # s => services'[s] = services[s]
        BY <1>0, <3>1, <3>3 DEF Delete, Store
      <4>2. r = s => ~Found(services', s)
        BY <1>0, <3>1, <3>3 DEF Delete, Store, Found
      <4> QED
        BY <1>0, <2>1, <4>1, <4>2 DEF TakesBack
    <3>4. CASE \E g \in GenerationChoices :
                    /\ store[r].generation = g
                    /\ \A x \in Services \ {r} : store[x] = services[x]
      BY <1>0, <2>1, <3>1, <3>4 DEF TakesBack
    <3> QED
      BY <3>1, <3>2, <3>3, <3>4
  <2> QED
    BY <1>0, <2>1, <2>2, <2>3, <2>4, RequestStep, ServeType, ReconcileType, LoopTurnType,
       EnvironmentType
    DEF ControlPlaneNext
<1> QED
  BY <1>1, <1>2

\* Every step keeps copies and containers behind the store.
LEMMA GNext == IInv /\ GInv /\ [HistoryNext]_historyVars => GInv'
<1> SUFFICES ASSUME IInv, GInv, [HistoryNext]_historyVars, NEW s \in Services \ rewound'
             PROVE  /\ \A t \in Callers : pass'[t].specs[s].generation <= services'[s].generation
                    /\ \A c \in Existing' : containers'[c].service = s
                         => containers'[c].generation <= services'[s].generation
  BY DEF GInv
<1>1. s \notin rewound /\ services[s].generation <= services'[s].generation
  BY Rises
<1>2. [ControlPlaneNext]_allVars /\ IInv'
  BY HistoryOnlyWatches, NextOK
<1>3. services[s].generation \in Nat /\ services'[s].generation \in Nat
  BY <1>2, FoundGeneration DEF IInv, TypeOK
<1>4. ASSUME NEW t \in Callers PROVE pass'[t].specs[s].generation <= services'[s].generation
  <2>1. pass[t].specs[s].generation \in Nat
        /\ pass[t].specs[s].generation <= services[s].generation
    BY <1>1, PassFacts, FoundGeneration DEF GInv, Pass
  <2>2. IdlePass.specs[s].generation = 0
    BY DEF IdlePass, NoSpec
  <2> QED
    BY <1>1, <1>2, <1>3, <2>1, <2>2, CopiesStep
<1>5. ASSUME NEW c \in Existing', containers'[c].service = s
      PROVE  containers'[c].generation <= services'[s].generation
  <2>1. c \in Ids /\ containers'[c].state # "none"
    BY <1>5 DEF Existing
  <2>2. containers'[c].generation \in Int
    BY <1>2, <2>1 DEF IInv, TypeOK, NoContainer, Container
  <2>3. CASE Ages(c) /\ containers[c].state # "none"
    BY <1>1, <1>3, <1>5, <2>1, <2>2, <2>3 DEF Ages, GInv, Existing
  <2>4. ASSUME NEW t \in Callers, containers'[c].service = pass[t].service,
               containers'[c].generation = SpecOf(pass[t]).generation
        PROVE  containers'[c].generation <= services'[s].generation
    BY <1>1, <1>3, <1>5, <2>2, <2>4 DEF GInv, SpecOf
  <2> QED
    BY <1>2, <2>1, <2>3, <2>4, NewContainers
<1> QED
  BY <1>4, <1>5

\* Initially there is neither copy nor container.
LEMMA GInit == HistoryInit => GInv
<1> SUFFICES ASSUME HistoryInit, NEW s \in Services PROVE
        /\ \A t \in Callers : pass[t].specs[s].generation <= services[s].generation
        /\ Existing = {}
  BY DEF GInv
<1>1. services[s].generation \in Nat
  BY InitOK, FoundGeneration DEF HistoryInit, IInv, TypeOK
<1>2. Existing = {}
  BY DEF HistoryInit, ControlPlaneInit, Init, Existing, NoContainer
<1>3. \A t \in Callers : pass[t].specs[s].generation = 0
  BY DEF HistoryInit, ControlPlaneInit, Init, IdlePass, NoSpec
<1> QED
  BY <1>1, <1>2, <1>3

\* A container carries a generation that its service has not reached only if the
\* generation of the service was taken back, by a delete, by a boot from a file
\* that was behind, or by a client; however stale the copies are that the
\* interleaved passes create containers from.
THEOREM GenerationsNeverAhead == HistorySpec => []NoReplicaFromTheFuture
<1>1. HistoryInit => IInv
  BY InitOK DEF HistoryInit
<1>2. IInv /\ [HistoryNext]_historyVars => IInv'
  BY HistoryOnlyWatches, NextOK
<1>3. IInv /\ GInv => NoReplicaFromTheFuture
  <2> SUFFICES ASSUME IInv, GInv, NEW c \in Existing
               PROVE  \/ containers[c].service \in rewound
                      \/ containers[c].generation <= services[containers[c].service].generation
    BY DEF NoReplicaFromTheFuture
  <2>1. containers[c].service \in Services
    BY DEF Existing, IInv, TypeOK, NoContainer, Container
  <2> QED
    BY <2>1 DEF GInv
<1> QED
  BY <1>1, <1>2, <1>3, GInit, GNext, PTL DEF HistorySpec

-----------------------------------------------------------------------------
(***************************************************************************)
(* How the lists of a pass evolve.                                         *)
(***************************************************************************)
\* The containers of the current generation that a pass has not found unhealthy.
Current(p) == p.seen \cup p.available

\* The pass of t goes on with its service and lists nothing new; what is no longer
\* current was reported unhealthy, or stopped.
Shrinks(t) ==
  /\ pass'[t].service = pass[t].service
  /\ pass'[t].outdated = pass[t].outdated
  /\ Current(pass'[t]) \subseteq Current(pass[t])
  /\ \A c \in Current(pass[t]) \ Current(pass'[t]) :
       tracker[c] = "unhealthy" \/ containers'[c].state = "none"
  /\ pass'[t].unhealthy \subseteq
       pass[t].unhealthy \cup {c \in Ids : tracker[c] = "unhealthy"}

\* Reading a report moves a container from one list to another.
LEMMA ReadShrinks ==
  ASSUME IInv, NEW t \in Callers, ReadHealth(t)
  PROVE  Shrinks(t)
<1> DEFINE p == pass[t]
<1>1. PICK c \in p.seen :
        LET q == [p EXCEPT !.seen = p.seen \ {c}] IN
        pass' = [pass EXCEPT ![t] = Counted(
             IF tracker[c] = "unhealthy"
             THEN [q EXCEPT !.unhealthy = p.unhealthy \cup {c}]
             ELSE [q EXCEPT !.available = p.available \cup {c}])]
  BY DEF ReadHealth
<1> DEFINE q0 == [p EXCEPT !.seen = p.seen \ {c}]
           q1 == [q0 EXCEPT !.unhealthy = p.unhealthy \cup {c}]
           q2 == [q0 EXCEPT !.available = p.available \cup {c}]
<1>2. /\ p \in Pass /\ WorksOnSpecs(p) /\ p.pc = "classify" /\ c \in Ids
      /\ pass \in [Callers -> Pass]
  BY PassFacts DEF ReadHealth, Pass, IInv, TypeOK
<1>3. p.seen \ {c} \in SUBSET Ids /\ p.unhealthy \cup {c} \in SUBSET Ids
      /\ p.available \cup {c} \in SUBSET Ids
  BY <1>2 DEF Pass
<1>4. /\ q1 \in Pass /\ q1.pc = "classify" /\ q1.specs = p.specs /\ q1.service = p.service
      /\ q1.todo = p.todo /\ q1.outdated = p.outdated /\ q1.seen = p.seen \ {c}
      /\ q1.unhealthy = p.unhealthy \cup {c} /\ q1.available = p.available
  BY <1>2, <1>3 DEF Pass
<1>5. /\ q2 \in Pass /\ q2.pc = "classify" /\ q2.specs = p.specs /\ q2.service = p.service
      /\ q2.todo = p.todo /\ q2.outdated = p.outdated /\ q2.seen = p.seen \ {c}
      /\ q2.unhealthy = p.unhealthy /\ q2.available = p.available \cup {c}
  BY <1>2, <1>3 DEF Pass
<1>6. \/ tracker[c] = "unhealthy" /\ pass' = [pass EXCEPT ![t] = Counted(q1)]
      \/ pass' = [pass EXCEPT ![t] = Counted(q2)]
  BY <1>1
<1> HIDE DEF q1, q2
<1>7. WorksOnSpecs(q1) /\ WorksOnSpecs(q2)
  BY <1>2, <1>4, <1>5 DEF WorksOnSpecs
<1>8. CASE tracker[c] = "unhealthy" /\ pass' = [pass EXCEPT ![t] = Counted(q1)]
  <2>1. /\ pass'[t].service = p.service /\ pass'[t].outdated = p.outdated
        /\ pass'[t].seen = p.seen \ {c} /\ pass'[t].available = p.available
        /\ pass'[t].unhealthy = p.unhealthy \cup {c}
    BY <1>2, <1>4, <1>7, <1>8, CountedType
  <2> QED
    BY <1>2, <1>8, <2>1 DEF Shrinks, Current
<1>9. CASE pass' = [pass EXCEPT ![t] = Counted(q2)]
  <2>1. /\ pass'[t].service = p.service /\ pass'[t].outdated = p.outdated
        /\ pass'[t].seen = p.seen \ {c} /\ pass'[t].available = p.available \cup {c}
        /\ pass'[t].unhealthy = p.unhealthy
    BY <1>2, <1>5, <1>7, <1>9, CountedType
  <2> QED
    BY <1>2, <1>9, <2>1 DEF Shrinks, Current
<1> QED
  BY <1>6, <1>8, <1>9

\* The end of a call of StartContainer, or of a service.
LEMMA AfterStartShrinks ==
  ASSUME IInv, NEW t \in Callers, pass' = [pass EXCEPT ![t] = AfterStart(pass[t])]
  PROVE  Listed(pass'[t]) = {} \/ Shrinks(t)
<1> DEFINE p == pass[t]
<1>1. p \in Pass /\ pass \in [Callers -> Pass]
  BY PassFacts DEF IInv, TypeOK
<1>2. CASE p.outdated # {}
  <2>1. pass'[t] = Advance(p)
    BY <1>1, <1>2 DEF AfterStart
  <2> QED
    BY <1>1, <2>1, PassFacts, AdvanceType DEF Listed
<1>3. CASE p.outdated = {}
  <2>1. pass'[t] = [p EXCEPT !.pc = "act", !.missing = p.missing - 1, !.starting = 0]
    BY <1>1, <1>3 DEF AfterStart
  <2>2. /\ pass'[t].service = p.service /\ pass'[t].outdated = p.outdated
        /\ pass'[t].seen = p.seen /\ pass'[t].available = p.available
        /\ pass'[t].unhealthy = p.unhealthy
    BY <1>1, <2>1 DEF Pass
  <2> QED
    BY <2>2 DEF Shrinks, Current
<1> QED
  BY <1>2, <1>3

\* The three things a step does to the lists of a pass.
LEMMA PassEvolves ==
  ASSUME IInv, [ControlPlaneNext]_allVars, NEW t \in Callers
  PROVE  \/ pass'[t] = pass[t] /\ Shrinks(t)
         \/ Listed(pass'[t]) = {}
         \/ ListRunningContainers(t)
         \/ PassStep(t) /\ Shrinks(t)
<1>0. pass \in [Callers -> Pass] /\ DockerOK
  BY DockerFacts DEF IInv, TypeOK
<1>1. ASSUME pass'[t] = pass[t] PROVE Shrinks(t)
  BY <1>1 DEF Shrinks
<1>2. ASSUME NEW u \in Callers, u # t, NEW q, pass' = [pass EXCEPT ![u] = q]
      PROVE  pass'[t] = pass[t]
  BY <1>0, <1>2
<1>3. ASSUME BeginPass(t) PROVE Listed(pass'[t]) = {}
  BY <1>0, <1>3, BeginPassStep DEF Listed
<1>4. ASSUME PassStep(t)
      PROVE  Listed(pass'[t]) = {} \/ ListRunningContainers(t) \/ Shrinks(t)
  <2> DEFINE p == pass[t]
  <2>0. p \in Pass
    BY PassFacts
  <2>1. CASE ListFails(t)
    <3>1. PICK s \in p.todo : pass' = [pass EXCEPT ![t] = Advance([p EXCEPT !.todo = p.todo \ {s}])]
      BY <2>1 DEF ListFails
    <3> DEFINE q == [p EXCEPT !.todo = p.todo \ {s}]
    <3>2. q \in Pass /\ \A o \in q.todo : Found(q.specs, o)
      BY <2>0, PassFacts DEF Pass
    <3>3. pass'[t] = Advance(q)
      BY <1>0, <3>1
    <3> HIDE DEF q
    <3> QED
      BY <3>2, <3>3, AdvanceType DEF Listed
  <2>2. CASE RolloutStop(t) \/ EndService(t)
    <3>1. pass'[t] = Advance(p)
      BY <1>0, <2>2 DEF RolloutStop, EndService
    <3> QED
      BY <2>0, <3>1, PassFacts, AdvanceType DEF Listed
  <2>3. CASE TrackPanics(t)
    BY <1>0, <2>3 DEF TrackPanics, Listed, IdlePass
  <2>4. CASE ReplaceUnhealthy(t)
    <3>1. PICK c \in p.unhealthy : pass'[t] = [p EXCEPT !.unhealthy = p.unhealthy \ {c}]
      BY <1>0, <2>4 DEF ReplaceUnhealthy
    <3>2. /\ pass'[t].service = p.service /\ pass'[t].outdated = p.outdated
          /\ pass'[t].seen = p.seen /\ pass'[t].available = p.available
          /\ pass'[t].unhealthy \subseteq p.unhealthy
      BY <2>0, <3>1 DEF Pass
    <3> QED
      BY <3>2 DEF Shrinks, Current
  <2>5. CASE /\ pass' = [pass EXCEPT ![t] = [p EXCEPT !.pc = "start", !.starting = created + 1]]
    <3>1. /\ pass'[t].service = p.service /\ pass'[t].outdated = p.outdated
          /\ pass'[t].seen = p.seen /\ pass'[t].available = p.available
          /\ pass'[t].unhealthy = p.unhealthy
      BY <1>0, <2>0, <2>5 DEF Pass
    <3> QED
      BY <3>1 DEF Shrinks, Current
  <2>6. CASE /\ pass' = [pass EXCEPT ![t] = [p EXCEPT !.pc = "track"]]
    <3>1. /\ pass'[t].service = p.service /\ pass'[t].outdated = p.outdated
          /\ pass'[t].seen = p.seen /\ pass'[t].available = p.available
          /\ pass'[t].unhealthy = p.unhealthy
      BY <1>0, <2>0, <2>6 DEF Pass
    <3> QED
      BY <3>1 DEF Shrinks, Current
  <2>7. CASE ScaleDown(t)
    <3>1. PICK c \in p.available :
            \/ /\ StopContainer(c)
               /\ pass'[t] = [p EXCEPT !.missing = p.missing + 1, !.available = p.available \ {c}]
            \/ pass'[t] = [p EXCEPT !.missing = p.missing + 1]
      BY <1>0, <2>7 DEF ScaleDown
    <3>2. c \in Ids
      BY <2>0 DEF Pass
    <3>3. /\ pass'[t].service = p.service /\ pass'[t].outdated = p.outdated
          /\ pass'[t].seen = p.seen /\ pass'[t].unhealthy = p.unhealthy
          /\ \/ pass'[t].available = p.available \ {c} /\ StopContainer(c)
             \/ pass'[t].available = p.available
      BY <2>0, <3>1 DEF Pass
    <3>4. StopContainer(c) => containers'[c].state = "none"
      BY <1>0, <3>2 DEF StopContainer, DockerOK, NoContainer
    <3> QED
      BY <3>3, <3>4 DEF Shrinks, Current
  <2>8. CASE pass' = [pass EXCEPT ![t] = AfterStart(p)]
    BY <2>8, AfterStartShrinks
  <2> QED
    BY <1>4, <2>1, <2>2, <2>3, <2>4, <2>5, <2>6, <2>7, <2>8, ReadShrinks
    DEF PassStep, CreateReplica, StartReplica, TrackReplica
<1>5. ASSUME NEW u \in Callers, BeginPass(u)
      PROVE  pass'[t] = pass[t] \/ Listed(pass'[t]) = {}
  <2>1. PICK q \in Pass : pass' = [pass EXCEPT ![u] = q]
    BY <1>5, BeginPassStep
  <2> QED
    BY <1>2, <1>3, <1>5, <2>1
<1>6. ASSUME NEW u \in Callers, Reconcile(u)
      PROVE  pass'[t] = pass[t] \/ u = t
  <2>1. PICK q : PassMoves(u, q)
    BY <1>6, ReconcileType DEF StepOK
  <2> QED
    BY <1>2, <2>1 DEF PassMoves
<1>7. ASSUME NEW u \in Handlers, Serve(u)
      PROVE  UNCHANGED pass \/ BeginPass(u)
  BY <1>7 DEF Serve, Save, SaveFails, ListVictims, ListVictimsFails, StopVictim, ReconcileNow, vars
<1>8. ASSUME NEW u \in Handlers,
             UpsertService(u) \/ ScaleService(u) \/ RestartService(u) \/ DeleteService(u)
      PROVE  UNCHANGED pass
  BY <1>8, RequestStep, AskedType DEF IInv, TypeOK
<1>9. CASE Restart \/ BootFails
  BY <1>9, CrashType DEF Listed, IdlePass
<1> QED
  BY <1>1, <1>4, <1>5, <1>6, <1>7, <1>8, <1>9, EnvironmentType, DeployerAssumption
  DEF ControlPlaneNext, LoopTurn, Handlers, Reconcile, allVars, vars

\* A pass lists the containers of one service that run.
LEMMA FreshList ==
  ASSUME IInv, LInv, NEW t \in Callers, ListRunningContainers(t)
  PROVE  LET q == pass'[t]
             old(s) == {c \in Matching(s) : containers[c].generation # pass[t].specs[s].generation}
         IN  /\ UNCHANGED <<containers, created, tracker, services>>
             /\ pass[t].pc = "next"
             /\ \E s \in Services : /\ Found(pass[t].specs, s) /\ q.service = s
                                    /\ q.outdated = old(s)
                                    /\ Current(q) = Matching(s) \ old(s)
                                    /\ q.unhealthy = {}
<1> DEFINE p == pass[t]
           old(s) == {c \in Matching(s) : containers[c].generation # p.specs[s].generation}
           q(s) == [p EXCEPT !.pc = "classify", !.service = s, !.todo = p.todo \ {s},
                             !.outdated = old(s), !.seen = Matching(s) \ old(s)]
<1>1. PICK s \in p.todo : pass' = [pass EXCEPT ![t] = Counted(q(s))]
  BY DEF ListRunningContainers
<1>2. old(s) \in SUBSET Ids /\ Matching(s) \in SUBSET Ids
  BY DEF Matching, Running
<1>3. /\ p \in Pass /\ WorksOnSpecs(p) /\ s \in Services /\ Found(p.specs, s)
      /\ p.unhealthy = {} /\ p.available = {} /\ pass \in [Callers -> Pass]
  BY PassFacts DEF Pass, LInv, Sorted, Listed, ListRunningContainers, IInv, TypeOK
<1>4. pass'[t] = Counted(q(s))
  BY <1>1, <1>3
<1> DEFINE n == q(s)
<1>5. /\ n \in Pass /\ n.pc = "classify" /\ n.specs = p.specs /\ n.service = s
      /\ n.todo = p.todo \ {s} /\ n.outdated = old(s) /\ n.seen = Matching(s) \ old(s)
      /\ n.unhealthy = {} /\ n.available = {}
  BY <1>2, <1>3 DEF Pass
<1> HIDE DEF q
<1>6. WorksOnSpecs(n)
  BY <1>3, <1>5 DEF WorksOnSpecs
<1>7. /\ pass'[t].service = s /\ pass'[t].outdated = old(s)
      /\ pass'[t].seen = Matching(s) \ old(s) /\ pass'[t].available = {}
      /\ pass'[t].unhealthy = {}
  BY <1>4, <1>5, <1>6, CountedType
<1> QED
  BY <1>3, <1>7 DEF Current, ListRunningContainers

-----------------------------------------------------------------------------
(***************************************************************************)
(* Passes that overlap with no other and with no delete.                   *)
(***************************************************************************)
\* A goroutine serves a request or makes a pass, and the loop serves none.
OneThing ==
  /\ handler[Loop].pc = "idle"
  /\ \A t \in Callers : handler[t].pc = "idle" \/ pass[t].pc = "idle"

\* While a pass is under way that is not remembered to overlap, nobody else is
\* busy.
Alone == \A t \in Callers \ overlapped :
           pass[t].pc # "idle" => \A u \in Callers \ {t} : ~Busy(u)

\* The replicas on the lists of a pass that is alone are still there.
Keeps == \A t \in Callers \ overlapped : \A c \in Current(pass[t]) : containers[c].state # "none"

\* A caller does one thing at a time.
LEMMA OneThingNext == IInv /\ OneThing /\ [ControlPlaneNext]_allVars => OneThing'
<1> SUFFICES ASSUME IInv, OneThing, [ControlPlaneNext]_allVars PROVE OneThing'
  OBVIOUS
<1>0. handler \in [Callers -> HandlerState] /\ pass \in [Callers -> Pass] /\ Loop \in Callers
  BY DeployerAssumption DEF IInv, TypeOK, ProcessOK
<1>1. ASSUME NEW t \in Handlers, NEW h, handler' = [handler EXCEPT ![t] = h],
             handler[t].pc # "idle" \/ Free(t), UNCHANGED pass
      PROVE  OneThing'
  BY <1>0, <1>1 DEF OneThing, Free, Handlers
<1>2. ASSUME NEW t \in Handlers,
             UpsertService(t) \/ ScaleService(t) \/ RestartService(t) \/ DeleteService(t)
      PROVE  OneThing'
  <2>1. Asked(t)
    BY <1>2, RequestStep DEF IInv, TypeOK
  <2>2. Free(t) /\ UNCHANGED pass /\ \E h : handler' = [handler EXCEPT ![t] = h]
    BY <2>1 DEF Asked, Accept
  <2> QED
    BY <1>1, <2>2
<1>3. ASSUME NEW t \in Handlers, Save(t) \/ SaveFails(t) \/ ListVictims(t) \/ ListVictimsFails(t)
                                  \/ StopVictim(t)
      PROVE  OneThing'
  <2>1. handler[t].pc # "idle" /\ UNCHANGED pass /\ \E h : handler' = [handler EXCEPT ![t] = h]
    BY <1>3 DEF Save, SaveFails, ListVictims, ListVictimsFails, StopVictim, vars
  <2> QED
    BY <1>1, <2>1
<1>4. ASSUME NEW t \in Callers, NEW q, pass' = [pass EXCEPT ![t] = q], handler'[t].pc = "idle",
             \A u \in Callers \ {t} : handler'[u] = handler[u]
      PROVE  OneThing'
  BY <1>0, <1>4 DEF OneThing
<1>5. ASSUME NEW t \in Callers, BeginPass(t) PROVE \E q : pass' = [pass EXCEPT ![t] = q]
  BY <1>5, BeginPassStep
<1>6. ASSUME NEW t \in Handlers, ReconcileNow(t) PROVE OneThing'
  BY <1>0, <1>4, <1>5, <1>6 DEF ReconcileNow, Handlers, IdleHandler
<1>7. CASE LoopTurn
  BY <1>0, <1>4, <1>5, <1>7 DEF LoopTurn, process, OneThing
<1>8. ASSUME NEW t \in Callers, Reconcile(t) PROVE OneThing'
  <2>1. PICK q : PassMoves(t, q)
    BY <1>8, ReconcileType DEF StepOK
  <2>2. pass[t].pc # "idle"
    BY <1>8 DEF Reconcile, PassStep, ListRunningContainers, ListFails, ReadHealth,
       ReplaceUnhealthy, CreateReplica, StartReplica, TrackReplica, TrackPanics, RolloutStop,
       ScaleDown, EndService
  <2>3. UNCHANGED handler
    BY <1>8 DEF Reconcile, process
  <2> QED
    BY <1>4, <2>1, <2>2, <2>3 DEF PassMoves, OneThing
<1>9. CASE Restart \/ BootFails
  BY <1>0, <1>9, CrashType DEF OneThing, IdleHandler
<1>10. ASSUME UNCHANGED <<pass, handler>> PROVE OneThing'
  BY <1>10 DEF OneThing
<1> QED
  BY <1>2, <1>3, <1>6, <1>7, <1>8, <1>9, <1>10, EnvironmentType
  DEF ControlPlaneNext, Serve, process, allVars, vars

\* Who is remembered as alone was so before.
LEMMA AloneNext ==
  ASSUME Alone, [HistoryNext]_historyVars
  PROVE  Alone'
<1>1. CASE UNCHANGED historyVars
  BY <1>1 DEF historyVars, history, allVars, vars, process, Alone, Busy
<1>2. CASE HistoryNext
  BY <1>2 DEF HistoryNext, Remember, Alone
<1> QED
  BY <1>1, <1>2

\* A pass that goes on and is alone was alone.
LEMMA AloneBefore ==
  ASSUME [HistoryNext]_historyVars, NEW t \in Callers \ overlapped', pass'[t].pc # "idle"
  PROVE  t \notin overlapped
  BY DEF HistoryNext, Remember, historyVars, history

\* Who stops a container is busy.
LEMMA StopsBusily ==
  ASSUME NEW t \in Callers, NEW c, Stops(t, c)
  PROVE  Busy(t)
  BY DEF Stops, ReplaceUnhealthy, RolloutStop, ScaleDown, StopVictim, Busy

\* While a pass is alone, only itself stops containers.
LEMMA OnlyItself ==
  ASSUME IInv, LInv, OneThing, Alone, NEW t \in Callers \ overlapped, pass[t].pc # "idle",
         NEW u \in Callers, NEW c \in Ids, Stops(u, c)
  PROVE  /\ u = t
         /\ \/ ReplaceUnhealthy(t) /\ c \in pass[t].unhealthy
            \/ RolloutStop(t) /\ c \in pass[t].outdated
            \/ ScaleDown(t) /\ c \in pass[t].available
<1>1. u = t
  BY StopsBusily DEF Alone
<1>2. ~StopVictim(t)
  BY DEF StopVictim, OneThing
<1> QED
  BY <1>1, <1>2 DEF Stops

\* A container that is removed is stopped by somebody.
LEMMA RemovedByStop ==
  ASSUME IInv, [ControlPlaneNext]_allVars, NEW c \in Ids, c <= created,
         containers[c].state # "none", containers'[c].state = "none"
  PROVE  \E u \in Callers : Stops(u, c)
<1>0. DockerOK
  BY DockerFacts
<1>1. ASSUME NEW u \in Callers, Creates(u) PROVE FALSE
  <2>1. OnlyChanges(created + 1) /\ containers'[created + 1].state = "created"
    BY <1>1, CreatedState
  <2> QED
    BY <2>1 DEF OnlyChanges
<1>2. ASSUME NEW u \in Callers, Starts(u) PROVE FALSE
  <2>1. pass[u].starting \in Ids
    BY <1>2, PassFacts DEF Starts, StartReplica
  <2>2. OnlyChanges(pass[u].starting) /\ containers'[pass[u].starting].state = "running"
    BY <1>0, <1>2, <2>1, StateChange DEF Starts, StartContainer
  <2> QED
    BY <2>2 DEF OnlyChanges
<1>3. ASSUME NEW d \in Ids, StartsLate(d) \/ ContainerExits(d) PROVE FALSE
  <2>1. OnlyChanges(d) /\ containers'[d].state # "none"
    BY <1>0, <1>3, StateChange DEF StartsLate, ContainerExits
  <2> QED
    BY <2>1 DEF OnlyChanges
<1>4. ASSUME NEW u \in Callers, NEW d \in Ids, Stops(u, d) PROVE d = c
  <2>1. OnlyChanges(d)
    BY <1>0, <1>4, StopStep DEF Stops
  <2> QED
    BY <2>1 DEF OnlyChanges
<1> QED
  BY <1>1, <1>2, <1>3, <1>4, DockerSteps

\* Steps keep what a pass that is alone has listed.
LEMMA KeepsNext ==
  ASSUME IInv, LInv, OneThing, Alone, Keeps, [HistoryNext]_historyVars
  PROVE  Keeps'
<1> SUFFICES ASSUME NEW t \in Callers \ overlapped', NEW c \in Current(pass'[t])
             PROVE  containers'[c].state # "none"
  BY DEF Keeps
<1>0. [ControlPlaneNext]_allVars /\ IInv' /\ LInv'
  BY HistoryOnlyWatches, NextOK, LNext
<1>1. c \in Listed(pass'[t]) /\ c \in Ids
  <2>1. pass'[t] \in Pass
    BY <1>0 DEF IInv, TypeOK
  <2> QED
    BY <2>1 DEF Listed, Current, Pass
<1>2. t \notin overlapped
  BY <1>0, <1>1, AloneBefore DEF LInv, Sorted
<1>3. CASE ListRunningContainers(t)
  <2>1. PICK s \in Services : c \in Matching(s)
    BY <1>3, FreshList
  <2> QED
    BY <1>3, <2>1, FreshList DEF Matching, Running
<1>4. CASE Shrinks(t)
  <2>1. c \in Current(pass[t]) /\ c \in Listed(pass[t])
    BY <1>4 DEF Shrinks, Current, Listed
  <2>2. containers[c].state # "none" /\ c <= created /\ pass[t].pc # "idle"
    BY <1>2, <2>1 DEF Keeps, LInv, Familiar, Sorted
  <2>3. SUFFICES ASSUME containers'[c].state = "none" PROVE FALSE
    OBVIOUS
  <2>4. PICK u \in Callers : Stops(u, c)
    BY <1>0, <1>1, <2>2, <2>3, RemovedByStop
  <2>5. ScaleDown(t) /\ c \in pass[t].available /\ Sorted(pass[t])
    <3>1. Sorted(pass[t])
      BY DEF LInv
    <3>2. /\ \/ ReplaceUnhealthy(t) /\ c \in pass[t].unhealthy
             \/ RolloutStop(t) /\ c \in pass[t].outdated
             \/ ScaleDown(t) /\ c \in pass[t].available
      BY <1>1, <1>2, <2>2, <2>4, OnlyItself
    <3> QED
      BY <2>1, <3>1, <3>2 DEF Sorted, Current
  <2>6. PICK d \in pass[t].available :
          /\ StopContainer(d) \/ StopFails(d)
          /\ \/ /\ StopContainer(d)
                /\ pass' = [pass EXCEPT ![t] = [pass[t] EXCEPT !.missing = pass[t].missing + 1,
                                                              !.available = pass[t].available \ {d}]]
             \/ StopFails(d)
    BY <2>5 DEF ScaleDown
  <2>7. DockerOK /\ pass[t] \in Pass /\ pass \in [Callers -> Pass] /\ d \in Ids
    BY DockerFacts, PassFacts DEF IInv, TypeOK, Pass
  <2>8. OnlyChanges(d)
    BY <2>6, <2>7, StopStep
  <2>9. d = c
    BY <1>1, <2>2, <2>3, <2>8 DEF OnlyChanges
  <2>10. ~StopFails(c)
    <3>1. SUFFICES ASSUME StopFails(c) PROVE containers'[c].state # "none"
      BY <2>3
    <3>2. CASE UNCHANGED containers
      BY <2>2, <3>2
    <3>3. CASE containers' = [containers EXCEPT ![c].state = "exited"]
      BY <1>1, <2>2, <2>7, <3>3, StateChange
    <3> QED
      BY <3>1, <3>2, <3>3 DEF StopFails
  <2>11. pass'[t].available = pass[t].available \ {c} /\ pass'[t].seen = pass[t].seen
    BY <2>6, <2>7, <2>9, <2>10 DEF Pass
  <2>12. pass[t].seen = {}
    BY <2>5 DEF ScaleDown, Sorted
  <2> QED
    BY <2>11, <2>12 DEF Current
<1> QED
  BY <1>0, <1>1, <1>3, <1>4, PassEvolves

-----------------------------------------------------------------------------
(***************************************************************************)
(* Rollouts, and lone passes without faults.                               *)
(***************************************************************************)
\* A step that moves the pass of t and changes a container it has listed stops it.
LEMMA ListedIsStopped ==
  ASSUME IInv, LInv, OneThing, [ControlPlaneNext]_allVars, NEW t \in Callers,
         pass'[t] # pass[t], NEW c \in Ids, containers'[c] # containers[c],
         containers[c].state # "created", c <= created
  PROVE  /\ Stops(t, c) /\ OnlyChanges(c)
         /\ \/ ReplaceUnhealthy(t) /\ c \in pass[t].unhealthy
            \/ RolloutStop(t) /\ c \in pass[t].outdated
            \/ ScaleDown(t) /\ c \in pass[t].available /\ \A d \in pass[t].available : c <= d
<1>0. DockerOK /\ pass \in [Callers -> Pass] /\ created \in Int /\ c \in Int
  BY DockerFacts DEF IInv, TypeOK, DockerOK, Ids
<1>1. ASSUME NEW u \in Callers, Creates(u) PROVE FALSE
  <2>1. OnlyChanges(created + 1)
    BY <1>1, CreatedState
  <2> QED
    BY <1>0, <2>1 DEF OnlyChanges
<1>2. ASSUME NEW u \in Callers, Starts(u) PROVE FALSE
  <2>1. pass[u].starting \in Ids
    BY <1>2, PassFacts DEF Starts, StartReplica
  <2>2. OnlyChanges(pass[u].starting) /\ containers[pass[u].starting].state = "created"
    BY <1>0, <1>2, <2>1, StateChange DEF Starts, StartContainer
  <2> QED
    BY <2>2 DEF OnlyChanges
<1>3. ASSUME NEW d \in Ids, StartsLate(d) \/ ContainerExits(d) PROVE FALSE
  BY <1>3 DEF StartsLate, ContainerExits
<1>4. ASSUME NEW u \in Callers, NEW d \in Ids, Stops(u, d)
      PROVE  d = c /\ u = t /\ OnlyChanges(c) /\ ~StopVictim(u)
  <2>1. OnlyChanges(d)
    BY <1>0, <1>4, StopStep DEF Stops
  <2>2. ~StopVictim(u)
    BY DEF StopVictim
  <2>3. PassStep(u)
    BY <1>4, <2>2 DEF Stops, PassStep
  <2>4. PICK q : pass' = [pass EXCEPT ![u] = q]
    BY <2>3, PassStepOK DEF StepOK, PassMoves
  <2> QED
    BY <1>0, <2>1, <2>2, <2>4 DEF OnlyChanges
<1> QED
  BY <1>1, <1>2, <1>3, <1>4, DockerSteps DEF Stops

\* A pass that is alone removes outdated replicas within its capacity.
LEMMA CapacityStep ==
  ASSUME IInv, LInv, OneThing, Keeps, [ControlPlaneNext]_allVars, NEW t \in Callers \ overlapped,
         pass'[t] # pass[t], NEW c \in pass[t].outdated, containers'[c] # containers[c]
  PROVE  Cardinality(OfRollout(containers', pass[t])) >= SpecOf(pass[t]).replicas
<1> DEFINE p == pass[t]
<1>1. /\ p \in Pass /\ Sorted(p) /\ Familiar(p, containers, created) /\ c \in Ids
      /\ c \in Listed(p) /\ containers[c].state # "created" /\ c <= created
  BY PassFacts DEF LInv, Familiar, Listed, Pass
<1>2. /\ OnlyChanges(c)
      /\ \/ ReplaceUnhealthy(t) /\ c \in p.unhealthy
         \/ RolloutStop(t) /\ c \in p.outdated
         \/ ScaleDown(t) /\ c \in p.available
  BY <1>1, ListedIsStopped
<1>3. RolloutStop(t)
  BY <1>1, <1>2 DEF Sorted
<1>4. /\ p.pc = "act" /\ p.missing <= 0 /\ p.outdated # {} /\ p.missing \in Int
      /\ p.available \in SUBSET Ids /\ SpecOf(p).replicas \in Int
      /\ SpecOf(p).replicas <= Cardinality(p.available) + p.missing
  BY <1>1, <1>3, PassFacts DEF RolloutStop, Sorted, Pass, Working, ValidSpec
<1>5. p.available \subseteq OfRollout(containers', p)
  <2> SUFFICES ASSUME NEW d \in p.available PROVE d \in OfRollout(containers', p)
    OBVIOUS
  <2>1. d \in Ids /\ d # c /\ d \in Listed(p) /\ d \notin p.outdated /\ d \in Current(p)
    BY <1>1, <1>4 DEF Sorted, Listed, Current
  <2>2. containers'[d] = containers[d] /\ containers[d].state # "none"
    BY <1>2, <2>1 DEF OnlyChanges, Keeps
  <2>3. containers[d].state \in {"running", "exited"}
    <3>1. containers[d].state \in {"created", "running", "exited"}
      BY <2>1, <2>2 DEF IInv, TypeOK, Container, NoContainer
    <3> QED
      BY <1>1, <2>1, <3>1 DEF Familiar
  <2> QED
    BY <1>1, <2>1, <2>2, <2>3 DEF Familiar, OfRollout
<1>6. OfRollout(containers', p) \in SUBSET Ids
  BY DEF OfRollout
<1>7. Cardinality(p.available) <= Cardinality(OfRollout(containers', p))
  BY <1>5, <1>6, CountType, FS_Subset
<1>8. Cardinality(p.available) \in Nat /\ Cardinality(OfRollout(containers', p)) \in Nat
  BY <1>4, <1>6, CountType
<1> QED
  BY <1>4, <1>7, <1>8

\* What the invariants of this section are together, for the temporal steps.
RInv == IInv /\ LInv /\ OneThing /\ Alone /\ Keeps

\* They hold at first.
LEMMA RInit == HistoryInit => RInv
<1> SUFFICES ASSUME HistoryInit PROVE RInv
  OBVIOUS
<1>1. IInv /\ LInv
  BY InitOK, LInit DEF HistoryInit
<1>2. \A t \in Callers : pass[t] = IdlePass /\ handler[t] = IdleHandler
  BY DEF HistoryInit, ControlPlaneInit, Init
<1>3. OneThing /\ Alone /\ Keeps
  BY <1>2, DeployerAssumption DEF OneThing, Alone, Keeps, Current, IdlePass, IdleHandler
<1> QED
  BY <1>1, <1>3 DEF RInv

\* And every step preserves them.
LEMMA RNext == RInv /\ [HistoryNext]_historyVars => RInv'
  BY HistoryOnlyWatches, NextOK, LNext, OneThingNext, AloneNext, KeepsNext DEF RInv

\* A pass that overlaps with no other and with no delete removes an outdated
\* replica only while it has as many of the new generation as its copy of the
\* spec wants, whatever is requested, fails or exits meanwhile, and wherever the
\* process crashes.
THEOREM LonePassesKeepCapacity == HistorySpec => RolloutKeepsCapacity
<1>1. RInv /\ [HistoryNext]_historyVars
        => [\A t \in Callers \ overlapped :
              (pass'[t] # pass[t] /\ \E c \in pass[t].outdated : containers'[c] # containers[c])
                => Cardinality(OfRollout(containers', pass[t]))
                     >= SpecOf(pass[t]).replicas]_historyVars
  BY HistoryOnlyWatches, CapacityStep DEF RInv
<1> QED
  BY <1>1, RInit, RNext, PTL DEF HistorySpec, RolloutKeepsCapacity

\* Without faults no container is reported unhealthy or exits.
Faultless ==
  faults = 0 =>
    /\ \A c \in Ids : tracker[c] # "unhealthy" /\ containers[c].state # "exited"
    /\ \A t \in Callers : pass[t].unhealthy = {}

\* A step without a fault makes nothing unhealthy and ends nothing.
LEMMA FaultlessNext ==
  ASSUME IInv, LInv, Faultless, [ControlPlaneNext]_allVars
  PROVE  Faultless'
<1> SUFFICES ASSUME faults' = 0
             PROVE  /\ \A c \in Ids : tracker'[c] # "unhealthy" /\ containers'[c].state # "exited"
                    /\ \A t \in Callers : pass'[t].unhealthy = {}
  BY DEF Faultless
<1>0. /\ faults = 0 /\ ~Fault /\ DockerOK
      /\ \A c \in Ids : tracker[c] # "unhealthy" /\ containers[c].state # "exited"
      /\ \A t \in Callers : pass[t].unhealthy = {}
  BY FaultsGrow, DockerFacts DEF Fault, Faultless
<1>1. ASSUME NEW t \in Callers PROVE pass'[t].unhealthy = {}
  <2>1. CASE ListRunningContainers(t)
    BY <2>1, FreshList
  <2>2. CASE Shrinks(t)
    BY <1>0, <2>2 DEF Shrinks
  <2>3. CASE Listed(pass'[t]) = {}
    BY <2>3 DEF Listed
  <2> QED
    BY <2>1, <2>2, <2>3, PassEvolves
<1>2. ASSUME NEW c \in Ids PROVE containers'[c].state # "exited"
  <2>1. ASSUME NEW u \in Callers, Creates(u) PROVE containers'[c].state # "exited"
    <3>1. OnlyChanges(created + 1) /\ containers'[created + 1].state = "created"
      BY <2>1, CreatedState
    <3> QED
      BY <1>0, <3>1 DEF OnlyChanges
  <2>2. ASSUME NEW u \in Callers, Starts(u) PROVE containers'[c].state # "exited"
    <3>1. pass[u].starting \in Ids
      BY <2>2, PassFacts DEF Starts, StartReplica
    <3>2. OnlyChanges(pass[u].starting) /\ containers'[pass[u].starting].state = "running"
      BY <1>0, <2>2, <3>1, StateChange DEF Starts, StartContainer
    <3> QED
      BY <1>0, <3>2 DEF OnlyChanges
  <2>3. ASSUME NEW d \in Ids, StopContainer(d) \/ StopFails(d) PROVE containers'[c].state # "exited"
    BY <1>0, <2>3 DEF StopContainer, StopFails, DockerOK, NoContainer
  <2> QED
    BY <1>0, <2>1, <2>2, <2>3, DockerSteps DEF Stops, StartsLate, ContainerExits
<1>3. ASSUME NEW c \in Ids PROVE tracker'[c] # "unhealthy"
  <2>1. ASSUME NEW d \in Ids, \/ StopContainer(d) \/ StopFails(d)
                              \/ TrackContainer(d) \/ PortNotFound(d)
        PROVE  tracker'[c] # "unhealthy"
    BY <1>0, <2>1 DEF StopContainer, StopFails, TrackContainer, PortNotFound, DockerOK
  <2>2. ASSUME NEW u \in Callers, Reconcile(u) PROVE tracker'[c] # "unhealthy"
    <3>1. pass[u].unhealthy \subseteq Ids /\ pass[u].outdated \subseteq Ids
          /\ pass[u].available \subseteq Ids
      BY PassFacts DEF Pass
    <3>2. CASE TrackReplica(u)
      <4>1. pass[u].starting \in Ids
        BY <3>2, PassFacts DEF TrackReplica
      <4> QED
        BY <2>1, <3>2, <4>1 DEF TrackReplica
    <3>3. CASE ReplaceUnhealthy(u) \/ RolloutStop(u) \/ ScaleDown(u)
      BY <2>1, <3>1, <3>3 DEF ReplaceUnhealthy, RolloutStop, ScaleDown
    <3> QED
      BY <1>0, <2>2, <3>2, <3>3
      DEF Reconcile, PassStep, ListRunningContainers, ListFails, ReadHealth, CreateReplica,
          CreateContainer, CreateFails, StartReplica, StartContainer, StartFails, TrackPanics,
          EndService
  <2>3. ASSUME NEW u \in Handlers, Serve(u) PROVE tracker'[c] # "unhealthy"
    <3>1. handler[u].victims \subseteq Ids
      BY DEF Handlers, IInv, ProcessOK, HandlerState
    <3> QED
      BY <1>0, <2>1, <2>3, <3>1
      DEF Serve, Save, SaveFails, ListVictims, ListVictimsFails, StopVictim, ReconcileNow,
          BeginPass, vars
  <2>4. ASSUME NEW u \in Handlers,
               UpsertService(u) \/ ScaleService(u) \/ RestartService(u) \/ DeleteService(u)
        PROVE  tracker'[c] # "unhealthy"
    BY <1>0, <2>4, RequestStep, AskedType DEF IInv, TypeOK
  <2>5. CASE Restart \/ BootFails
    BY <2>5 DEF Restart, BootFails, Crash
  <2>6. ASSUME NEW d \in Ids, Observed(d) \/ Breaks(d) PROVE tracker'[c] # "unhealthy"
    BY <1>0, <2>6 DEF Observed, Breaks, ReportHealthy, ReportUnhealthy, MonitorEnds, StartsLate,
       ContainerExits, DockerOK
  <2> QED
    BY <1>0, <2>2, <2>3, <2>4, <2>5, <2>6, LoopTurnType DEF ControlPlaneNext, allVars, vars
<1> QED
  BY <1>1, <1>2, <1>3

\* At first there is nothing at all.
LEMMA FaultlessInit == HistoryInit => Faultless
  BY DEF HistoryInit, ControlPlaneInit, Init, Faultless, IdlePass, NoContainer

\* Without faults, what is on the lists of a pass that is alone runs.
LEMMA StillRuns ==
  ASSUME IInv, LInv, Faultless, faults = 0, NEW t \in Callers, NEW d \in Listed(pass[t]),
         containers[d].state # "none"
  PROVE  d \in Matching(pass[t].service)
<1>1. d \in Ids /\ Familiar(pass[t], containers, created)
  BY PassFacts DEF Listed, Pass, LInv
<1>2. containers[d].state \in {"created", "running", "exited"}
  BY <1>1 DEF IInv, TypeOK, Container, NoContainer
<1> QED
  BY <1>1, <1>2 DEF Familiar, Faultless, Matching, Running

\* A pass that is alone stops no last replica.
LEMMA LoneStep ==
  ASSUME OwnNames, RInv, Faultless, [ControlPlaneNext]_allVars, faults' = 0,
         NEW t \in Callers \ overlapped, pass'[t] # pass[t], NEW s \in Services, Matching(s) # {}
  PROVE  Matching(s)' # {}
<1> DEFINE p == pass[t]
<1>0. faults = 0 /\ IInv /\ LInv /\ Keeps
  BY FaultsGrow DEF RInv
<1>1. PICK c \in Ids : containers[c].state = "running" /\ containers[c].service \in Claims[s]
  BY DEF Matching, Running
<1>2. c <= created
  BY <1>0, <1>1 DEF IInv, FreshIds
<1>3. CASE containers'[c] = containers[c]
  BY <1>1, <1>3 DEF Matching, Running
<1>4. CASE containers'[c] # containers[c]
  <2>1. /\ OnlyChanges(c)
        /\ \/ ReplaceUnhealthy(t) /\ c \in p.unhealthy
           \/ RolloutStop(t) /\ c \in p.outdated
           \/ ScaleDown(t) /\ c \in p.available
    BY <1>1, <1>2, <1>4, ListedIsStopped DEF RInv
  <2>2. p.unhealthy = {}
    BY <1>0 DEF Faultless
  <2>3. /\ p \in Pass /\ Sorted(p) /\ Familiar(p, containers, created) /\ p.pc = "act"
        /\ p.service \in Services /\ SpecOf(p) \in ValidSpec
    BY <1>0, <2>1, <2>2, PassFacts DEF LInv, RolloutStop, ScaleDown, Working
  <2>4. c \in Listed(p) /\ p.service = s
    <3>1. c \in Listed(p)
      BY <2>1 DEF Listed
    <3> QED
      BY <1>1, <2>3, <3>1 DEF Familiar, OwnNames
  <2>5. /\ p.available \in SUBSET Ids /\ p.missing \in Int /\ SpecOf(p).replicas >= 1
        /\ SpecOf(p).replicas \in Int /\ Cardinality(p.available) \in Nat
    BY <2>3, CountType DEF Pass, ValidSpec
  <2>6. \E d \in p.available : d # c
    <3>1. CASE RolloutStop(t) /\ c \in p.outdated
      <4>1. SpecOf(p).replicas <= Cardinality(p.available) + p.missing /\ p.missing <= 0
        BY <2>3, <3>1 DEF RolloutStop, Sorted
      <4>2. p.available # {}
        <5>1. Cardinality(p.available) # 0
          BY <2>5, <4>1
        <5> QED
          BY <5>1, FS_EmptySet
      <4> QED
        BY <2>3, <3>1, <4>2 DEF Sorted
    <3>2. CASE ScaleDown(t) /\ c \in p.available
      <4>1. SpecOf(p).replicas <= Cardinality(p.available) + p.missing /\ p.missing < 0
        BY <2>3, <3>2 DEF ScaleDown, Sorted
      <4>2. Cardinality(p.available \ {c}) = Cardinality(p.available) - 1
        BY <2>5, <3>2, CountType, FS_RemoveElement
      <4>3. Cardinality(p.available \ {c}) # 0
        BY <2>5, <4>1, <4>2
      <4>4. p.available \ {c} # {}
        BY <4>3, FS_EmptySet
      <4> QED
        BY <4>4
    <3> QED
      BY <2>1, <2>2, <3>1, <3>2
  <2>7. PICK d \in p.available : d # c
    BY <2>6
  <2>8. d \in Ids /\ containers[d].state # "none" /\ d \in Listed(p)
    BY <1>0, <2>5, <2>7 DEF Keeps, Current, Listed
  <2>9. d \in Matching(s)
    BY <1>0, <2>4, <2>8, StillRuns
  <2>10. containers'[d] = containers[d]
    BY <2>1, <2>7, <2>8 DEF OnlyChanges
  <2> QED
    BY <2>8, <2>9, <2>10 DEF Matching, Running
<1> QED
  BY <1>3, <1>4

\* As long as nothing fails, a pass that overlaps with no other and with no delete
\* leaves a service up, provided that no name is taken for the prefix of another.
THEOREM LonePassesKeepServicesUp ==
  ASSUME OwnNames
  PROVE  HistorySpec => LonePassKeepsServiceUp
<1>1. RInv /\ Faultless /\ [HistoryNext]_historyVars
        => [faults' = 0 =>
              \A t \in Callers \ overlapped :
                pass'[t] # pass[t] =>
                  \A s \in Services : Matching(s) # {} => Matching(s)' # {}]_historyVars
  BY HistoryOnlyWatches, LoneStep
<1>2. RInv /\ Faultless /\ [HistoryNext]_historyVars => Faultless'
  BY HistoryOnlyWatches, FaultlessNext DEF RInv
<1> QED
  BY <1>1, <1>2, RInit, RNext, FaultlessInit, PTL DEF HistorySpec, LonePassKeepsServiceUp

-----------------------------------------------------------------------------
(***************************************************************************)
(* Scaling down.                                                           *)
(***************************************************************************)
\* Nothing failed, and service s is as ScaleDownKeepsReplicas asks.
Calm(s) ==
  /\ s \notin rewound /\ s \notin disordered
  /\ services[s].generation <= 1 /\ faults = 0

\* A pass of a calm service has nothing to roll out; when it has listed a replica
\* that still runs, it has listed all the older ones that run; and of what it has
\* listed, the oldest ones were stopped.
OldestFirst ==
  \A t \in Callers, s \in Services : (pass[t].service = s /\ Calm(s)) =>
    /\ pass[t].outdated = {}
    /\ \A d \in Current(pass[t]), c \in Ids :
         (/\ c < d /\ containers[c].state = "running" /\ containers[d].state = "running"
          /\ containers[c].service = s)
           => c \in Current(pass[t])
    /\ \A c, d \in Current(pass[t]) :
         (c < d /\ containers[c].state = "running") => containers[d].state = "running"

\* A delete takes the generation of its service back before it stops containers
\* of that service.
Deleting ==
  \A t \in Callers :
    /\ handler[t].delete \/ handler[t].pc \in {"list", "stop"} => handler[t].service \in rewound
    /\ \A c \in handler[t].victims :
         /\ handler[t].pc = "stop" /\ c <= created
         /\ containers[c].state # "none" => containers[c].service \in Claims[handler[t].service]

\* A request that is a delete deletes a service there is.
LEMMA DeleteIsRequested ==
  ASSUME NEW t \in Handlers,
         UpsertService(t) \/ ScaleService(t) \/ RestartService(t) \/ DeleteService(t)
  PROVE  \E s \in Services, delete \in BOOLEAN :
           /\ Accept(t, s, services', delete)
           /\ delete => Found(services, s) /\ services' = Delete(services, s)
  BY DEF UpsertService, ScaleService, RestartService, DeleteService, Accept

\* What is remembered of a service is not forgotten.
LEMMA NotForgotten ==
  ASSUME [HistoryNext]_historyVars
  PROVE  rewound \subseteq rewound' /\ disordered \subseteq disordered'
  BY DEF HistoryNext, Remember, historyVars, history

\* Every step keeps what deletes promise.
LEMMA DeletingNext ==
  ASSUME IInv, Deleting, [HistoryNext]_historyVars
  PROVE  Deleting'
<1>0. /\ handler \in [Callers -> HandlerState] /\ rewound \subseteq rewound'
      /\ [ControlPlaneNext]_allVars /\ IInv'
      /\ created \in Int /\ created' \in Int /\ created <= created'
      /\ \A c \in Ids : c <= created => Ages(c)
  BY HistoryOnlyWatches, NextOK, ContainersAge, NotForgotten DEF IInv, ProcessOK, TypeOK
<1> SUFFICES ASSUME NEW t \in Callers
    PROVE  /\ handler'[t].delete \/ handler'[t].pc \in {"list", "stop"}
                => handler'[t].service \in rewound'
           /\ \A c \in handler'[t].victims :
                /\ handler'[t].pc = "stop" /\ c <= created'
                /\ containers'[c].state # "none"
                     => containers'[c].service \in Claims[handler'[t].service]
  BY DEF Deleting
<1> DEFINE Goal == /\ handler'[t].delete \/ handler'[t].pc \in {"list", "stop"}
                        => handler'[t].service \in rewound'
                   /\ \A c \in handler'[t].victims :
                        /\ handler'[t].pc = "stop" /\ c <= created'
                        /\ containers'[c].state # "none"
                             => containers'[c].service \in Claims[handler'[t].service]
<1>1. ASSUME handler'[t].service = handler[t].service,
             handler'[t].victims \subseteq handler[t].victims,
             handler'[t].delete = handler[t].delete,
             \/ handler'[t].pc = handler[t].pc
             \/ handler[t].victims = {} /\ (handler'[t].pc = "list" => handler[t].delete)
                /\ handler'[t].pc # "stop"
      PROVE  Goal
  <2>1. handler[t].victims \subseteq Ids
    BY <1>0 DEF HandlerState
  <2>2. \A c \in Ids : c \in Int
    BY DEF Ids
  <2>3. \A c \in handler'[t].victims :
          /\ c \in Int /\ c <= created' /\ handler'[t].pc = "stop"
          /\ containers'[c].state # "none" =>
               containers'[c].service \in Claims[handler'[t].service]
    BY <1>0, <1>1, <2>1, <2>2 DEF Deleting, Ages
  <2> QED
    BY <1>0, <1>1, <2>3 DEF Deleting
<1>2. ASSUME handler'[t].victims = {}, ~handler'[t].delete, handler'[t].pc = "idle"
      PROVE  Goal
  BY <1>2
<1>3. CASE UNCHANGED handler
  BY <1>1, <1>3
<1>4. ASSUME NEW u \in Handlers,
             UpsertService(u) \/ ScaleService(u) \/ RestartService(u) \/ DeleteService(u),
             HistoryNext
      PROVE  Goal
  <2>1. PICK s \in Services, delete \in BOOLEAN :
          /\ Accept(u, s, services', delete)
          /\ delete => Found(services, s) /\ services' = Delete(services, s)
    BY <1>4, DeleteIsRequested
  <2>2. CASE u # t
    BY <1>0, <1>1, <2>1, <2>2 DEF Accept
  <2>3. CASE u = t
    <3>1. /\ handler'[t].pc = "save" /\ handler'[t].service = s /\ handler'[t].delete = delete
          /\ handler'[t].victims = {}
      BY <1>0, <2>1, <2>3 DEF Accept, IdleHandler
    <3>2. delete => s \in rewound'
      <4> SUFFICES ASSUME delete PROVE s \in rewound'
        OBVIOUS
      <4>1. services \in Store /\ services' = Delete(services, s) /\ Found(services, s)
        BY <2>1 DEF IInv, TypeOK
      <4>2. services'[s] = NoSpec
        BY <4>1 DEF Delete, Store
      <4>3. services[s].generation \in Nat /\ services[s].generation >= 1
        BY <4>1, FoundGeneration DEF ValidSpec
      <4>4. TakesBack(s)
        BY <4>2, <4>3 DEF TakesBack, Found, NoSpec
      <4> QED
        BY <1>4, <4>4 DEF HistoryNext, Remember
    <3> QED
      BY <3>1, <3>2
  <2> QED
    BY <2>2, <2>3
<1>5. ASSUME NEW u \in Handlers, Serve(u) PROVE Goal
  <2>1. CASE Save(u) /\ u = t
    <3>1. handler[t].victims = {}
      BY <2>1 DEF Save, Deleting
    <3>2. /\ handler'[t].service = handler[t].service /\ handler'[t].victims = handler[t].victims
          /\ handler'[t].delete = handler[t].delete
          /\ handler'[t].pc = IF handler[t].delete THEN "list" ELSE "reconcile"
      BY <1>0, <2>1 DEF Save, HandlerState
    <3> QED
      BY <1>1, <3>1, <3>2
  <2>2. CASE (SaveFails(u) \/ ListVictimsFails(u) \/ ReconcileNow(u)) /\ u = t
    <3>1. handler'[t] = IdleHandler
      BY <1>0, <2>2 DEF SaveFails, ListVictimsFails, ReconcileNow
    <3> QED
      BY <1>2, <3>1 DEF IdleHandler
  <2>3. CASE ListVictims(u) /\ u = t
    <3>1. /\ handler'[t].pc = "stop" /\ handler'[t].service = handler[t].service
          /\ handler'[t].victims = Matching(handler[t].service)
          /\ handler[t].pc = "list"
      BY <1>0, <2>3 DEF ListVictims, HandlerState
    <3>2. UNCHANGED <<containers, created>>
      BY <2>3 DEF ListVictims, vars
    <3>3. handler'[t].service \in rewound'
      BY <1>0, <3>1 DEF Deleting
    <3>4. \A c \in Matching(handler[t].service) :
            c <= created /\ containers[c].service \in Claims[handler[t].service]
      BY DEF Matching, Running, IInv, FreshIds
    <3> QED
      BY <3>1, <3>2, <3>3, <3>4
  <2>4. CASE StopVictim(u) /\ u = t
    <3>1. \E c : handler' = [handler EXCEPT ![t].victims = handler[t].victims \ {c}]
      BY <2>4 DEF StopVictim
    <3>2. /\ handler'[t].service = handler[t].service /\ handler'[t].pc = handler[t].pc
          /\ handler'[t].delete = handler[t].delete
          /\ handler'[t].victims \subseteq handler[t].victims
      BY <1>0, <3>1 DEF HandlerState
    <3> QED
      BY <1>1, <3>2
  <2>5. CASE u # t
    <3>1. handler'[t] = handler[t]
      BY <1>0, <1>5, <2>5 DEF Serve, Save, SaveFails, ListVictims, ListVictimsFails, StopVictim,
         ReconcileNow
    <3> QED
      BY <1>1, <3>1
  <2> QED
    BY <1>5, <2>1, <2>2, <2>3, <2>4, <2>5 DEF Serve
<1>6. CASE Restart \/ BootFails
  BY <1>2, <1>6, CrashType DEF IdleHandler
<1>7. CASE UNCHANGED historyVars
  BY <1>3, <1>7 DEF historyVars, allVars, process
<1>8. CASE HistoryNext
  <2>1. ControlPlaneNext
    BY <1>8 DEF HistoryNext
  <2>2. ASSUME NEW u \in Callers, Reconcile(u) PROVE Goal
    BY <1>3, <2>2 DEF Reconcile, process
  <2>3. ASSUME NEW c \in Ids, Observed(c) \/ Breaks(c) PROVE Goal
    BY <1>3, <2>3 DEF Observed, Breaks, process
  <2>4. CASE LoopTurn
    BY <1>3, <2>4 DEF LoopTurn, process
  <2> QED
    BY <1>4, <1>5, <1>6, <1>8, <2>1, <2>2, <2>3, <2>4 DEF ControlPlaneNext
<1> QED
  BY <1>7, <1>8

\* A service that is calm was calm before.
LEMMA CalmBefore ==
  ASSUME IInv, Faultless, [HistoryNext]_historyVars, NEW s \in Services, Calm(s)'
  PROVE  Calm(s)
<1>1. [ControlPlaneNext]_allVars /\ s \notin disordered
  BY HistoryOnlyWatches, NotForgotten DEF Calm
<1>2. s \notin rewound /\ services[s].generation <= services'[s].generation
  BY Rises DEF Calm
<1>3. faults = 0
  BY <1>1, FaultsGrow DEF Calm
<1>4. services[s].generation \in Nat /\ services'[s].generation \in Nat
  BY <1>1, NextOK, FoundGeneration DEF IInv, TypeOK
<1> QED
  BY <1>1, <1>2, <1>3, <1>4 DEF Calm

\* Whose container is on the lists of a pass.
LEMMA ListedOf ==
  ASSUME OwnNames, IInv, LInv, NEW t \in Callers, NEW c \in Listed(pass[t]),
         containers[c].state # "none"
  PROVE  /\ c \in Ids /\ c <= created /\ containers[c].state # "created"
         /\ containers[c].service = pass[t].service /\ pass[t].service \in Services
<1>1. pass[t] \in Pass /\ Sorted(pass[t]) /\ Familiar(pass[t], containers, created)
  BY PassFacts DEF LInv
<1>2. pass[t].pc \in Working
  BY <1>1 DEF Sorted, Pass, Working
<1>3. pass[t].service \in Services
  BY <1>2, PassFacts
<1>4. c \in Ids
  BY <1>1 DEF Listed, Pass
<1> QED
  BY <1>1, <1>3, <1>4 DEF Familiar, OwnNames

\* A running replica of a calm service is not removed while an older one runs.
LEMMA OldestIsStopped ==
  ASSUME OwnNames, RInv, Faultless, Deleting, OldestFirst, [ControlPlaneNext]_allVars,
         NEW s \in Services, Calm(s), NEW d \in Ids, NEW c \in Ids, c < d,
         containers[c].state = "running" /\ containers[c].service = s,
         containers[d].state = "running" /\ containers[d].service = s
  PROVE  containers'[d].state # "none"
<1> SUFFICES ASSUME containers'[d].state = "none" PROVE FALSE
  OBVIOUS
<1>0. IInv /\ LInv /\ d <= created /\ c \in Int /\ d \in Int
  BY DEF RInv, IInv, FreshIds, Ids
<1>1. PICK u \in Callers : Stops(u, d)
  BY <1>0, RemovedByStop
<1>2. CASE StopVictim(u) /\ d \in handler[u].victims
  <2>1. handler[u].service \in rewound /\ s \in Claims[handler[u].service]
    BY <1>2 DEF Deleting
  <2>2. handler[u].service \in Services
    BY <1>0, <1>2 DEF StopVictim, IInv, ProcessOK
  <2> QED
    BY <2>1, <2>2 DEF OwnNames, Calm
<1>3. CASE ReplaceUnhealthy(u) /\ d \in pass[u].unhealthy
  BY <1>3 DEF Faultless, Calm
<1>4. CASE RolloutStop(u) /\ d \in pass[u].outdated
  <2>1. pass[u].service = s
    BY <1>0, <1>4, ListedOf DEF Listed
  <2> QED
    BY <1>4, <2>1 DEF OldestFirst
<1>5. CASE ScaleDown(u) /\ d \in pass[u].available /\ \A e \in pass[u].available : d <= e
  <2>1. pass[u].service = s /\ pass[u].seen = {}
    BY <1>0, <1>5, ListedOf DEF Listed, LInv, Sorted, ScaleDown
  <2>2. c \in pass[u].available
    BY <1>5, <2>1 DEF OldestFirst, Current
  <2> QED
    BY <1>0, <1>5, <2>2
<1> QED
  BY <1>1, <1>2, <1>3, <1>4, <1>5 DEF Stops

\* A fresh list of a calm service is all that runs, and nothing of it is outdated.
LEMMA FreshListIsCalm ==
  ASSUME OwnNames, IInv, LInv, GInv, NEW t \in Callers, ListRunningContainers(t),
         NEW s \in Services, pass'[t].service = s, Calm(s)
  PROVE  /\ pass'[t].outdated = {} /\ Current(pass'[t]) = Matching(s)
         /\ UNCHANGED containers
<1>1. LET old(r) == {c \in Matching(r) : containers[c].generation # pass[t].specs[r].generation}
      IN  /\ Found(pass[t].specs, s) /\ pass'[t].outdated = old(s)
          /\ Current(pass'[t]) = Matching(s) \ old(s) /\ UNCHANGED containers
  BY FreshList
<1>2. pass[t].specs[s].generation = 1
  <2>1. /\ pass[t].specs[s].generation \in Nat /\ pass[t].specs[s].generation >= 1
        /\ services[s].generation \in Nat
    BY <1>1, PassFacts, FoundGeneration DEF Pass, ValidSpec, IInv, TypeOK
  <2>2. pass[t].specs[s].generation <= services[s].generation /\ services[s].generation <= 1
    BY DEF GInv, Calm
  <2> QED
    BY <2>1, <2>2
<1>3. ASSUME NEW c \in Matching(s) PROVE containers[c].generation = 1
  <2>1. /\ c \in Ids /\ containers[c].service = s /\ containers[c].state = "running"
        /\ services[s].generation \in Nat
    BY FoundGeneration DEF Matching, Running, OwnNames, IInv, TypeOK
  <2>2. containers[c].generation \in Nat /\ containers[c].generation >= 1
    BY <2>1 DEF IInv, TypeOK, Container, NoContainer
  <2>3. containers[c].generation <= services[s].generation /\ services[s].generation <= 1
    BY <2>1 DEF GInv, Calm, Existing
  <2> QED
    BY <2>1, <2>2, <2>3
<1> QED
  BY <1>1, <1>2, <1>3

\* Every step stops the oldest first.
LEMMA OldestFirstNext ==
  ASSUME OwnNames, RInv, Faultless, GInv, Deleting, OldestFirst, [HistoryNext]_historyVars
  PROVE  OldestFirst'
<1> SUFFICES
      ASSUME NEW t \in Callers, NEW s \in Services, pass'[t].service = s, Calm(s)'
      PROVE  /\ pass'[t].outdated = {}
             /\ \A d \in Current(pass'[t]), c \in Ids :
                  (/\ c < d /\ containers'[c].state = "running" /\ containers'[d].state = "running"
                   /\ containers'[c].service = s)
                    => c \in Current(pass'[t])
             /\ \A c, d \in Current(pass'[t]) :
                  (c < d /\ containers'[c].state = "running") => containers'[d].state = "running"
  BY DEF OldestFirst
<1>0. /\ IInv /\ LInv /\ [ControlPlaneNext]_allVars /\ Calm(s) /\ IInv'
      /\ faults = 0 /\ faults' = 0 /\ Faultless'
      /\ \A c \in Ids : c <= created => Ages(c)
  <2>1. IInv /\ LInv /\ [ControlPlaneNext]_allVars /\ Calm(s)
    BY CalmBefore, HistoryOnlyWatches DEF RInv
  <2> QED
    BY <2>1, NextOK, ContainersAge, FaultlessNext DEF Calm
<1>1. CASE Listed(pass'[t]) = {}
  BY <1>1 DEF Listed, Current
<1>2. CASE ListRunningContainers(t)
  <2>1. /\ pass'[t].outdated = {} /\ Current(pass'[t]) = Matching(s)
        /\ UNCHANGED containers
    BY <1>0, <1>2, FreshListIsCalm
  <2> QED
    BY <2>1 DEF Matching, Running, OwnNames
<1>3. CASE Shrinks(t)
  <2>1. /\ pass[t].service = s /\ pass[t].outdated = {} /\ pass'[t].outdated = {}
        /\ Current(pass'[t]) \subseteq Current(pass[t])
    BY <1>0, <1>3 DEF Shrinks, OldestFirst
  <2>2. ASSUME NEW d \in Current(pass[t]), containers[d].state # "none"
        PROVE  /\ d \in Ids /\ d <= created /\ containers[d].state # "created"
               /\ containers[d].service = s
    BY <1>0, <2>1, <2>2, ListedOf DEF Listed, Current
  <2>3. ASSUME NEW d \in Current(pass[t]), containers'[d].state = "running"
        PROVE  d \in Ids /\ containers[d].state = "running" /\ containers[d].service = s
    <3>1. d \in Listed(pass[t]) /\ d \in Ids /\ d <= created /\ containers[d].state # "created"
      BY <1>0, PassFacts DEF Listed, Current, Pass, LInv, Familiar
    <3>2. containers[d].state = "running"
      BY <1>0, <2>3, <3>1 DEF Ages
    <3> QED
      BY <2>2, <3>2
  <2>4. ASSUME NEW d \in Current(pass'[t]), NEW c \in Ids, c < d,
               containers'[c].state = "running", containers'[d].state = "running",
               containers'[c].service = s
        PROVE  c \in Current(pass'[t])
    <3>1. /\ d \in Current(pass[t]) /\ d \in Ids /\ containers[d].state = "running"
          /\ containers[d].service = s
      BY <2>1, <2>3, <2>4
    <3>2. c <= created
      BY <1>0, <2>4, <3>1 DEF IInv, FreshIds, TypeOK, Ids
    <3>3. containers[c].service = s /\ containers[c].state \in {"running", "created"}
      BY <1>0, <2>4, <3>2 DEF Ages
    <3>4. containers[c].state = "running"
      <4>1. SUFFICES ASSUME containers[c].state # "running" PROVE FALSE
        OBVIOUS
      <4>2. StartsOutOfOrder(s)
        BY <2>4, <3>1, <3>3, <4>1 DEF StartsOutOfOrder
      <4>3. HistoryNext
        BY <2>4, <4>1 DEF historyVars, allVars, vars
      <4> QED
        BY <4>2, <4>3 DEF HistoryNext, Remember, Calm
    <3>5. c \in Current(pass[t])
      BY <1>0, <2>1, <2>4, <3>1, <3>3, <3>4 DEF OldestFirst
    <3> QED
      BY <1>0, <1>3, <2>4, <3>5 DEF Shrinks, Faultless
  <2>5. ASSUME NEW c \in Current(pass'[t]), NEW d \in Current(pass'[t]), c < d,
               containers'[c].state = "running"
        PROVE  containers'[d].state = "running"
    <3>1. c \in Ids /\ containers[c].state = "running" /\ containers[c].service = s
      BY <2>1, <2>3, <2>5
    <3>2. containers[d].state = "running"
      BY <1>0, <2>1, <2>5, <3>1 DEF OldestFirst
    <3>3. d \in Ids /\ d <= created /\ containers[d].service = s
      BY <2>1, <2>2, <3>2
    <3>4. containers'[d].state # "none"
      BY <1>0, <2>5, <3>1, <3>2, <3>3, OldestIsStopped
    <3> QED
      BY <1>0, <3>2, <3>3, <3>4 DEF Ages, Faultless
  <2> QED
    BY <2>1, <2>4, <2>5
<1> QED
  BY <1>0, <1>1, <1>2, <1>3, PassEvolves

\* A pass that scales down leaves what its copy of the spec wants.
LEMMA ScaleDownStepKeeps ==
  ASSUME OwnNames, RInv, Faultless, OldestFirst, [ControlPlaneNext]_allVars,
         NEW t \in Callers, NEW s \in Services \ (rewound \cup disordered),
         pass[t].service = s, services[s].generation = 1, faults' = 0, pass'[t] # pass[t],
         NEW c \in pass[t].available, containers'[c] # containers[c]
  PROVE  Cardinality(Matching(s)') >= SpecOf(pass[t]).replicas
<1> DEFINE p == pass[t]
<1>0. IInv /\ LInv /\ OneThing /\ Calm(s) /\ faults = 0
  BY FaultsGrow DEF RInv, Calm
<1>1. /\ p \in Pass /\ Sorted(p) /\ Familiar(p, containers, created) /\ c \in Ids
      /\ c \in Listed(p) /\ containers[c].state # "created" /\ c <= created
      /\ c \in Current(p)
  BY <1>0, PassFacts DEF LInv, Familiar, Listed, Pass, Current
<1>2. /\ OnlyChanges(c) /\ Stops(t, c)
      /\ \/ ReplaceUnhealthy(t) /\ c \in p.unhealthy
         \/ RolloutStop(t) /\ c \in p.outdated
         \/ ScaleDown(t) /\ \A d \in p.available : c <= d
  BY <1>0, <1>1, ListedIsStopped
<1>3. ScaleDown(t) /\ \A d \in p.available : c <= d
  BY <1>1, <1>2 DEF Sorted
<1>4. containers[c].state = "running"
  <2>1. containers[c].state # "none"
    BY <1>0, <1>2, DockerFacts DEF Stops, StopContainer, StopFails
  <2> QED
    BY <1>0, <1>1, <2>1 DEF Faultless, IInv, TypeOK, Container, NoContainer
<1>5. p.available \ {c} \subseteq Matching(s)'
  <2> SUFFICES ASSUME NEW d \in p.available, d # c PROVE d \in Matching(s)'
    OBVIOUS
  <2>1. d \in Ids /\ c \in Int /\ d \in Int /\ c < d /\ d \in Current(p) /\ d \in Listed(p)
    BY <1>1, <1>3 DEF Pass, Ids, Current, Listed
  <2>2. containers[d].state = "running"
    BY <1>0, <1>1, <1>4, <2>1 DEF OldestFirst
  <2>3. containers[d].service = s /\ containers'[d] = containers[d]
    BY <1>0, <1>2, <2>1, <2>2, ListedOf DEF OnlyChanges
  <2> QED
    BY <2>1, <2>2, <2>3, DeployerAssumption DEF Matching, Running
<1>6. /\ p.missing < 0 /\ p.missing \in Int /\ p.available \in SUBSET Ids
      /\ SpecOf(p).replicas \in Int
      /\ SpecOf(p).replicas <= Cardinality(p.available) + p.missing
  BY <1>0, <1>1, <1>3, PassFacts DEF ScaleDown, Sorted, Pass, Working, ValidSpec
<1>7. Cardinality(p.available \ {c}) = Cardinality(p.available) - 1
  BY <1>6, CountType, FS_RemoveElement
<1>8. Matching(s)' \in SUBSET Ids
  BY DEF Matching, Running
<1>9. Cardinality(p.available \ {c}) <= Cardinality(Matching(s)')
  BY <1>5, <1>8, CountType, FS_Subset
<1>10. Cardinality(p.available) \in Nat /\ Cardinality(Matching(s)') \in Nat
  BY <1>6, <1>8, CountType
<1> QED
  BY <1>6, <1>7, <1>9, <1>10

\* What the invariants of this section are together.
SInv == RInv /\ Faultless /\ GInv /\ Deleting /\ OldestFirst

\* They hold at first.
LEMMA SInit == HistoryInit => SInv
<1> SUFFICES ASSUME HistoryInit PROVE SInv
  OBVIOUS
<1>1. \A t \in Callers : pass[t] = IdlePass /\ handler[t] = IdleHandler
  BY DEF HistoryInit, ControlPlaneInit, Init
<1>2. Deleting
  BY <1>1 DEF Deleting, IdleHandler
<1>3. OldestFirst
  BY <1>1 DEF OldestFirst, Current, IdlePass
<1> QED
  BY <1>2, <1>3, RInit, FaultlessInit, GInit DEF SInv

\* And every step preserves them.
LEMMA SNext == OwnNames /\ SInv /\ [HistoryNext]_historyVars => SInv'
<1> SUFFICES ASSUME OwnNames, SInv, [HistoryNext]_historyVars PROVE SInv'
  OBVIOUS
<1>1. RInv /\ Faultless /\ GInv /\ Deleting /\ OldestFirst /\ IInv /\ LInv
      /\ [ControlPlaneNext]_allVars
  BY HistoryOnlyWatches DEF SInv, RInv
<1> QED
  BY <1>1, RNext, FaultlessNext, GNext, DeletingNext, OldestFirstNext DEF SInv

\* However many passes shrink a service at once, from lists of different moments
\* and to different counts: without faults, rollouts and deletes, and as long as its
\* containers began to run in the order of their creation, each stop leaves as many
\* running replicas as the copy of the pass that makes it wants.
THEOREM ConcurrentScaleDownIsSafe ==
  ASSUME OwnNames
  PROVE  HistorySpec => ScaleDownKeepsReplicas
<1>1. SInv /\ [HistoryNext]_historyVars
        => [\A t \in Callers : \A s \in Services \ (rewound \cup disordered) :
              (/\ pass[t].service = s /\ services[s].generation = 1 /\ faults' = 0
               /\ pass'[t] # pass[t]
               /\ \E c \in pass[t].available : containers'[c] # containers[c])
                => Cardinality(Matching(s)') >= SpecOf(pass[t]).replicas]_historyVars
  BY HistoryOnlyWatches, ScaleDownStepKeeps DEF SInv
<1>2. SInv /\ [HistoryNext]_historyVars => SInv'
  BY SNext
<1> QED
  BY <1>1, <1>2, SInit, PTL DEF HistorySpec, ScaleDownKeepsReplicas

=============================================================================
