--------------------------- MODULE DiscoveryProofs ---------------------------
(***************************************************************************)
(* What holds of the registry and of service discovery for any number of   *)
(* services, instances, callers, handlers, broken connections and          *)
(* restarts.                                                               *)
(***************************************************************************)
EXTENDS Discovery, FiniteSetTheorems, SequenceTheorems, TLAPS

-----------------------------------------------------------------------------
(***************************************************************************)
(* The registry implements the directory.                                  *)
(***************************************************************************)
EntryOf(s, i) == [service |-> s, instance |-> i, port |-> buckets[s][i]]

\* The entries, one by one.
LEMMA EntriesChar ==
  ASSUME NEW e
  PROVE  e \in Entries <=>
           \E s \in DOMAIN buckets : \E i \in DOMAIN buckets[s] : e = EntryOf(s, i)
BY DEF Entries, InstancesOf, HasBucket, EntryOf

\* The same in the next state.
LEMMA EntriesCharNext ==
  ASSUME NEW e
  PROVE  e \in Entries' <=>
           \E s \in DOMAIN buckets' : \E i \in DOMAIN buckets'[s] : e = EntryOf(s, i)'
BY DEF Entries, InstancesOf, HasBucket, EntryOf

\* What the directory knows of a service is its bucket.
LEMMA OfIsBucket ==
  ASSUME NEW s
  PROVE  D!Of(s) = InstancesOf(s)
BY EntriesChar DEF D!Of, InstancesOf, HasBucket, EntryOf

\* An instance is known when it is in the bucket.
LEMMA AtIsKey ==
  ASSUME NEW s, NEW i
  PROVE  D!At(s, i) = IF HasBucket(s) /\ i \in DOMAIN buckets[s] THEN {EntryOf(s, i)} ELSE {}
BY OfIsBucket DEF D!At, InstancesOf, EntryOf

-----------------------------------------------------------------------------
\* A registration replaces the entry of its instance and keeps all others.
LEMMA RegisterStep ==
  ASSUME NEW s \in Services, NEW i \in Instances, NEW p \in Ports, RegisterRequest(s, i, p)
  PROVE  D!Register(s, i, p)
<1>1. CASE p <= 0 /\ reply' = Status(400) /\ UNCHANGED buckets
  BY <1>1 DEF D!Register, D!Status, Status, Entries, InstancesOf, HasBucket
<1>2. CASE p > 0 /\ buckets' = Put(buckets, s, Put(BucketFor(s), i, p)) /\ reply' = Status(200)
  <2> DEFINE new == [service |-> s, instance |-> i, port |-> p]
             bucket == Put(BucketFor(s), i, p)
  <2>1. /\ DOMAIN buckets' = DOMAIN buckets \cup {s}
        /\ buckets'[s] = bucket
        /\ \A r \in DOMAIN buckets : r # s => buckets'[r] = buckets[r]
    BY <1>2 DEF Put
  <2>2. /\ DOMAIN bucket = (IF HasBucket(s) THEN DOMAIN buckets[s] ELSE {}) \cup {i}
        /\ bucket[i] = p
        /\ HasBucket(s) => \A j \in DOMAIN buckets[s] : j # i => bucket[j] = buckets[s][j]
    BY DEF Put, BucketFor, EmptyMap
  <2> HIDE DEF bucket
  <2>3. ASSUME NEW e, e \in Entries'
        PROVE  e \in (Entries \ D!At(s, i)) \cup {new}
    <3>1. PICK r, j : r \in DOMAIN buckets' /\ j \in DOMAIN buckets'[r] /\ e = EntryOf(r, j)'
      BY <2>3, EntriesCharNext
    <3>2. e = [service |-> r, instance |-> j, port |-> buckets'[r][j]]
      BY <3>1 DEF EntryOf
    <3>3. CASE r = s /\ j = i
      BY <2>1, <2>2, <3>2, <3>3
    <3>4. CASE r # s
      <4>1. r \in DOMAIN buckets /\ j \in DOMAIN buckets[r] /\ e = EntryOf(r, j)
        BY <2>1, <3>1, <3>2, <3>4 DEF EntryOf
      <4>2. e \in Entries /\ e.service # s
        BY <3>2, <3>4, <4>1, EntriesChar
      <4> QED
        BY <4>2 DEF D!At, D!Of
    <3>5. CASE r = s /\ j # i
      <4>1. r \in DOMAIN buckets /\ j \in DOMAIN buckets[r] /\ e = EntryOf(r, j)
        BY <2>1, <2>2, <3>1, <3>2, <3>5 DEF EntryOf, HasBucket
      <4>2. e \in Entries /\ e.instance # i
        BY <3>2, <3>5, <4>1, EntriesChar
      <4> QED
        BY <4>2 DEF D!At, D!Of
    <3> QED
      BY <3>3, <3>4, <3>5
  <2>4. ASSUME NEW e, e \in (Entries \ D!At(s, i)) \cup {new}
        PROVE  e \in Entries'
    <3>1. CASE e = new
      <4>1. s \in DOMAIN buckets' /\ i \in DOMAIN buckets'[s] /\ e = EntryOf(s, i)'
        BY <2>1, <2>2, <3>1 DEF EntryOf
      <4> QED
        BY <4>1, EntriesCharNext
    <3>2. CASE e \in Entries /\ e \notin D!At(s, i)
      <4>1. PICK r, j : r \in DOMAIN buckets /\ j \in DOMAIN buckets[r] /\ e = EntryOf(r, j)
        BY <3>2, EntriesChar
      <4>2. r # s \/ j # i
        BY <3>2, <4>1, AtIsKey DEF HasBucket
      <4>3. r \in DOMAIN buckets' /\ j \in DOMAIN buckets'[r] /\ buckets'[r][j] = buckets[r][j]
        BY <2>1, <2>2, <4>1, <4>2 DEF HasBucket
      <4>4. e = EntryOf(r, j)'
        BY <4>1, <4>3 DEF EntryOf
      <4> QED
        BY <4>3, <4>4, EntriesCharNext
    <3> QED
      BY <2>4, <3>1, <3>2
  <2>5. Entries' = (Entries \ D!At(s, i)) \cup {new}
    BY <2>3, <2>4
  <2> QED
    BY <1>2, <2>5 DEF D!Register, D!Status, Status
<1> QED
  BY <1>1, <1>2 DEF RegisterRequest

\* A deregistration removes the entry of its instance, and a bucket that is left
\* empty had no other.
LEMMA DeregisterStep ==
  ASSUME NEW s \in Services, NEW i \in Instances, DeregisterRequest(s, i)
  PROVE  D!Deregister(s, i)
<1>1. CASE UNCHANGED buckets /\ reply' = Status(404) /\ ~(HasBucket(s) /\ i \in DOMAIN buckets[s])
  <2>1. UNCHANGED Entries
    BY <1>1 DEF Entries, InstancesOf, HasBucket
  <2>2. D!At(s, i) = {}
    BY <1>1, AtIsKey
  <2> QED
    BY <1>1, <2>1, <2>2 DEF D!Deregister, D!Status, Status
<1>2. CASE /\ HasBucket(s) /\ i \in DOMAIN buckets[s]
           /\ buckets' = Remove(s, i) /\ reply' = Status(200)
  <2>0. D!At(s, i) = {EntryOf(s, i)}
    BY <1>2, AtIsKey
  <2>1. \A r, j : (r \in DOMAIN buckets' /\ j \in DOMAIN buckets'[r]) <=>
                  (r \in DOMAIN buckets /\ j \in DOMAIN buckets[r] /\ ~(r = s /\ j = i))
    <3>1. CASE DOMAIN buckets[s] = {i}
      BY <1>2, <3>1 DEF Remove, Without, HasBucket
    <3>2. CASE DOMAIN buckets[s] # {i}
      BY <1>2, <3>2 DEF Remove, Without, Put, HasBucket
    <3> QED
      BY <3>1, <3>2
  <2>2. \A r, j : (r \in DOMAIN buckets' /\ j \in DOMAIN buckets'[r]) =>
                  buckets'[r][j] = buckets[r][j]
    <3>1. CASE DOMAIN buckets[s] = {i}
      BY <1>2, <3>1 DEF Remove, Without, HasBucket
    <3>2. CASE DOMAIN buckets[s] # {i}
      BY <1>2, <3>2 DEF Remove, Without, Put, HasBucket
    <3> QED
      BY <3>1, <3>2
  <2>3. ASSUME NEW e, e \in Entries'
        PROVE  e \in Entries \ D!At(s, i)
    <3>1. PICK r, j : r \in DOMAIN buckets' /\ j \in DOMAIN buckets'[r] /\ e = EntryOf(r, j)'
      BY <2>3, EntriesCharNext
    <3>2. e = EntryOf(r, j) /\ r \in DOMAIN buckets /\ j \in DOMAIN buckets[r] /\ ~(r = s /\ j = i)
      BY <2>1, <2>2, <3>1 DEF EntryOf
    <3>3. e \in Entries
      BY <3>2, EntriesChar
    <3>4. e # EntryOf(s, i)
      BY <3>2 DEF EntryOf
    <3> QED
      BY <2>0, <3>3, <3>4
  <2>4. ASSUME NEW e, e \in Entries \ D!At(s, i)
        PROVE  e \in Entries'
    <3>1. PICK r, j : r \in DOMAIN buckets /\ j \in DOMAIN buckets[r] /\ e = EntryOf(r, j)
      BY <2>4, EntriesChar
    <3>2. ~(r = s /\ j = i)
      BY <2>0, <2>4, <3>1
    <3>3. r \in DOMAIN buckets' /\ j \in DOMAIN buckets'[r] /\ e = EntryOf(r, j)'
      BY <2>1, <2>2, <3>1, <3>2 DEF EntryOf
    <3> QED
      BY <3>3, EntriesCharNext
  <2>5. Entries' = Entries \ D!At(s, i)
    BY <2>3, <2>4
  <2> QED
    BY <1>2, <2>0, <2>5 DEF D!Deregister, D!Status, Status
<1> QED
  BY <1>1, <1>2 DEF DeregisterRequest

\* Lookups list the bucket.
LEMMA LookupStep ==
  ASSUME NEW s \in Services, LookupAllRequest(s) \/ LookupRequest(s)
  PROVE  D!LookupAll(s) \/ D!LookupOne(s)
<1>1. UNCHANGED Entries
  BY DEF LookupAllRequest, LookupRequest, Entries, InstancesOf, HasBucket
<1>2. D!Of(s) = InstancesOf(s) /\ D!Listings(InstancesOf(s)) = Iterations(InstancesOf(s))
  BY OfIsBucket DEF D!Listings, Iterations, D!Cardinality, Cardinality
<1>3. CASE LookupAllRequest(s)
  BY <1>1, <1>2, <1>3 DEF LookupAllRequest, D!LookupAll, D!Status, Status
<1>4. CASE LookupRequest(s)
  BY <1>1, <1>2, <1>4 DEF LookupRequest, D!LookupOne, D!Status, Status
<1> QED
  BY <1>3, <1>4

\* A restart forgets every entry.
LEMMA NoBucketsNoEntries == buckets = EmptyMap => Entries = {}
BY DEF EmptyMap, Entries

\* A restart of the registry server drops every entry, as the directory's does.
LEMMA RestartStep == RegistryRestart => D!Restart
BY NoBucketsNoEntries DEF RegistryRestart, D!Restart, EmptyMap, Entries

\* Every step of the server alone is one of the directory, or changes nothing there.
LEMMA RegistryNextStep == [RegistryNext]_registryVars => [D!Next]_(D!vars)
<1> SUFFICES ASSUME [RegistryNext]_registryVars PROVE [D!Next]_(D!vars)
  OBVIOUS
<1>1. ASSUME NEW s \in Services, NEW i \in Instances,
             (\E p \in Ports : RegisterRequest(s, i, p)) \/ DeregisterRequest(s, i)
      PROVE  D!Next
  <2>1. (\E p \in Ports : D!Register(s, i, p)) \/ D!Deregister(s, i)
    BY <1>1, RegisterStep, DeregisterStep
  <2> QED
    BY <2>1 DEF D!Next
<1>2. ASSUME NEW s \in Services, LookupAllRequest(s) \/ LookupRequest(s)
      PROVE  D!Next
  BY <1>2, LookupStep DEF D!Next
<1>3. CASE RegistryRestart
  BY <1>3, RestartStep DEF D!Next
<1>4. CASE UNCHANGED registryVars
  BY <1>4 DEF registryVars, D!vars, Entries, InstancesOf, HasBucket
<1> QED
  BY <1>1, <1>2, <1>3, <1>4 DEF RegistryNext

\* The map of maps, with buckets made and deleted as instances come and go,
\* gives every client the answers of one set of entries.
THEOREM RegistryRefines == RegistrySpec => ImplementsDirectory
<1>1. RegistryInit => D!Init
  BY NoBucketsNoEntries DEF RegistryInit, D!Init, D!Status, Status
<1> QED
  BY <1>1, RegistryNextStep, PTL DEF RegistrySpec, ImplementsDirectory, D!Spec

-----------------------------------------------------------------------------
(***************************************************************************)
(* Discovery: what its theorems rest on.                                   *)
(***************************************************************************)

Op == {"register", "deregister"}

Inspecting == [pc : {"inspect"}, op : {"register"}, id : Instances, status : {0}]

Sent == [pc : {"sent"}, op : Op, id : Instances, status : {0}]

Answered == [pc : {"answered"}, op : Op, id : Instances, status : {200, 400, 404}]

Message == [from : Callers \cup {Nobody}, op : Op, id : Instances]

Entry == [service : Services, instance : Instances, port : Ports]

\* The calls, the messages, and what the history remembers of them.
ManagersTyped ==
  /\ container \in [Instances -> {"none", "running", "exited", "stopped", "removed"}]
  /\ call \in [Callers -> {NoCall} \cup Inspecting \cup Sent \cup Answered]
  /\ net \subseteq Message
  /\ gone \subseteq Instances

\* The sender of a message, unless its connection broke, waits for the answer.
SendersWait ==
  \A m \in net : m.from # Nobody =>
    call[m.from].pc = "sent" /\ call[m.from].op = m.op /\ call[m.from].id = m.id

\* An instance of which the registry has an entry.
Known(i) == HasBucket(Owner[i]) /\ i \in DOMAIN buckets[Owner[i]]

Registers(m) == m.op = "register"

\* An instance is registered by one call and its message, before which there is no
\* entry.
RegistersOnce ==
  /\ \A m, n \in net : (Registers(m) /\ Registers(n) /\ m.id = n.id) => m = n
  /\ \A m \in net : Registers(m) => ~Known(m.id) /\ container[m.id] # "none"
  /\ \A i \in Instances : container[i] = "none" => ~Known(i)

StartsOnce ==
  /\ \A t, u \in Callers :
       (call[t].pc = "inspect" /\ call[u].pc = "inspect" /\ call[t].id = call[u].id) => t = u
  /\ \A t \in Callers : call[t].pc # "idle" => container[call[t].id] # "none"
  /\ \A t \in Callers : call[t].pc = "inspect" =>
       /\ ~Known(call[t].id)
       /\ \A m \in net : Registers(m) => m.id # call[t].id

\* The entry of i is gone, and none will come.
Over(i) ==
  /\ container[i] # "none"
  /\ ~Known(i)
  /\ \A m \in net : Registers(m) => m.id # i
  /\ \A t \in Callers : call[t].pc = "inspect" => call[t].id # i

\* That is so once a deregistration succeeded, before its caller learns of it.
GoneIsOver ==
  /\ \A i \in gone : Over(i)
  /\ \A t \in Callers :
       (call[t].op = "deregister" /\ call[t].status = 200) => Over(call[t].id)

\* What holds of a request r while it is routed.
Routed(r) ==
  /\ r.pc \in {"idle", "lookup", "select", "proxy"}
  /\ r.pc # "idle" =>
       /\ r.service \in Services
       /\ r.avoid \subseteq gone
       /\ \A i \in r.avoid : Owner[i] = r.service
  /\ r.pc = "select" =>
       /\ r.list \in Seq(Entry) /\ r.list # <<>>
       /\ \A k \in 1 .. Len(r.list) : r.list[k].instance \notin r.avoid
  /\ r.pc = "proxy" => r.target \notin r.avoid

RequestsRouted == DOMAIN request = Handlers /\ \A h \in Handlers : Routed(request[h])

Calm == ManagersTyped /\ SendersWait /\ RegistersOnce /\ StartsOnce /\ GoneIsOver

CountersTyped == next \in [Services -> Nat]

DInv == RegistryTypeOK /\ Calm /\ RequestsRouted /\ CountersTyped

-----------------------------------------------------------------------------
(***************************************************************************)
(* The registry, with its callers, implements the directory.               *)
(***************************************************************************)
\* No request leaves an empty bucket or a port that is not positive.
LEMMA RegistryTypeStep == RegistryTypeOK /\ [RegistryNext]_registryVars => RegistryTypeOK'
<1> SUFFICES ASSUME RegistryTypeOK, [RegistryNext]_registryVars PROVE RegistryTypeOK'
  OBVIOUS
<1>1. CASE UNCHANGED buckets
  BY <1>1 DEF RegistryTypeOK
<1>2. ASSUME NEW s \in Services, NEW i \in Instances, NEW p \in Ports, p > 0,
             buckets' = Put(buckets, s, Put(BucketFor(s), i, p))
      PROVE  RegistryTypeOK'
  <2> DEFINE bucket == Put(BucketFor(s), i, p)
  <2>1. /\ DOMAIN buckets' = DOMAIN buckets \cup {s} /\ buckets'[s] = bucket
        /\ \A r \in DOMAIN buckets : r # s => buckets'[r] = buckets[r]
    BY <1>2 DEF Put
  <2>2. /\ DOMAIN bucket = (IF HasBucket(s) THEN DOMAIN buckets[s] ELSE {}) \cup {i}
        /\ bucket[i] = p
        /\ HasBucket(s) => \A j \in DOMAIN buckets[s] : j # i => bucket[j] = buckets[s][j]
    BY DEF Put, BucketFor, EmptyMap
  <2> HIDE DEF bucket
  <2> QED
    BY <1>2, <2>1, <2>2 DEF RegistryTypeOK, HasBucket
<1>3. ASSUME NEW s \in Services, NEW i \in Instances, HasBucket(s), i \in DOMAIN buckets[s],
             buckets' = Remove(s, i)
      PROVE  RegistryTypeOK'
  <2>1. CASE DOMAIN buckets[s] = {i}
    BY <1>3, <2>1 DEF Remove, Without, HasBucket, RegistryTypeOK
  <2>2. CASE DOMAIN buckets[s] # {i}
    <3>1. buckets' = Put(buckets, s, Without(buckets[s], i))
      BY <1>3, <2>2 DEF Remove
    <3>2. \E j \in DOMAIN buckets[s] : j # i
      BY <1>3, <2>2
    <3> QED
      BY <1>3, <3>1, <3>2 DEF Put, Without, HasBucket, RegistryTypeOK
  <2> QED
    BY <2>1, <2>2
<1>4. CASE RegistryRestart
  BY <1>4 DEF RegistryRestart, EmptyMap, RegistryTypeOK
<1> QED
  BY <1>1, <1>2, <1>3, <1>4
  DEF RegistryNext, RegisterRequest, DeregisterRequest, LookupAllRequest, LookupRequest, registryVars

\* Whoever sends them, the registry only serves requests of the kinds it knows.
LEMMA RegistryStep == DiscoveryAssumption /\ DInv /\ [Next]_allVars => [RegistryNext]_registryVars
<1> SUFFICES ASSUME DiscoveryAssumption, DInv, [Next]_allVars, ~UNCHANGED registryVars
             PROVE  RegistryNext
  OBVIOUS
<1>1. CASE Serve
  <2>1. PICK m \in net :
          \/ m.op = "register" /\ \E p \in Ports : RegisterRequest(Owner[m.id], m.id, p)
          \/ m.op = "deregister" /\ DeregisterRequest(Owner[m.id], m.id)
    BY <1>1 DEF Serve
  <2>2. m.id \in Instances /\ Owner[m.id] \in Services
    BY DEF DInv, Calm, ManagersTyped, Message, DiscoveryAssumption
  <2> QED
    BY <2>1, <2>2 DEF RegistryNext
<1>2. ASSUME NEW h \in Handlers, Route(h)
      PROVE  RegistryNext
  <2>1. LookUp(h)
    BY <1>2 DEF Route, BeginRequest, LookUpFails, SelectBackend, Proxied
  <2>2. request[h].service \in Services /\ LookupAllRequest(request[h].service)
    BY <2>1 DEF LookUp, DInv, RequestsRouted, Routed
  <2> QED
    BY <2>2 DEF RegistryNext
<1>3. CASE OtherClient
  BY <1>3 DEF OtherClient, RegistryNext, DiscoveryAssumption
<1>4. CASE RegistryCrashes
  BY <1>4 DEF RegistryCrashes, RegistryNext
<1> QED
  BY <1>1, <1>2, <1>3, <1>4
  DEF Next, allVars, StartContainer, RegisterInstance, NoPortFound, StopContainer, StopUnnamed,
      ContainerExits, CallReturns, CallFails, LoadBalancerCrashes

-----------------------------------------------------------------------------
(***************************************************************************)
(* The manager's calls and the registry.                                   *)
(***************************************************************************)
\* What the requests do to the entry of an instance.
LEMMA RegisterKnown ==
  ASSUME NEW i, NEW p, p > 0, p \in Int, RegisterRequest(Owner[i], i, p), NEW j, Known(j)'
  PROVE  Known(j) \/ j = i
BY DEF RegisterRequest, Put, BucketFor, EmptyMap, Known, HasBucket

\* A deregistration adds no entry, and one answered with 200 removed the instance's.
LEMMA DeregisterKnown ==
  ASSUME NEW i, DeregisterRequest(Owner[i], i)
  PROVE  /\ \A j : Known(j)' => Known(j)
         /\ reply'.status = 200 => Known(i) /\ ~Known(i)'
<1>1. CASE UNCHANGED buckets /\ reply' = Status(404)
  BY <1>1 DEF Status, Known, HasBucket
<1>2. CASE /\ HasBucket(Owner[i]) /\ i \in DOMAIN buckets[Owner[i]]
           /\ buckets' = Remove(Owner[i], i)
  <2>1. CASE DOMAIN buckets[Owner[i]] = {i}
    BY <1>2, <2>1 DEF Remove, Without, Known, HasBucket
  <2>2. CASE DOMAIN buckets[Owner[i]] # {i}
    <3>1. buckets' = Put(buckets, Owner[i], Without(buckets[Owner[i]], i))
      BY <1>2, <2>2 DEF Remove
    <3> QED
      BY <1>2, <3>1 DEF Put, Without, Known, HasBucket
  <2> QED
    BY <2>1, <2>2
<1> QED
  BY <1>1, <1>2 DEF DeregisterRequest

\* Where the buckets stay, so does what the registry knows.
LEMMA SameKnown == ASSUME UNCHANGED buckets, NEW i PROVE Known(i)' <=> Known(i)
BY DEF Known, HasBucket

\* A container that changes its state, but not from or to "none", changes nothing here.
LEMMA ContainerStep ==
  ASSUME Calm, UNCHANGED <<buckets, call, net, gone>>,
         container' \in [Instances -> {"none", "running", "exited", "stopped", "removed"}],
         \A i \in Instances : container'[i] = "none" <=> container[i] = "none"
  PROVE  Calm'
<1>1. \A i : Known(i)' <=> Known(i)
  BY SameKnown
<1>2. \A i \in Instances : Over(i) => Over(i)'
  BY <1>1 DEF Over
<1>3. ManagersTyped' /\ SendersWait'
  BY DEF Calm, ManagersTyped, SendersWait
<1>4. \A m \in net : m.id \in Instances
  BY DEF Calm, ManagersTyped, Message
<1>5. \A t \in Callers : call[t].pc # "idle" => call[t].id \in Instances
  BY DEF Calm, ManagersTyped, NoCall, Inspecting, Sent, Answered
<1>6. \A t \in Callers : call[t].op = "deregister" => call[t].id \in Instances
  BY DEF Calm, ManagersTyped, NoCall, Inspecting, Sent, Answered
<1>7. RegistersOnce'
  BY <1>1, <1>4 DEF Calm, RegistersOnce
<1>8. StartsOnce'
  BY <1>1, <1>5 DEF Calm, StartsOnce
<1>9. GoneIsOver'
  BY <1>2, <1>6 DEF Calm, ManagersTyped, GoneIsOver
<1> QED
  BY <1>3, <1>7, <1>8, <1>9 DEF Calm

\* A start: nothing was known of its instance.
LEMMA StartStep ==
  ASSUME DiscoveryAssumption, Calm, NEW t \in Callers, StartContainer(t)
  PROVE  Calm'
<1> DEFINE c0(i) == [pc |-> "inspect", op |-> "register", id |-> i, status |-> 0]
<1>1. PICK i \in Instances :
        /\ container[i] = "none"
        /\ container' = [container EXCEPT ![i] = "running"]
        /\ call' = [call EXCEPT ![t] = c0(i)]
  BY DEF StartContainer
<1>2. c0(i) \in Inspecting /\ c0(i).pc = "inspect" /\ c0(i).id = i /\ c0(i).op = "register"
  BY DEF Inspecting
<1> HIDE DEF c0
<1>3. /\ \A j : Known(j)' <=> Known(j)
      /\ UNCHANGED <<net, gone>> /\ call[t] = NoCall
  BY SameKnown DEF StartContainer, Calm, ManagersTyped, Inspecting, Sent, Answered, registryVars
<1>4. /\ call'[t] = c0(i) /\ \A u \in Callers : u # t => call'[u] = call[u]
      /\ container'[i] = "running" /\ \A j \in Instances : j # i => container'[j] = container[j]
  BY <1>1 DEF Calm, ManagersTyped
<1>5. \A m \in net : m.from # t
  BY <1>3 DEF Calm, ManagersTyped, Message, SendersWait, NoCall, DiscoveryAssumption
<1>6. ManagersTyped'
  BY <1>1, <1>2, <1>3 DEF Calm, ManagersTyped
<1>7. SendersWait'
  BY <1>3, <1>4, <1>5 DEF Calm, ManagersTyped, Message, SendersWait
<1>8. /\ ~Known(i) /\ \A m \in net : Registers(m) => m.id # i
      /\ \A u \in Callers : call[u].pc = "inspect" => call[u].id # i
  BY <1>1 DEF Calm, RegistersOnce, StartsOnce
<1>9. \A m \in net : m.id \in Instances
  BY DEF Calm, ManagersTyped, Message
<1>10. RegistersOnce'
  BY <1>3, <1>4, <1>9 DEF Calm, RegistersOnce
<1>11. \A u \in Callers : call[u].pc # "idle" => call[u].id \in Instances
  BY DEF Calm, ManagersTyped, NoCall, Inspecting, Sent, Answered
<1>12. StartsOnce'
  BY <1>2, <1>3, <1>4, <1>8, <1>11 DEF Calm, StartsOnce
<1>13. \A j \in Instances : Over(j) => Over(j)'
  BY <1>1, <1>2, <1>3, <1>4 DEF Over
<1>14. GoneIsOver'
  BY <1>2, <1>3, <1>4, <1>13 DEF Calm, ManagersTyped, GoneIsOver, Inspecting, Sent, Answered, NoCall
<1> QED
  BY <1>6, <1>7, <1>10, <1>12, <1>14 DEF Calm

\* The registration is sent, and the call waits for it.
LEMMA RegisterSentStep ==
  ASSUME DiscoveryAssumption, Calm, NEW t \in Callers, RegisterInstance(t)
  PROVE  Calm'
<1> DEFINE i == call[t].id
           m0 == [from |-> t, op |-> "register", id |-> i]
           c0 == [pc |-> "sent", op |-> "register", id |-> i, status |-> 0]
<1>1. call[t].pc = "inspect" /\ call[t] \in Inspecting /\ i \in Instances
  BY DEF RegisterInstance, Calm, ManagersTyped, NoCall, Inspecting, Sent, Answered
<1>2. net' = net \cup {m0} /\ call' = [call EXCEPT ![t] = c0]
  BY DEF RegisterInstance, Send
<1>3. m0 \in Message /\ c0 \in Sent /\ m0.from = t /\ m0.id = i /\ Registers(m0)
  BY <1>1 DEF Message, Sent, Op, Registers
<1>4. /\ \A j : Known(j)' <=> Known(j)
      /\ UNCHANGED <<container, gone>>
  BY SameKnown DEF RegisterInstance, registryVars
<1>5. c0.pc = "sent" /\ c0.op = "register" /\ c0.id = i /\ c0.status = 0 /\ m0.op = "register"
  OBVIOUS
<1>6. ~Known(i) /\ container[i] # "none" /\ \A m \in net : Registers(m) => m.id # i
  BY <1>1 DEF Calm, StartsOnce
<1>7. \A u \in Callers : (u # t /\ call[u].pc = "inspect") => call[u].id # i
  BY <1>1 DEF Calm, StartsOnce
<1>8. \A m \in net : m.from # t
  BY <1>1 DEF Calm, ManagersTyped, Message, SendersWait, DiscoveryAssumption
<1> HIDE DEF m0, c0, i
<1>9. call'[t] = c0 /\ \A u \in Callers : u # t => call'[u] = call[u]
  BY <1>2 DEF Calm, ManagersTyped
<1>10. ManagersTyped'
  BY <1>2, <1>3, <1>4 DEF Calm, ManagersTyped
<1>11. SendersWait'
  BY <1>2, <1>3, <1>5, <1>8, <1>9 DEF Calm, ManagersTyped, Message, SendersWait
<1>12. RegistersOnce'
  BY <1>2, <1>3, <1>4, <1>6 DEF Calm, RegistersOnce
<1>13. StartsOnce'
  BY <1>2, <1>3, <1>4, <1>5, <1>6, <1>7, <1>9 DEF Calm, StartsOnce
<1>14. \A j \in Instances : Over(j) => Over(j)'
  <2> SUFFICES ASSUME NEW j \in Instances, Over(j) PROVE Over(j)'
    OBVIOUS
  <2>1. j # i
    BY <1>1 DEF Over, i
  <2> QED
    BY <1>2, <1>3, <1>4, <1>5, <1>9, <2>1 DEF Over
<1>15. GoneIsOver'
  BY <1>4, <1>5, <1>9, <1>14 DEF Calm, ManagersTyped, GoneIsOver, Inspecting, Sent, Answered, NoCall
<1> QED
  BY <1>10, <1>11, <1>12, <1>13, <1>15 DEF Calm

\* A call that ends where no message of it is under way.
LEMMA CallEnds ==
  ASSUME Calm, NEW t \in Callers, call' = [call EXCEPT ![t] = NoCall],
         UNCHANGED <<buckets, container, net, gone>>,
         \A m \in net : m.from # t
  PROVE  Calm'
<1>1. \A j : Known(j)' <=> Known(j)
  BY SameKnown
<1>2. call'[t] = NoCall /\ \A u \in Callers : u # t => call'[u] = call[u]
  BY DEF Calm, ManagersTyped
<1>3. NoCall.pc = "idle" /\ NoCall.op = "none"
  BY DEF NoCall
<1>4. ManagersTyped' /\ SendersWait' /\ RegistersOnce'
  BY <1>1, <1>2 DEF Calm, ManagersTyped, Message, SendersWait, RegistersOnce
<1>5. StartsOnce'
  BY <1>1, <1>2, <1>3 DEF Calm, StartsOnce
<1>6. \A j : Over(j) => Over(j)'
  BY <1>1, <1>2, <1>3 DEF Over
<1>7. GoneIsOver'
  BY <1>2, <1>3, <1>6 DEF Calm, GoneIsOver
<1> QED
  BY <1>4, <1>5, <1>7 DEF Calm

\* So does a start that returns without a registration.
LEMMA NoPortStep ==
  ASSUME DiscoveryAssumption, Calm, NEW t \in Callers, NoPortFound(t)
  PROVE  Calm'
<1>1. \A m \in net : m.from # t
  BY DEF NoPortFound, Calm, ManagersTyped, Message, SendersWait, DiscoveryAssumption
<1> QED
  BY <1>1, CallEnds DEF NoPortFound, registryVars

\* A stop without a name, and a container that ends, send nothing.
LEMMA SilentStep ==
  ASSUME Calm, StopUnnamed \/ \E i \in Instances : ContainerExits(i)
  PROVE  Calm'
<1>1. CASE StopUnnamed
  BY <1>1, ContainerStep DEF StopUnnamed, Calm, ManagersTyped, registryVars
<1>2. CASE \E i \in Instances : ContainerExits(i)
  BY <1>2, ContainerStep DEF ContainerExits, Calm, ManagersTyped, registryVars
<1> QED
  BY <1>1, <1>2

\* A stop sends no registration.
LEMMA StopStep ==
  ASSUME DiscoveryAssumption, Calm, NEW t \in Callers, StopContainer(t)
  PROVE  Calm'
<1>1. PICK i \in Instances :
        /\ container[i] \in {"running", "exited", "stopped"}
        /\ container' = [container EXCEPT ![i] = "stopped"]
        /\ Send(t, "deregister", i)
  BY DEF StopContainer
<1> DEFINE m0 == [from |-> t, op |-> "deregister", id |-> i]
           c0 == [pc |-> "sent", op |-> "deregister", id |-> i, status |-> 0]
<1>2. net' = net \cup {m0} /\ call' = [call EXCEPT ![t] = c0]
  BY <1>1 DEF Send
<1>3. m0 \in Message /\ c0 \in Sent /\ m0.from = t /\ m0.id = i /\ ~Registers(m0)
  BY DEF Message, Sent, Op, Registers
<1>4. /\ \A j : Known(j)' <=> Known(j)
      /\ UNCHANGED gone /\ call[t] = NoCall
  BY SameKnown DEF StopContainer, Calm, ManagersTyped, Inspecting, Sent, Answered, registryVars
<1>5. c0.pc = "sent" /\ c0.op = "deregister" /\ c0.id = i /\ c0.status = 0 /\ m0.op = "deregister"
  OBVIOUS
<1>6. \A m \in net : m.from # t
  BY <1>4 DEF Calm, ManagersTyped, Message, SendersWait, NoCall, DiscoveryAssumption
<1> HIDE DEF m0, c0
<1>7. ManagersTyped'
  BY <1>1, <1>2, <1>3, <1>4 DEF Calm, ManagersTyped
<1>8. SendersWait'
  BY <1>2, <1>3, <1>5, <1>6 DEF Calm, ManagersTyped, Message, SendersWait
<1>9. RegistersOnce'
  BY <1>1, <1>2, <1>3, <1>4 DEF Calm, ManagersTyped, RegistersOnce
<1>10. call'[t] = c0 /\ \A u \in Callers : u # t => call'[u] = call[u]
  BY <1>2 DEF Calm, ManagersTyped
<1>11. StartsOnce'
  BY <1>1, <1>2, <1>3, <1>4, <1>5, <1>10 DEF Calm, ManagersTyped, StartsOnce
<1>12. \A j \in Instances : Over(j) => Over(j)'
  BY <1>1, <1>2, <1>3, <1>4, <1>5, <1>10 DEF Over, Calm, ManagersTyped
<1>13. GoneIsOver'
  BY <1>4, <1>5, <1>10, <1>12
  DEF Calm, ManagersTyped, GoneIsOver, Inspecting, Sent, Answered, NoCall
<1> QED
  BY <1>7, <1>8, <1>9, <1>11, <1>13 DEF Calm

\* A registration is served once; a deregistration that succeeds came after it.
LEMMA ServeStep ==
  ASSUME DiscoveryAssumption, RegistryAssumption, Calm, Serve
  PROVE  Calm'
<1>1. PICK m \in net :
        /\ \/ Registers(m) /\ \E p \in Ports : p > 0 /\ RegisterRequest(Owner[m.id], m.id, p)
           \/ m.op = "deregister" /\ DeregisterRequest(Owner[m.id], m.id)
        /\ net' = net \ {m}
        /\ call' = IF m.from = Nobody THEN call
                   ELSE [call EXCEPT ![m.from] =
                     [pc |-> "answered", op |-> m.op, id |-> m.id, status |-> reply'.status]]
  BY DEF Serve, Registers
<1>2. reply'.status \in {200, 400, 404} /\ UNCHANGED <<container, gone>>
  BY <1>1 DEF Serve, RegisterRequest, DeregisterRequest, Status
<1>3. m \in Message /\ m.id \in Instances
  BY DEF Calm, ManagersTyped, Message
<1>4. ASSUME m.from # Nobody
      PROVE  /\ m.from \in Callers
             /\ call'[m.from] \in Answered
             /\ call'[m.from].op = m.op /\ call'[m.from].id = m.id
             /\ call'[m.from].status = reply'.status
             /\ \A t \in Callers : t # m.from => call'[t] = call[t]
             /\ DOMAIN call' = Callers
  <2>1. m.from \in Callers
    BY <1>3, <1>4 DEF Message
  <2>2. call'[m.from] = [pc |-> "answered", op |-> m.op, id |-> m.id, status |-> reply'.status]
    BY <1>1, <1>4, <2>1 DEF Calm, ManagersTyped
  <2>3. /\ call'[m.from] \in Answered
        /\ call'[m.from].op = m.op /\ call'[m.from].id = m.id
        /\ call'[m.from].status = reply'.status
    BY <1>2, <1>3, <2>2 DEF Message, Answered
  <2>4. \A t \in Callers : t # m.from => call'[t] = call[t]
    BY <1>1, <1>4, <2>1 DEF Calm, ManagersTyped
  <2>5. DOMAIN call' = Callers
    BY <1>1, <1>4, <2>1 DEF Calm, ManagersTyped
  <2> QED
    BY <2>1, <2>3, <2>4, <2>5
<1>5. m.from = Nobody => UNCHANGED call
  BY <1>1
<1>6. ManagersTyped'
  BY <1>1, <1>2, <1>4, <1>5 DEF Calm, ManagersTyped
<1>7. SendersWait'
  <2> SUFFICES ASSUME NEW n \in net', n.from # Nobody
               PROVE  call'[n.from].pc = "sent" /\ call'[n.from].op = n.op /\ call'[n.from].id = n.id
    BY DEF SendersWait
  <2>1. n \in net /\ n \in Message /\ n # m /\ n.from \in Callers
    BY <1>1 DEF Calm, ManagersTyped, Message
  <2>2. n.from # m.from
    BY <1>3, <2>1 DEF Calm, SendersWait, Message
  <2>3. call'[n.from] = call[n.from]
    BY <1>4, <1>5, <2>1, <2>2
  <2> QED
    BY <2>1, <2>3 DEF Calm, SendersWait
<1>10. \A t \in Callers : /\ call'[t].pc = "inspect" => call'[t] = call[t]
                          /\ call'[t].pc # "idle" => call[t].pc # "idle" /\ call'[t].id = call[t].id
  <2>1. m.from # Nobody => call[m.from].pc = "sent" /\ call[m.from].id = m.id
    BY DEF Calm, SendersWait
  <2>2. m.from # Nobody => call'[m.from].pc = "answered"
    BY <1>4 DEF Answered
  <2> QED
    BY <1>4, <1>5, <2>1, <2>2
<1>8. CASE Registers(m) /\ \E p \in Ports : p > 0 /\ RegisterRequest(Owner[m.id], m.id, p)
  <2>1. \A j : Known(j)' => Known(j) \/ j = m.id
    BY <1>8, RegisterKnown DEF RegistryAssumption
  <2>2. RegistersOnce'
    BY <1>1, <1>2, <1>8, <2>1 DEF Calm, RegistersOnce
  <2>3. \A i \in Instances : Over(i) => Over(i)'
    BY <1>1, <1>2, <1>8, <1>10, <2>1 DEF Over
  <2>4. m.op # "deregister"
    BY <1>8 DEF Registers
  <2>5. \A t \in Callers : (call'[t].op = "deregister" /\ call'[t].status = 200) =>
          call[t].op = "deregister" /\ call[t].status = 200 /\ call'[t].id = call[t].id /\ call[t].id \in Instances
    BY <1>4, <1>5, <2>4 DEF Calm, ManagersTyped, NoCall, Inspecting, Sent, Answered
  <2>6. GoneIsOver'
    BY <1>2, <2>3, <2>5 DEF Calm, ManagersTyped, GoneIsOver
  <2>7. StartsOnce'
    BY <1>1, <1>2, <1>3, <1>8, <1>10, <2>1 DEF Calm, StartsOnce, RegistersOnce
  <2> QED
    BY <1>6, <1>7, <2>2, <2>6, <2>7 DEF Calm
<1>9. CASE m.op = "deregister" /\ DeregisterRequest(Owner[m.id], m.id)
  <2>1. /\ \A j : Known(j)' => Known(j)
        /\ reply'.status = 200 => Known(m.id) /\ ~Known(m.id)'
    BY <1>9, DeregisterKnown
  <2>2. RegistersOnce'
    BY <1>1, <1>2, <2>1 DEF Calm, RegistersOnce
  <2>3. \A i \in Instances : Over(i) => Over(i)'
    BY <1>1, <1>2, <1>10, <2>1 DEF Over
  <2>4. reply'.status = 200 => Over(m.id)'
    BY <1>1, <1>2, <1>3, <1>10, <2>1 DEF Over, Calm, RegistersOnce, StartsOnce
  <2>5. \A t \in Callers : (call'[t].op = "deregister" /\ call'[t].status = 200) =>
          \/ m.from # Nobody /\ t = m.from /\ reply'.status = 200 /\ call'[t].id = m.id
          \/ /\ call[t].op = "deregister" /\ call[t].status = 200
             /\ call'[t].id = call[t].id /\ call[t].id \in Instances
    BY <1>4, <1>5 DEF Calm, ManagersTyped, NoCall, Inspecting, Sent, Answered
  <2>6. GoneIsOver'
    BY <1>2, <2>3, <2>4, <2>5 DEF Calm, ManagersTyped, GoneIsOver
  <2>7. StartsOnce'
    BY <1>1, <1>2, <1>3, <1>10, <2>1 DEF Calm, StartsOnce
  <2> QED
    BY <1>6, <1>7, <2>2, <2>6, <2>7 DEF Calm
<1> QED
  BY <1>1, <1>8, <1>9

\* The container of a call is removed, or is not.
LEMMA RemovalStep ==
  ASSUME Calm, NEW t \in Callers, call[t].pc # "idle", Removal(call[t]) \/ RemovalFails
  PROVE  /\ container' \in [Instances -> {"none", "running", "exited", "stopped", "removed"}]
         /\ \A i \in Instances : container'[i] = "none" <=> container[i] = "none"
<1>1. call[t].id \in Instances /\ container[call[t].id] # "none"
  BY DEF Calm, ManagersTyped, StartsOnce, NoCall, Inspecting, Sent, Answered
<1> QED
  BY <1>1 DEF Removal, RemovalFails, Calm, ManagersTyped

\* The caller learns what the registry did.
LEMMA ReturnStep ==
  ASSUME DiscoveryAssumption, Calm, NEW t \in Callers, CallReturns(t)
  PROVE  Calm'
<1>1. /\ call[t].pc = "answered" /\ call' = [call EXCEPT ![t] = NoCall]
      /\ gone' = IF call[t].op = "deregister" /\ Succeeds(call[t].status)
                 THEN gone \cup {call[t].id} ELSE gone
      /\ UNCHANGED <<buckets, net>>
  BY DEF CallReturns, registryVars
<1>2. call[t] \in Answered
  BY <1>1 DEF Calm, ManagersTyped, NoCall, Inspecting, Sent
<1>3. /\ container' \in [Instances -> {"none", "running", "exited", "stopped", "removed"}]
      /\ \A i \in Instances : container'[i] = "none" <=> container[i] = "none"
  BY <1>1, RemovalStep DEF CallReturns
<1>4. call'[t] = NoCall /\ \A u \in Callers : u # t => call'[u] = call[u]
  BY <1>1 DEF Calm, ManagersTyped
<1>5. NoCall.pc = "idle" /\ NoCall.op = "none"
  BY DEF NoCall
<1>6. \A i \in Instances : Over(i) => Over(i)'
  BY <1>1, <1>3, <1>4, <1>5, SameKnown DEF Over
<1>7. ManagersTyped'
  BY <1>1, <1>2, <1>3 DEF Calm, ManagersTyped, Answered
<1>8. SendersWait'
  BY <1>1, <1>4 DEF Calm, ManagersTyped, SendersWait, Message
<1>9. \A m \in net : m.id \in Instances
  BY DEF Calm, ManagersTyped, Message
<1>10. \A u \in Callers : call[u].pc # "idle" => call[u].id \in Instances
  BY DEF Calm, ManagersTyped, NoCall, Inspecting, Sent, Answered
<1>11. RegistersOnce'
  BY <1>1, <1>3, <1>9, SameKnown DEF Calm, RegistersOnce
<1>12. StartsOnce'
  BY <1>1, <1>3, <1>4, <1>5, <1>10, SameKnown DEF Calm, StartsOnce
<1>13. Succeeds(call[t].status) => call[t].status = 200
  BY <1>2 DEF Answered, Succeeds
<1>14. call[t].id \in Instances
  BY <1>2 DEF Answered
<1>15. GoneIsOver'
  <2>1. \A u \in Callers : call'[u].op = "deregister" => call'[u] = call[u] /\ call[u].id \in Instances
    BY <1>4, <1>5 DEF Calm, ManagersTyped, NoCall, Inspecting, Sent, Answered
  <2> QED
    BY <1>1, <1>6, <1>13, <1>14, <2>1 DEF Calm, ManagersTyped, GoneIsOver
<1> QED
  BY <1>7, <1>8, <1>11, <1>12, <1>15 DEF Calm

\* A broken connection leaves its message as it is, but for the sender.
LEMMA FailStep ==
  ASSUME DiscoveryAssumption, Calm, NEW t \in Callers, CallFails(t)
  PROVE  Calm'
<1> DEFINE mine == {m \in net : m.from = t}
           orphan(m) == [m EXCEPT !.from = Nobody]
<1>1. /\ call[t].pc \in {"sent", "answered"}
      /\ call' = [call EXCEPT ![t] = NoCall]
      /\ \/ net' = net \ mine
         \/ net' = (net \ mine) \cup {orphan(m) : m \in mine}
      /\ UNCHANGED <<buckets, gone>>
  BY DEF CallFails, registryVars
<1>2. \A m \in net : /\ orphan(m) \in Message /\ orphan(m).from = Nobody
                     /\ orphan(m).id = m.id /\ orphan(m).op = m.op
  BY DEF Calm, ManagersTyped, Message
<1>3. \A n \in net' : \/ n \in net /\ n.from # t
                      \/ \E m \in mine : n = orphan(m)
  BY <1>1
<1> HIDE DEF orphan
<1>4. /\ container' \in [Instances -> {"none", "running", "exited", "stopped", "removed"}]
      /\ \A i \in Instances : container'[i] = "none" <=> container[i] = "none"
  BY <1>1, RemovalStep DEF CallFails
<1>5. call'[t] = NoCall /\ \A u \in Callers : u # t => call'[u] = call[u]
  BY <1>1 DEF Calm, ManagersTyped
<1>6. NoCall.pc = "idle" /\ NoCall.op = "none"
  BY DEF NoCall
<1>7. ManagersTyped'
  BY <1>1, <1>2, <1>3, <1>4 DEF Calm, ManagersTyped
<1>8. SendersWait'
  BY <1>2, <1>3, <1>5 DEF Calm, ManagersTyped, Message, SendersWait
<1>9. \A n \in net' : \E m \in net : n.id = m.id /\ n.op = m.op
  BY <1>2, <1>3
<1>10. \A m \in net : m.id \in Instances
  BY DEF Calm, ManagersTyped, Message
<1>11. \A u \in Callers : call[u].pc # "idle" => call[u].id \in Instances
  BY DEF Calm, ManagersTyped, NoCall, Inspecting, Sent, Answered
<1>12. RegistersOnce'
  <2>1. \A n \in net' : Registers(n) => ~Known(n.id)' /\ container'[n.id] # "none"
    BY <1>1, <1>4, <1>9, <1>10, SameKnown DEF Calm, RegistersOnce, Registers
  <2>2. ASSUME NEW n1 \in net', NEW n2 \in net', Registers(n1), Registers(n2), n1.id = n2.id
        PROVE  n1 = n2
    <3>1. PICK m1 \in net : (n1 = m1 /\ m1.from # t) \/ (n1 = orphan(m1) /\ m1.from = t)
      BY <1>3
    <3>2. PICK m2 \in net : (n2 = m2 /\ m2.from # t) \/ (n2 = orphan(m2) /\ m2.from = t)
      BY <1>3
    <3>3. m1 = m2
      BY <1>2, <2>2, <3>1, <3>2 DEF Calm, RegistersOnce, Registers
    <3> QED
      BY <3>1, <3>2, <3>3
  <2> QED
    BY <1>1, <1>4, <2>1, <2>2, SameKnown DEF Calm, RegistersOnce
<1>13. StartsOnce'
  BY <1>1, <1>4, <1>5, <1>6, <1>9, <1>11, SameKnown DEF Calm, StartsOnce, Registers
<1>14. \A i \in Instances : Over(i) => Over(i)'
  BY <1>1, <1>4, <1>5, <1>6, <1>9, SameKnown DEF Over, Registers
<1>15. \A u \in Callers : call'[u].op = "deregister" => call'[u] = call[u] /\ call[u].id \in Instances
  BY <1>5, <1>6 DEF Calm, ManagersTyped, NoCall, Inspecting, Sent, Answered
<1>16. GoneIsOver'
  BY <1>1, <1>14, <1>15 DEF Calm, ManagersTyped, GoneIsOver
<1> QED
  BY <1>7, <1>8, <1>12, <1>13, <1>16 DEF Calm

\* A registry that restarts forgets entries and messages.
LEMMA CrashStep ==
  ASSUME DiscoveryAssumption, Calm, RegistryCrashes
  PROVE  Calm'
<1>1. /\ buckets' = EmptyMap /\ net' = {}
      /\ call' = [t \in Callers |-> IF call[t].pc = "sent" THEN NoCall ELSE call[t]]
      /\ UNCHANGED <<container, gone>>
  BY DEF RegistryCrashes, RegistryRestart
<1>2. \A i : ~Known(i)'
  BY <1>1 DEF Known, HasBucket, EmptyMap
<1>3. \A u \in Callers : (call'[u].pc # "idle" \/ call'[u].op = "deregister") => call'[u] = call[u]
  BY <1>1 DEF NoCall
<1>4. \A i : Over(i) => Over(i)'
  BY <1>1, <1>2, <1>3 DEF Over
<1>5. GoneIsOver'
  BY <1>1, <1>3, <1>4 DEF Calm, GoneIsOver
<1>6. StartsOnce'
  BY <1>1, <1>2, <1>3 DEF Calm, StartsOnce
<1> QED
  BY <1>1, <1>2, <1>5, <1>6 DEF Calm, ManagersTyped, SendersWait, RegistersOnce

\* Every step keeps what is known of the messages and of deregistered instances.
LEMMA CalmStep ==
  ASSUME DiscoveryAssumption, RegistryAssumption, Calm, [Next]_allVars
  PROVE  Calm'
<1>1. CASE UNCHANGED <<buckets, managers>>
  BY <1>1, SameKnown
  DEF Calm, ManagersTyped, SendersWait, RegistersOnce, StartsOnce, GoneIsOver, Over, managers
<1>2. ASSUME NEW h \in Handlers, Route(h)
      PROVE  UNCHANGED <<buckets, managers>>
  BY <1>2 DEF Route, BeginRequest, LookUp, LookUpFails, SelectBackend, Proxied, LookupAllRequest, registryVars
<1>3. OtherClient \/ LoadBalancerCrashes => UNCHANGED <<buckets, managers>>
  BY DEF OtherClient, LoadBalancerCrashes, LookupRequest, RegisterRequest, registryVars, RegistryAssumption
<1> QED
  BY <1>1, <1>2, <1>3, StartStep, RegisterSentStep, NoPortStep, StopStep, SilentStep, ServeStep,
     ReturnStep, FailStep, CrashStep
  DEF Next, allVars, registryVars

-----------------------------------------------------------------------------
(***************************************************************************)
(* Indices modulo the number of backends.                                  *)
(***************************************************************************)
\* A remainder is below the divisor.
LEMMA ModBounds == ASSUME NEW x \in Nat, NEW n \in Nat \ {0} PROVE x % n \in 0 .. n - 1
OBVIOUS

\* Division with remainder.
LEMMA DivMod ==
  ASSUME NEW x \in Nat, NEW n \in Nat \ {0}
  PROVE  x \div n \in Nat /\ x % n \in 0 .. n - 1 /\ x = n * (x \div n) + (x % n)
OBVIOUS

\* The remainder is the only one there is.
LEMMA Remainder ==
  ASSUME NEW n \in Nat \ {0}, NEW q \in Nat, NEW r \in 0 .. n - 1
  PROVE  (n * q + r) % n = r
<1> DEFINE x == n * q + r
<1>1. x \in Nat
  OBVIOUS
<1>2. x \div n \in Nat /\ x % n \in 0 .. n - 1 /\ x = n * (x \div n) + (x % n)
  BY <1>1, DivMod
<1>3. CASE x \div n >= q + 1
  <2>1. n * (x \div n) >= n * (q + 1)
    BY <1>2, <1>3
  <2> QED
    BY <1>2, <2>1
<1>4. CASE (x \div n) + 1 =< q
  <2>1. n * ((x \div n) + 1) =< n * q
    BY <1>2, <1>4
  <2> QED
    BY <1>2, <2>1
<1> QED
  BY <1>2, <1>3, <1>4

\* The next index is one more, or wraps.
LEMMA ModSuccessor ==
  ASSUME NEW x \in Nat, NEW n \in Nat \ {0}
  PROVE  (x + 1) % n = IF x % n = n - 1 THEN 0 ELSE (x % n) + 1
<1> DEFINE q == x \div n
           r == x % n
<1>1. q \in Nat /\ r \in 0 .. n - 1 /\ x = n * q + r
  BY DivMod
<1> HIDE DEF q, r
<1>2. CASE r = n - 1
  <2>1. x + 1 = n * (q + 1) + 0
    BY <1>1, <1>2
  <2>2. (n * (q + 1) + 0) % n = 0
    BY <1>1, Remainder
  <2> QED
    BY <1>2, <2>1, <2>2 DEF r
<1>3. CASE r # n - 1
  <2>1. x + 1 = n * q + (r + 1) /\ r + 1 \in 0 .. n - 1
    BY <1>1, <1>3
  <2>2. (n * q + (r + 1)) % n = r + 1
    BY <1>1, <2>1, Remainder
  <2> QED
    BY <1>3, <2>1, <2>2 DEF r
<1> QED
  BY <1>2, <1>3

\* A number below the divisor is its own remainder.
LEMMA ModSmall == ASSUME NEW x \in Nat, NEW n \in Nat, x < n PROVE x % n = x
BY Z3

-----------------------------------------------------------------------------
(***************************************************************************)
(* The requests of the load balancer.                                      *)
(***************************************************************************)
\* A list that the registry answers is not empty and has known instances only.
LEMMA Listed ==
  ASSUME IsFiniteSet(Instances), RegistryTypeOK, NEW s \in Services, InstancesOf(s) # {},
         NEW list \in Iterations(InstancesOf(s))
  PROVE  /\ list \in Seq(Entry) /\ list # <<>>
         /\ \A k \in 1 .. Len(list) : HasBucket(s) /\ list[k].instance \in DOMAIN buckets[s]
<1> DEFINE S == InstancesOf(s)
<1>1. HasBucket(s) /\ DOMAIN buckets[s] \in SUBSET Instances
  BY DEF InstancesOf, RegistryTypeOK, HasBucket
<1>2. \A e \in S : e \in Entry /\ e.instance \in DOMAIN buckets[s]
  BY <1>1 DEF InstancesOf, RegistryTypeOK, HasBucket, Entry
<1>3. IsFiniteSet(S)
  <2> DEFINE f == [i \in DOMAIN buckets[s] |->
                     [service |-> s, instance |-> i, port |-> buckets[s][i]]]
  <2>1. IsFiniteSet(DOMAIN buckets[s])
    BY <1>1, FS_Subset
  <2>2. f \in Surjection(DOMAIN buckets[s], S)
    BY <1>1 DEF InstancesOf, Surjection
  <2> QED
    BY <2>1, <2>2, FS_Surjection
<1>4. Cardinality(S) \in Nat /\ Cardinality(S) # 0
  BY <1>3, FS_CardinalityType, FS_EmptySet
<1>5. list \in [1 .. Cardinality(S) -> S]
  BY DEF Iterations
<1> HIDE DEF S
<1>6. list \in Seq(S) /\ Len(list) = Cardinality(S)
  BY <1>4, <1>5
<1>7. list \in Seq(Entry)
  BY <1>2, <1>4, <1>5
<1> QED
  BY <1>1, <1>2, <1>4, <1>5, <1>6, <1>7

\* Every step keeps deregistered instances out of the lists of the load balancer.
LEMMA RequestsStep ==
  ASSUME DiscoveryAssumption, DInv, [Next]_allVars
  PROVE  RequestsRouted'
<1>1. gone \subseteq gone'
  <2>1. ASSUME NEW t \in Callers, CallReturns(t)
        PROVE  gone \subseteq gone'
    BY <2>1 DEF CallReturns
  <2>2. ASSUME NEW h \in Handlers, Route(h)
        PROVE  UNCHANGED gone
    BY <2>2 DEF Route, BeginRequest, LookUp, LookUpFails, SelectBackend, Proxied, managers
  <2>3. ASSUME NEW t \in Callers,
               \/ StartContainer(t) \/ RegisterInstance(t) \/ NoPortFound(t)
               \/ StopContainer(t) \/ CallFails(t)
        PROVE  UNCHANGED gone
    BY <2>3 DEF StartContainer, RegisterInstance, NoPortFound, StopContainer, CallFails
  <2>4. ASSUME \/ StopUnnamed \/ \E i \in Instances : ContainerExits(i)
               \/ Serve \/ OtherClient \/ RegistryCrashes \/ LoadBalancerCrashes
               \/ UNCHANGED allVars
        PROVE  UNCHANGED gone
    BY <2>4 DEF StopUnnamed, ContainerExits, Serve, OtherClient, RegistryCrashes,
                LoadBalancerCrashes, allVars, managers
  <2> QED
    BY <2>1, <2>2, <2>3, <2>4 DEF Next
<1>2. ASSUME NEW r, Routed(r)
      PROVE  Routed(r)'
  BY <1>1, <1>2 DEF Routed
<1>3. Routed(NoRequest)'
  BY DEF Routed, NoRequest
<1>4. CASE UNCHANGED request
  BY <1>2, <1>4 DEF DInv, RequestsRouted
<1>5. ASSUME NEW h \in Handlers, NEW r, Routed(r)', request' = [request EXCEPT ![h] = r]
      PROVE  RequestsRouted'
  BY <1>2, <1>5 DEF DInv, RequestsRouted
<1>6. ASSUME NEW h \in Handlers, BeginRequest(h)
      PROVE  RequestsRouted'
  <2>1. PICK s \in Services : request' = [request EXCEPT ![h] =
          [pc |-> "lookup", service |-> s, list |-> <<>>, target |-> 0,
           avoid |-> {i \in gone : Owner[i] = s}]]
    BY <1>6 DEF BeginRequest
  <2>2. PICK r : r = [pc |-> "lookup", service |-> s, list |-> <<>>, target |-> 0,
                      avoid |-> {i \in gone : Owner[i] = s}]
    OBVIOUS
  <2>3. Routed(r)'
    BY <1>1, <2>2 DEF Routed
  <2> QED
    BY <1>5, <2>1, <2>2, <2>3
<1>7. ASSUME NEW h \in Handlers, LookUp(h)
      PROVE  RequestsRouted'
  <2> DEFINE s == request[h].service
  <2>0. request[h].pc = "lookup" /\ LookupAllRequest(s) /\ Routed(request[h])
    BY <1>7 DEF LookUp, DInv, RequestsRouted
  <2>1. CASE request' = [request EXCEPT ![h] = NoRequest]
    BY <1>3, <1>5, <2>1
  <2>2. CASE /\ reply'.status # 404
             /\ request' = [request EXCEPT ![h] = [@ EXCEPT !.pc = "select", !.list = reply'.list]]
    <3>1. PICK list \in Iterations(InstancesOf(s)) :
            InstancesOf(s) # {} /\ reply' = [status |-> 200, list |-> list]
      BY <2>0, <2>2 DEF LookupAllRequest, Status
    <3>2. s \in Services
      BY <2>0 DEF Routed
    <3>3. /\ list \in Seq(Entry) /\ list # <<>>
          /\ \A k \in 1 .. Len(list) : HasBucket(s) /\ list[k].instance \in DOMAIN buckets[s]
      BY <3>1, <3>2, Listed DEF DInv, DiscoveryAssumption
    <3>4. ASSUME NEW k \in 1 .. Len(list) PROVE list[k].instance \notin request[h].avoid
      <4>1. \A i \in request[h].avoid : i \in gone /\ Owner[i] = s
        BY <2>0 DEF Routed
      <4>2. \A i \in gone : ~(HasBucket(Owner[i]) /\ i \in DOMAIN buckets[Owner[i]])
        BY DEF DInv, Calm, GoneIsOver, Over, Known
      <4> QED
        BY <3>3, <4>1, <4>2
    <3>5. PICK r : r = [request[h] EXCEPT !.pc = "select", !.list = list]
      OBVIOUS
    <3>6. /\ r.pc = "select" /\ r.list = list
          /\ r.service = request[h].service /\ r.avoid = request[h].avoid
      BY <3>5
    <3>7. Routed(r)'
      BY <1>1, <2>0, <3>3, <3>4, <3>6 DEF Routed
    <3>8. request' = [request EXCEPT ![h] = r]
      BY <2>2, <3>1, <3>5
    <3> QED
      BY <1>5, <3>7, <3>8
  <2> QED
    BY <1>7, <2>1, <2>2 DEF LookUp
<1>8. ASSUME NEW h \in Handlers, SelectBackend(h)
      PROVE  RequestsRouted'
  <2> DEFINE s == request[h].service
             list == request[h].list
             n == Len(list)
             index == next[s] % n
  <2>1. request[h].pc = "select" /\ Routed(request[h])
    BY <1>8 DEF SelectBackend, DInv, RequestsRouted
  <2>2. s \in Services /\ n \in Nat \ {0} /\ next[s] \in Nat
    BY <2>1 DEF Routed, DInv, CountersTyped
  <2>3. index \in 0 .. n - 1
    <3> HIDE DEF n
    <3> QED
      BY <2>2, ModBounds
  <2>4. list[index + 1].instance \notin request[h].avoid
    <3> HIDE DEF index, n
    <3>1. index + 1 \in 1 .. n
      BY <2>2, <2>3
    <3> QED
      BY <2>1, <3>1 DEF Routed, n
  <2> HIDE DEF index, n
  <2>5. PICK r : r = [request[h] EXCEPT
          !.pc = "proxy", !.list = <<>>, !.target = list[index + 1].instance]
    OBVIOUS
  <2>6. /\ r.pc = "proxy" /\ r.target \notin r.avoid
        /\ r.service = request[h].service /\ r.avoid = request[h].avoid
    BY <2>1, <2>4, <2>5 DEF Routed
  <2>7. Routed(r)'
    BY <1>1, <2>1, <2>6 DEF Routed
  <2>8. request' = [request EXCEPT ![h] = r]
    BY <1>8, <2>5 DEF SelectBackend, index, n
  <2> QED
    BY <1>5, <2>7, <2>8
<1>9. ASSUME NEW h \in Handlers, LookUpFails(h) \/ Proxied(h)
      PROVE  RequestsRouted'
  BY <1>3, <1>5, <1>9 DEF LookUpFails, Proxied
<1>10. CASE LoadBalancerCrashes
  BY <1>3, <1>10 DEF LoadBalancerCrashes, RequestsRouted
<1> QED
  BY <1>4, <1>6, <1>7, <1>8, <1>9, <1>10
  DEF Next, allVars, balancer, StartContainer, RegisterInstance, NoPortFound, StopContainer,
      StopUnnamed, ContainerExits, CallReturns, CallFails, Serve,
      Route, OtherClient, RegistryCrashes

\* Every step keeps the round-robin counters natural numbers.
LEMMA CountersStep ==
  ASSUME DiscoveryAssumption, DInv, [Next]_allVars
  PROVE  CountersTyped'
<1>1. ASSUME NEW h \in Handlers, SelectBackend(h)
      PROVE  CountersTyped'
  <2> DEFINE s == request[h].service
             n == Len(request[h].list)
  <2>1. s \in Services /\ n \in Nat \ {0}
    BY <1>1 DEF SelectBackend, DInv, RequestsRouted, Routed
  <2>2. next' = [next EXCEPT ![s] = (next[s] + 1) % n]
    BY <1>1 DEF SelectBackend, Advance
  <2> HIDE DEF s, n
  <2>3. (next[s] + 1) % n \in Nat
    <3>1. next[s] + 1 \in Nat
      BY <2>1 DEF DInv, CountersTyped
    <3> QED
      BY <2>1, <3>1, ModBounds
  <2> QED
    BY <2>2, <2>3 DEF DInv, CountersTyped
<1>2. CASE UNCHANGED next
  BY <1>2 DEF DInv, CountersTyped
<1>3. CASE LoadBalancerCrashes
  BY <1>3 DEF LoadBalancerCrashes, CountersTyped
<1> QED
  BY <1>1, <1>2, <1>3
  DEF Next, allVars, balancer, StartContainer, RegisterInstance, NoPortFound, StopContainer,
      StopUnnamed, ContainerExits, CallReturns, CallFails, Serve,
      Route, BeginRequest, LookUp, LookUpFails, Proxied, OtherClient, RegistryCrashes

\* The inductive invariant of the network, the registry and the load balancer.
LEMMA DInvHolds == Spec => []DInv
<1>1. Init => DInv
  BY DiscoveryAssumption
  DEF Init, RegistryInit, DInv, RegistryTypeOK, EmptyMap, Calm, ManagersTyped, SendersWait,
      RegistersOnce, StartsOnce, GoneIsOver, NoCall, Known, HasBucket, RequestsRouted, Routed, NoRequest,
      CountersTyped
<1>2. DInv /\ [Next]_allVars => DInv'
  BY DiscoveryAssumption, RegistryAssumption, RegistryStep, RegistryTypeStep, CalmStep,
     RequestsStep, CountersStep
  DEF DInv
<1> QED
  BY <1>1, <1>2, PTL DEF Spec

\* With all that happens around it, the registry keeps its tables in order.
THEOREM RegistryTypeCorrect == Spec => []RegistryTypeOK
BY DInvHolds, PTL DEF DInv

\* In the system of managers, registry and load balancer, too, every answer is
\* that of one set of entries.
THEOREM DiscoveryRefinesDirectory == Spec => ImplementsDirectory
<1>1. Init => D!Init
  BY NoBucketsNoEntries DEF Init, RegistryInit, D!Init, D!Status, Status
<1>2. DInv /\ [Next]_allVars => [D!Next]_(D!vars)
  BY DiscoveryAssumption, RegistryStep, RegistryNextStep
<1> QED
  BY <1>1, <1>2, DInvHolds, PTL DEF Spec, ImplementsDirectory, D!Spec

\* No request is routed to an instance that was deregistered before it came.
THEOREM GoneStaysUnrouted == Spec => []GoneIsNotRouted
<1>1. DInv => GoneIsNotRouted
  BY DEF DInv, RequestsRouted, Routed, GoneIsNotRouted
<1> QED
  BY <1>1, DInvHolds, PTL

-----------------------------------------------------------------------------
(***************************************************************************)
(* The round-robin.                                                        *)
(***************************************************************************)
\* The index d steps before x, counted round n.
Back(x, d, n) == IF x >= d THEN x - d ELSE x - d + n

\* The last selections, from n backends, count back from the next one.
CountBack(last, n, x) ==
  /\ n \in Nat /\ last \in Seq(Nat) /\ Len(last) <= n
  /\ n # 0 => x < n
  /\ \A k \in 1 .. Len(last) : last[k] = Back(x, Len(last) + 1 - k, n)

TurnsInOrder ==
  /\ DOMAIN turns = Services
  /\ \A s \in Services : CountBack(turns[s].last, turns[s].of, next[s])

\* Going on by one, every earlier index is one step further back.
LEMMA BackNext ==
  ASSUME NEW n \in Nat, NEW x \in Nat, x < n, NEW y, y = IF x = n - 1 THEN 0 ELSE x + 1,
         NEW d \in Nat, d < n
  PROVE  Back(y, d + 1, n) = Back(x, d, n)
<1>1. CASE x = n - 1
  BY <1>1 DEF Back
<1>2. CASE x # n - 1
  BY <1>2 DEF Back
<1> QED
  BY <1>1, <1>2

\* One selection back from the next index, around the end of the list, is the index.
LEMMA BackOne ==
  ASSUME NEW n \in Nat \ {0}, NEW i \in 0 .. n - 1, NEW y, y = IF i = n - 1 THEN 0 ELSE i + 1
  PROVE  Back(y, 1, n) = i /\ y \in Nat /\ y < n
<1>1. CASE i = n - 1
  BY <1>1 DEF Back
<1>2. CASE i # n - 1
  BY <1>2 DEF Back
<1> QED
  BY <1>1, <1>2

\* One more selection from the same number of backends.
LEMMA AppendInOrder ==
  ASSUME NEW last, NEW n \in Nat \ {0}, NEW x \in Nat, CountBack(last, n, x), NEW all,
         all = Append(last, x), NEW y, y = IF x = n - 1 THEN 0 ELSE x + 1
  PROVE  CountBack(IF Len(all) > n THEN Tail(all) ELSE all, n, y)
<1> DEFINE len == Len(last)
<1>1. last \in Seq(Nat) /\ len \in Nat /\ len <= n /\ x < n /\ x \in 0 .. n - 1
  BY DEF CountBack
<1>2. /\ all \in Seq(Nat) /\ Len(all) = len + 1 /\ all[len + 1] = x
      /\ \A k \in 1 .. len : all[k] = last[k]
  BY <1>1
<1>3. \A k \in 1 .. len : all[k] = Back(x, len + 1 - k, n)
  BY <1>2 DEF CountBack
<1>4. Back(y, 1, n) = x /\ y \in Nat /\ y < n
  BY <1>1, BackOne
<1> HIDE DEF len
<1>5. ASSUME NEW k \in 1 .. len + 1, len + 2 - k <= n
      PROVE  all[k] = Back(y, len + 2 - k, n)
  <2>1. CASE k = len + 1
    <3>1. len + 2 - k = 1
      BY <1>1, <2>1
    <3> QED
      BY <1>2, <1>4, <2>1, <3>1
  <2>2. CASE k \in 1 .. len
    <3>1. len + 1 - k \in Nat /\ len + 1 - k < n /\ (len + 1 - k) + 1 = len + 2 - k
      BY <1>1, <1>5, <2>2
    <3>2. Back(y, (len + 1 - k) + 1, n) = Back(x, len + 1 - k, n)
      BY <1>1, <3>1, BackNext
    <3> QED
      BY <1>3, <2>2, <3>1, <3>2
  <2>3. k = len + 1 \/ k \in 1 .. len
    BY <1>1
  <2> QED
    BY <2>1, <2>2, <2>3
<1>6. CASE len < n
  <2>1. CountBack(all, n, y)
    <3> SUFFICES ASSUME NEW k \in 1 .. Len(all) PROVE all[k] = Back(y, Len(all) + 1 - k, n)
      BY <1>1, <1>2, <1>4, <1>6 DEF CountBack
    <3>1. k \in 1 .. len + 1 /\ Len(all) + 1 - k = len + 2 - k /\ len + 2 - k <= n
      BY <1>1, <1>2, <1>6
    <3> QED
      BY <1>5, <3>1
  <2>2. ~(Len(all) > n)
    BY <1>1, <1>2, <1>6
  <2> QED
    BY <2>1, <2>2
<1>7. CASE len = n
  <2>1. PICK rest : rest = Tail(all)
    OBVIOUS
  <2>2. rest \in Seq(Nat) /\ Len(rest) = n /\ \A k \in 1 .. n : rest[k] = all[k + 1]
    <3>1. all # <<>>
      BY <1>1, <1>2
    <3>2. /\ rest \in Seq(Nat) /\ Len(rest) = Len(all) - 1
          /\ \A k \in 1 .. Len(rest) : rest[k] = all[k + 1]
      BY <1>2, <2>1, <3>1, HeadTailProperties
    <3> QED
      BY <1>1, <1>2, <1>7, <3>2
  <2>3. ASSUME NEW k \in 1 .. n PROVE rest[k] = Back(y, n + 1 - k, n)
    <3>1. k + 1 \in 1 .. len + 1 /\ len + 2 - (k + 1) = n + 1 - k /\ len + 2 - (k + 1) <= n
      BY <1>7
    <3>2. all[k + 1] = Back(y, len + 2 - (k + 1), n)
      BY <1>5, <3>1
    <3> QED
      BY <2>2, <3>1, <3>2
  <2>4. CountBack(rest, n, y)
    BY <1>4, <2>2, <2>3 DEF CountBack
  <2>5. Len(all) > n
    BY <1>1, <1>2, <1>7
  <2> QED
    BY <2>1, <2>4, <2>5
<1> QED
  BY <1>1, <1>6, <1>7

\* A further selection continues the count back from the counter.
LEMMA RecentInOrder ==
  ASSUME NEW turn, NEW x \in Nat, NEW n \in Nat \ {0}, CountBack(turn.last, turn.of, x),
         NEW new, new = Recent(turn, x % n, n)
  PROVE  CountBack(new.last, new.of, (x + 1) % n)
<1>1. PICK i \in 0 .. n - 1 : i = x % n
  BY ModBounds
<1>2. PICK y : y = (x + 1) % n
  OBVIOUS
<1>3. y = IF i = n - 1 THEN 0 ELSE i + 1
  BY <1>1, <1>2, ModSuccessor
<1>4. CASE turn.of = n
  <2>1. PICK all : all = Append(turn.last, i)
    OBVIOUS
  <2>2. i = x
    BY <1>1, <1>4, ModSmall DEF CountBack
  <2>3. new.of = n /\ new.last = IF Len(all) > n THEN Tail(all) ELSE all
    BY <1>1, <1>4, <2>1 DEF Recent
  <2>4. CountBack(IF Len(all) > n THEN Tail(all) ELSE all, n, y)
    BY <1>3, <1>4, <2>1, <2>2, AppendInOrder
  <2> QED
    BY <1>2, <2>3, <2>4
<1>5. CASE turn.of # n
  <2>1. new.of = n /\ new.last = <<i>>
    BY <1>1, <1>5 DEF Recent
  <2>2. Back(y, 1, n) = i /\ y \in Nat /\ y < n
    BY <1>3, BackOne
  <2>3. CountBack(<<i>>, n, y)
    BY <2>2 DEF CountBack
  <2> QED
    BY <1>2, <2>1, <2>3
<1> QED
  BY <1>4, <1>5

\* Before the first selection there is nothing to count.
LEMMA NoTurnsInOrder == CountBack(NoTurns.last, NoTurns.of, 0)
<1>1. NoTurns.last = <<>> /\ NoTurns.of = 0
  BY DEF NoTurns
<1>2. CountBack(<<>>, 0, 0)
  BY DEF CountBack
<1> QED
  BY <1>1, <1>2

\* Every step keeps the last selections in turn.
LEMMA TurnsStep ==
  ASSUME DiscoveryAssumption, DInv, TurnsInOrder, [Next]_allVars
  PROVE  TurnsInOrder'
<1>1. ASSUME NEW h \in Handlers, SelectBackend(h)
      PROVE  TurnsInOrder'
  <2> DEFINE s == request[h].service
             n == Len(request[h].list)
  <2>1. s \in Services /\ n \in Nat \ {0}
    BY <1>1 DEF SelectBackend, DInv, RequestsRouted, Routed
  <2>2. /\ next' = [next EXCEPT ![s] = (next[s] + 1) % n]
        /\ turns' = [turns EXCEPT ![s] = Recent(turns[s], next[s] % n, n)]
    BY <1>1 DEF SelectBackend, Advance
  <2> HIDE DEF s, n
  <2>3. PICK new : new = Recent(turns[s], next[s] % n, n)
    OBVIOUS
  <2>4. CountBack(new.last, new.of, (next[s] + 1) % n)
    BY <2>1, <2>3, RecentInOrder DEF TurnsInOrder, DInv, CountersTyped
  <2>5. /\ DOMAIN turns' = Services
        /\ turns'[s] = new /\ next'[s] = (next[s] + 1) % n
        /\ \A r \in Services : r # s => turns'[r] = turns[r] /\ next'[r] = next[r]
    BY <2>1, <2>2, <2>3 DEF TurnsInOrder, DInv, CountersTyped
  <2> QED
    BY <2>4, <2>5 DEF TurnsInOrder
<1>2. CASE UNCHANGED <<next, turns>>
  BY <1>2 DEF TurnsInOrder
<1>3. CASE LoadBalancerCrashes
  BY <1>3, NoTurnsInOrder DEF LoadBalancerCrashes, TurnsInOrder
<1> QED
  BY <1>1, <1>2, <1>3
  DEF Next, allVars, balancer, StartContainer, RegisterInstance, NoPortFound, StopContainer,
      StopUnnamed, ContainerExits, CallReturns, CallFails, Serve,
      Route, BeginRequest, LookUp, LookUpFails, Proxied, OtherClient, RegistryCrashes

\* As long as a service has n backends, n selections in a row are of n different
\* indices.
THEOREM IndicesTakeTurns == Spec => []EveryIndexInTurn
<1>1. Init => TurnsInOrder
  BY NoTurnsInOrder DEF Init, TurnsInOrder
<1>2. DInv /\ TurnsInOrder /\ [Next]_allVars => TurnsInOrder'
  BY DiscoveryAssumption, TurnsStep
<1>3. DInv /\ TurnsInOrder => EveryIndexInTurn
  <2> SUFFICES ASSUME DInv, TurnsInOrder, NEW s \in Services,
                      NEW j \in DOMAIN turns[s].last, NEW k \in DOMAIN turns[s].last, j # k
               PROVE  turns[s].last[j] # turns[s].last[k]
    BY DEF EveryIndexInTurn
  <2>1. PICK last, n, x : last = turns[s].last /\ n = turns[s].of /\ x = next[s]
    OBVIOUS
  <2>2. CountBack(last, n, x) /\ x \in Nat
    BY <2>1 DEF TurnsInOrder, DInv, CountersTyped
  <2>3. j \in DOMAIN last /\ k \in DOMAIN last
    BY <2>1
  <2>4. /\ j \in 1 .. Len(last) /\ k \in 1 .. Len(last)
        /\ n \in Nat /\ Len(last) \in Nat /\ Len(last) <= n /\ x < n
    BY <2>2, <2>3 DEF CountBack
  <2>5. last[j] = Back(x, Len(last) + 1 - j, n) /\ last[k] = Back(x, Len(last) + 1 - k, n)
    BY <2>2, <2>4 DEF CountBack
  <2>6. PICK a, b : a = Len(last) + 1 - j /\ b = Len(last) + 1 - k
    OBVIOUS
  <2>7. a \in 1 .. n /\ b \in 1 .. n /\ a # b
    <3>1. PICK l : l = Len(last)
      OBVIOUS
    <3>2. /\ j \in 1 .. l /\ k \in 1 .. l /\ n \in Nat /\ l \in Nat /\ l <= n
          /\ a = l + 1 - j /\ b = l + 1 - k
      BY <2>4, <2>6, <3>1
    <3>3. a \in 1 .. n /\ b \in 1 .. n
      BY <3>2
    <3>4. j \in Int /\ k \in Int
      BY <3>2
    <3> QED
      BY <3>2, <3>3, <3>4
  <2>8. Back(x, a, n) # Back(x, b, n)
    BY <2>2, <2>4, <2>7 DEF Back
  <2> QED
    BY <2>1, <2>5, <2>6, <2>8
<1> QED
  BY <1>1, <1>2, <1>3, DInvHolds, PTL DEF Spec

-----------------------------------------------------------------------------
(***************************************************************************)
(* The registry and Docker.                                                *)
(***************************************************************************)
\* The bucket of a service holds its replicas.
OwnBuckets == \A s \in DOMAIN buckets : \A i \in DOMAIN buckets[s] : s = Owner[i]

Pending(op, i) == \E m \in net : m.op = op /\ m.id = i

Here(i) == container[i] \in {"running", "exited"}

Stopped(i) == container[i] \in {"stopped", "removed"}

\* An instance that runs or ended on its own is known, or about to be.
Kept(i) == (Here(i) /\ i \notin missed) => Known(i) \/ Unserved(i)

\* One that was stopped is not known, or about to be forgotten, and nothing is
\* under way to undo that.
Dropped(i) ==
  (Stopped(i) /\ i \notin leftover) =>
    ~Unserved(i) /\ ~Pending("register", i) /\ (Known(i) => Pending("deregister", i))

\* Only stopped instances are deregistered.
StopsFirst ==
  /\ \A m \in net : m.op = "deregister" => Stopped(m.id)
  /\ \A t \in Callers : call[t].op = "deregister" => Stopped(call[t].id)

\* A registration that nobody waits for any more may be served at any time.
LateOnes == \A m \in net : (m.op = "register" /\ m.from = Nobody) => m.id \in leftover

InStep == \A i \in Instances : Kept(i) /\ Dropped(i)

StepInv == OwnBuckets /\ StopsFirst /\ LateOnes /\ InStep

\* A registration adds one entry, a deregistration removes one.
LEMMA RegisterAdds ==
  ASSUME NEW i, NEW p, p > 0, p \in Int, RegisterRequest(Owner[i], i, p)
  PROVE  Known(i)' /\ (OwnBuckets => OwnBuckets') /\ \A j : Known(j) => Known(j)'
<1> DEFINE bucket == Put(BucketFor(Owner[i]), i, p)
<1>1. buckets' = Put(buckets, Owner[i], bucket)
  BY DEF RegisterRequest
<1>2. /\ DOMAIN bucket = (IF HasBucket(Owner[i]) THEN DOMAIN buckets[Owner[i]] ELSE {}) \cup {i}
  BY DEF Put, BucketFor, EmptyMap
<1> HIDE DEF bucket
<1>3. /\ DOMAIN buckets' = DOMAIN buckets \cup {Owner[i]} /\ buckets'[Owner[i]] = bucket
      /\ \A r \in DOMAIN buckets : r # Owner[i] => buckets'[r] = buckets[r]
  BY <1>1 DEF Put
<1>4. Known(i)' /\ \A j : Known(j) => Known(j)'
  BY <1>2, <1>3 DEF Known, HasBucket
<1>5. OwnBuckets => OwnBuckets'
  BY <1>2, <1>3 DEF OwnBuckets, HasBucket
<1> QED
  BY <1>4, <1>5

\* Of the entries only that of the instance is removed.
LEMMA DeregisterRemoves ==
  ASSUME NEW i, DeregisterRequest(Owner[i], i)
  PROVE  ~Known(i)' /\ (OwnBuckets => OwnBuckets') /\ \A j : (j # i /\ Known(j)) => Known(j)'
<1>1. CASE UNCHANGED buckets /\ ~Known(i)
  BY <1>1 DEF Known, HasBucket, OwnBuckets
<1>2. CASE /\ HasBucket(Owner[i]) /\ i \in DOMAIN buckets[Owner[i]]
           /\ buckets' = Remove(Owner[i], i)
  <2>1. CASE DOMAIN buckets[Owner[i]] = {i}
    BY <1>2, <2>1 DEF Remove, Without, Known, HasBucket, OwnBuckets
  <2>2. CASE DOMAIN buckets[Owner[i]] # {i}
    <3> DEFINE bucket == Without(buckets[Owner[i]], i)
    <3>1. buckets' = Put(buckets, Owner[i], bucket)
      BY <1>2, <2>2 DEF Remove
    <3>2. DOMAIN bucket = DOMAIN buckets[Owner[i]] \ {i}
      BY DEF Without
    <3> HIDE DEF bucket
    <3>3. /\ DOMAIN buckets' = DOMAIN buckets /\ buckets'[Owner[i]] = bucket
          /\ \A r \in DOMAIN buckets : r # Owner[i] => buckets'[r] = buckets[r]
      BY <1>2, <3>1 DEF Put, HasBucket
    <3> QED
      BY <3>2, <3>3 DEF Known, HasBucket, OwnBuckets
  <2> QED
    BY <2>1, <2>2
<1> QED
  BY <1>1, <1>2 DEF DeregisterRequest, Known

\* Every bucket holds the replicas of its service.
LEMMA OwnBucketsStep ==
  ASSUME RegistryAssumption, DiscoveryAssumption, DInv, OwnBuckets, [Next]_allVars
  PROVE  OwnBuckets'
<1>1. CASE UNCHANGED buckets
  BY <1>1 DEF OwnBuckets
<1>2. CASE Serve
  <2>1. PICK m \in net :
          \/ \E p \in Ports : p > 0 /\ RegisterRequest(Owner[m.id], m.id, p)
          \/ DeregisterRequest(Owner[m.id], m.id)
    BY <1>2 DEF Serve
  <2> QED
    BY <2>1, RegisterAdds, DeregisterRemoves DEF RegistryAssumption
<1>3. CASE RegistryCrashes
  BY <1>3 DEF RegistryCrashes, RegistryRestart, EmptyMap, OwnBuckets
<1>4. CASE OtherClient
  BY <1>1, <1>4 DEF OtherClient, LookupRequest, RegisterRequest, RegistryAssumption
<1>5. ASSUME NEW h \in Handlers, Route(h) PROVE UNCHANGED buckets
  BY <1>5 DEF Route, BeginRequest, LookUp, LookUpFails, SelectBackend, Proxied, LookupAllRequest,
     registryVars
<1> QED
  BY <1>1, <1>2, <1>3, <1>4, <1>5
  DEF Next, allVars, registryVars, StartContainer, RegisterInstance, NoPortFound, StopContainer,
      StopUnnamed, ContainerExits, CallReturns, CallFails, LoadBalancerCrashes

\* A registration that is pending has its call, or its instance is excused.
LEMMA PendingIsUnserved ==
  ASSUME Calm, LateOnes, NEW i, Pending("register", i)
  PROVE  Unserved(i) \/ i \in leftover
BY DEF Calm, ManagersTyped, Message, SendersWait, LateOnes, Pending, Unserved

\* An instance that a step has nothing to do with stays in step.
LEMMA StaysInStep ==
  ASSUME NEW i, Kept(i), Dropped(i),
         Here(i)' => Here(i), Stopped(i)' => Stopped(i),
         missed \subseteq missed', leftover \subseteq leftover',
         Known(i)' <=> Known(i), Unserved(i)' <=> Unserved(i),
         Pending("register", i)' => Pending("register", i),
         Pending("deregister", i) => Pending("deregister", i)'
  PROVE  Kept(i)' /\ Dropped(i)'
BY DEF Kept, Dropped

\* A caller that was idle has nothing unserved, nor on its way.
LEMMA IdleCaller ==
  ASSUME DiscoveryAssumption, Calm, NEW t \in Callers, call[t].pc = "idle"
  PROVE  call[t] = NoCall /\ \A m \in net : m.from # t
BY DEF DiscoveryAssumption, Calm, ManagersTyped, SendersWait, Message, NoCall, Inspecting, Sent, Answered

\* A start: the instance is about to be registered.
LEMMA StartInStep ==
  ASSUME DiscoveryAssumption, Calm, StopsFirst, LateOnes, InStep,
         NEW t \in Callers, StartContainer(t)
  PROVE  StopsFirst' /\ LateOnes' /\ InStep'
<1> DEFINE c0(i) == [pc |-> "inspect", op |-> "register", id |-> i, status |-> 0]
<1>1. PICK i \in Instances :
        /\ container[i] = "none"
        /\ container' = [container EXCEPT ![i] = "running"]
        /\ call' = [call EXCEPT ![t] = c0(i)]
  BY DEF StartContainer
<1>2. c0(i).pc = "inspect" /\ c0(i).op = "register" /\ c0(i).id = i
  OBVIOUS
<1> HIDE DEF c0
<1>3. UNCHANGED <<buckets, net, missed, leftover>> /\ call[t] = NoCall
  BY IdleCaller DEF StartContainer, registryVars
<1>4. /\ call'[t] = c0(i) /\ \A u \in Callers : u # t => call'[u] = call[u]
      /\ container'[i] = "running" /\ \A j \in Instances : j # i => container'[j] = container[j]
  BY <1>1 DEF Calm, ManagersTyped
<1>5. ASSUME NEW j \in Instances, j # i PROVE Kept(j)' /\ Dropped(j)'
  <2>1. Unserved(j)' <=> Unserved(j)
    BY <1>2, <1>3, <1>4, <1>5 DEF Unserved, NoCall
  <2> QED
    BY <1>3, <1>4, <1>5, <2>1, SameKnown, StaysInStep DEF InStep, Here, Stopped, Pending
<1>6. Kept(i)' /\ Dropped(i)'
  BY <1>2, <1>4 DEF Kept, Dropped, Unserved, Stopped
<1>7. StopsFirst'
  <2>1. ~Stopped(i)
    BY <1>1 DEF Stopped
  <2>2. \A m \in net : m.id \in Instances
    BY DEF Calm, ManagersTyped, Message
  <2>3. \A u \in Callers : call[u].op = "deregister" => call[u].id \in Instances
    BY DEF Calm, ManagersTyped, NoCall, Inspecting, Sent, Answered
  <2> QED
    BY <1>2, <1>3, <1>4, <2>1, <2>2, <2>3 DEF StopsFirst, Stopped
<1> QED
  BY <1>3, <1>5, <1>6, <1>7 DEF InStep, LateOnes

\* The registration is on its way; its call still waits.
LEMMA RegisterSentInStep ==
  ASSUME DiscoveryAssumption, Calm, StopsFirst, LateOnes, InStep,
         NEW t \in Callers, RegisterInstance(t)
  PROVE  StopsFirst' /\ LateOnes' /\ InStep'
<1> DEFINE i == call[t].id
           m0 == [from |-> t, op |-> "register", id |-> i]
           c0 == [pc |-> "sent", op |-> "register", id |-> i, status |-> 0]
<1>1. call[t].pc = "inspect" /\ call[t] \in Inspecting
  BY DEF RegisterInstance, Calm, ManagersTyped, NoCall, Inspecting, Sent, Answered
<1>2. net' = net \cup {m0} /\ call' = [call EXCEPT ![t] = c0]
  BY DEF RegisterInstance, Send
<1>3. /\ m0.from = t /\ m0.op = "register" /\ m0.id = i
      /\ c0.pc = "sent" /\ c0.op = "register" /\ c0.id = i
      /\ call[t].op = "register"
  BY <1>1 DEF Inspecting
<1>4. UNCHANGED <<buckets, container, missed, leftover>>
  BY DEF RegisterInstance, registryVars
<1> HIDE DEF m0, c0
<1>5. call'[t] = c0 /\ \A u \in Callers : u # t => call'[u] = call[u]
  BY <1>2 DEF Calm, ManagersTyped
<1>6. \A j : Unserved(j)' <=> Unserved(j)
  BY <1>1, <1>3, <1>5 DEF Unserved
<1>7. Unserved(i)
  BY <1>1, <1>3 DEF Unserved
<1>8. ASSUME NEW j \in Instances PROVE Kept(j)' /\ Dropped(j)'
  <2>1. CASE j # i
    <3>1. Pending("register", j)' => Pending("register", j)
      BY <1>2, <1>3, <2>1 DEF Pending
    <3>2. Pending("deregister", j) => Pending("deregister", j)'
      BY <1>2 DEF Pending
    <3> QED
      BY <1>4, <1>6, <3>1, <3>2, SameKnown, StaysInStep DEF InStep, Here, Stopped
  <2>2. CASE j = i
    <3>1. Kept(i) /\ Dropped(i)
      BY <1>8, <2>2 DEF InStep
    <3> QED
      BY <1>4, <1>6, <1>7, <2>2, <3>1 DEF Kept, Dropped, Here, Stopped
  <2> QED
    BY <2>1, <2>2
<1>9. StopsFirst' /\ LateOnes'
  BY <1>2, <1>3, <1>4, <1>5 DEF StopsFirst, LateOnes, Stopped, DiscoveryAssumption
<1> QED
  BY <1>8, <1>9 DEF InStep

\* A start that returns without a registration excuses its instance.
LEMMA NoPortInStep ==
  ASSUME DiscoveryAssumption, Calm, StopsFirst, LateOnes, InStep,
         NEW t \in Callers, NoPortFound(t)
  PROVE  StopsFirst' /\ LateOnes' /\ InStep'
<1> DEFINE i == call[t].id
<1>1. /\ call' = [call EXCEPT ![t] = NoCall] /\ missed' = missed \cup {i}
      /\ UNCHANGED <<buckets, container, net, leftover>>
  BY DEF NoPortFound, registryVars
<1> HIDE DEF i
<1>2. call'[t] = NoCall /\ \A u \in Callers : u # t => call'[u] = call[u]
  BY <1>1 DEF Calm, ManagersTyped
<1>3. NoCall.pc = "idle" /\ NoCall.op = "none"
  BY DEF NoCall
<1>4. \A j : Unserved(j)' => Unserved(j)
  BY <1>2, <1>3 DEF Unserved
<1>5. \A j : (j # i /\ Unserved(j)) => Unserved(j)'
  BY <1>2 DEF Unserved, i
<1>6. ASSUME NEW j \in Instances PROVE Kept(j)' /\ Dropped(j)'
  <2>1. Kept(j) /\ Dropped(j)
    BY <1>6 DEF InStep
  <2> QED
    BY <1>1, <1>4, <1>5, <2>1, SameKnown DEF Kept, Dropped, Here, Stopped, Pending
<1>7. StopsFirst' /\ LateOnes'
  BY <1>1, <1>2, <1>3 DEF StopsFirst, LateOnes, Stopped
<1> QED
  BY <1>6, <1>7 DEF InStep

\* A stop: the registration was served, or the instance is excused.
LEMMA StopInStep ==
  ASSUME DiscoveryAssumption, Calm, StopsFirst, LateOnes, InStep,
         NEW t \in Callers, StopContainer(t)
  PROVE  StopsFirst' /\ LateOnes' /\ InStep'
<1>1. PICK i \in Instances :
        /\ container[i] \in {"running", "exited", "stopped"}
        /\ container' = [container EXCEPT ![i] = "stopped"]
        /\ leftover' = IF Unserved(i) THEN leftover \cup {i} ELSE leftover
        /\ Send(t, "deregister", i)
  BY DEF StopContainer
<1> DEFINE m0 == [from |-> t, op |-> "deregister", id |-> i]
           c0 == [pc |-> "sent", op |-> "deregister", id |-> i, status |-> 0]
<1>2. net' = net \cup {m0} /\ call' = [call EXCEPT ![t] = c0]
  BY <1>1 DEF Send
<1>3. /\ m0.from = t /\ m0.op = "deregister" /\ m0.id = i
      /\ c0.op = "deregister" /\ c0.id = i
  OBVIOUS
<1>4. UNCHANGED <<buckets, missed>> /\ call[t] = NoCall
  BY IdleCaller DEF StopContainer, registryVars
<1> HIDE DEF m0, c0
<1>5. /\ call'[t] = c0 /\ \A u \in Callers : u # t => call'[u] = call[u]
      /\ container'[i] = "stopped" /\ \A j \in Instances : j # i => container'[j] = container[j]
  BY <1>1, <1>2 DEF Calm, ManagersTyped
<1>6. \A j : Unserved(j)' <=> Unserved(j)
  BY <1>3, <1>4, <1>5 DEF Unserved, NoCall
<1>7. /\ \A j : Pending("register", j)' => Pending("register", j)
      /\ \A j : Pending("deregister", j) => Pending("deregister", j)'
      /\ Pending("deregister", i)'
  BY <1>2, <1>3 DEF Pending
<1>8. leftover \subseteq leftover'
  BY <1>1
<1>9. ASSUME NEW j \in Instances, j # i PROVE Kept(j)' /\ Dropped(j)'
  BY <1>4, <1>5, <1>6, <1>7, <1>8, <1>9, SameKnown, StaysInStep DEF InStep, Here, Stopped
<1>10. Kept(i)'
  BY <1>5 DEF Kept, Here
<1>11. Dropped(i)'
  <2> SUFFICES ASSUME i \notin leftover'
               PROVE  ~Unserved(i)' /\ ~Pending("register", i)' /\ Pending("deregister", i)'
    BY DEF Dropped
  <2>1. ~Unserved(i) /\ i \notin leftover
    BY <1>1
  <2>2. ~Pending("register", i)
    BY <2>1, PendingIsUnserved
  <2> QED
    BY <1>6, <1>7, <2>1, <2>2
<1>12. StopsFirst'
  <2>1. \A m \in net : m.id \in Instances
    BY DEF Calm, ManagersTyped, Message
  <2>2. \A u \in Callers : call[u].op = "deregister" => call[u].id \in Instances
    BY DEF Calm, ManagersTyped, NoCall, Inspecting, Sent, Answered
  <2> QED
    BY <1>2, <1>3, <1>5, <2>1, <2>2 DEF StopsFirst, Stopped
<1>13. LateOnes'
  BY <1>2, <1>3, <1>8 DEF LateOnes
<1> QED
  BY <1>9, <1>10, <1>11, <1>12, <1>13 DEF InStep

\* A stop without a name excuses its instance; one that ends on its own stays
\* as it is.
LEMMA SilentInStep ==
  ASSUME Calm, StopsFirst, LateOnes, InStep, StopUnnamed \/ \E i \in Instances : ContainerExits(i)
  PROVE  StopsFirst' /\ LateOnes' /\ InStep'
<1>1. PICK i \in Instances :
        /\ \/ /\ Here(i) \/ Stopped(i)
              /\ \E left \in {"stopped", "removed"} : container' = [container EXCEPT ![i] = left]
              /\ leftover' = leftover \cup {i}
           \/ /\ container[i] = "running" /\ container' = [container EXCEPT ![i] = "exited"]
              /\ UNCHANGED leftover
        /\ UNCHANGED <<buckets, call, net, missed>>
  BY DEF StopUnnamed, ContainerExits, Here, Stopped, registryVars
<1>2. \A j : /\ Unserved(j)' <=> Unserved(j)
             /\ Known(j)' <=> Known(j)
             /\ Pending("register", j)' <=> Pending("register", j)
             /\ Pending("deregister", j)' <=> Pending("deregister", j)
  BY <1>1, SameKnown DEF Unserved, Pending
<1>3. /\ \A j \in Instances : j # i => container'[j] = container[j]
      /\ \/ container'[i] \in {"stopped", "removed"} /\ i \in leftover'
         \/ container[i] = "running" /\ container'[i] = "exited"
      /\ leftover \subseteq leftover'
  BY <1>1 DEF Calm, ManagersTyped
<1>4. ASSUME NEW j \in Instances, j # i PROVE Kept(j)' /\ Dropped(j)'
  BY <1>1, <1>2, <1>3, <1>4, StaysInStep DEF InStep, Here, Stopped
<1>5. Kept(i)' /\ Dropped(i)'
  BY <1>1, <1>2, <1>3 DEF InStep, Kept, Dropped, Here, Stopped
<1>6. \A j \in Instances : Stopped(j) => Stopped(j)'
  BY <1>3 DEF Stopped
<1>7. StopsFirst'
  <2>1. \A m \in net : m.id \in Instances
    BY DEF Calm, ManagersTyped, Message
  <2>2. \A u \in Callers : call[u].op = "deregister" => call[u].id \in Instances
    BY DEF Calm, ManagersTyped, NoCall, Inspecting, Sent, Answered
  <2> QED
    BY <1>1, <1>6, <2>1, <2>2 DEF StopsFirst
<1>8. LateOnes'
  BY <1>1, <1>3 DEF LateOnes
<1> QED
  BY <1>4, <1>5, <1>7, <1>8 DEF InStep

\* The registry serves what is pending: a registration of an instance that is
\* here or excused, or a deregistration of one that is stopped.
LEMMA ServeInStep ==
  ASSUME RegistryAssumption, DiscoveryAssumption, Calm, StopsFirst, LateOnes, InStep, Serve
  PROVE  StopsFirst' /\ LateOnes' /\ InStep'
<1>1. PICK m \in net :
        /\ \/ m.op = "register" /\ \E p \in Ports : p > 0 /\ RegisterRequest(Owner[m.id], m.id, p)
           \/ m.op = "deregister" /\ DeregisterRequest(Owner[m.id], m.id)
        /\ net' = net \ {m}
        /\ call' = IF m.from = Nobody THEN call
                   ELSE [call EXCEPT ![m.from] =
                     [pc |-> "answered", op |-> m.op, id |-> m.id, status |-> reply'.status]]
  BY DEF Serve
<1>2. UNCHANGED <<container, missed, leftover>> /\ m.id \in Instances
  BY DEF Serve, Calm, ManagersTyped, Message
<1>3. \A u \in Callers :
        /\ call'[u].op = call[u].op /\ call'[u].id = call[u].id
        /\ call'[u] = call[u] \/ (call[u].id = m.id /\ call[u].op = m.op /\ call'[u].pc = "answered")
  <2> DEFINE c0 == [pc |-> "answered", op |-> m.op, id |-> m.id, status |-> reply'.status]
  <2>1. c0.op = m.op /\ c0.id = m.id /\ c0.pc = "answered"
    OBVIOUS
  <2>2. CASE m.from = Nobody
    BY <1>1, <2>2
  <2>3. CASE m.from # Nobody
    <3>1. m.from \in Callers /\ call[m.from].op = m.op /\ call[m.from].id = m.id
      BY <2>3 DEF Calm, ManagersTyped, Message, SendersWait
    <3>2. call' = [call EXCEPT ![m.from] = c0]
      BY <1>1, <2>3
    <3> HIDE DEF c0
    <3> QED
      BY <2>1, <3>1, <3>2 DEF Calm, ManagersTyped
  <2> QED
    BY <2>2, <2>3
<1>4. \A j : Unserved(j)' => Unserved(j)
  BY <1>3 DEF Unserved
<1>5. \A j : (Unserved(j) /\ (j # m.id \/ m.op # "register")) => Unserved(j)'
  BY <1>3 DEF Unserved
<1>6. /\ \A j : Pending("register", j)' => Pending("register", j)
      /\ \A j : (j # m.id \/ m.op # "deregister") =>
           (Pending("deregister", j) => Pending("deregister", j)')
  BY <1>1 DEF Pending
<1>7. StopsFirst' /\ LateOnes'
  BY <1>1, <1>2, <1>3 DEF StopsFirst, LateOnes, Stopped
<1>8. CASE m.op = "register" /\ \E p \in Ports : p > 0 /\ RegisterRequest(Owner[m.id], m.id, p)
  <2>1. /\ Known(m.id)' /\ \A j : Known(j) => Known(j)'
        /\ \A j : Known(j)' => Known(j) \/ j = m.id
    BY <1>8, RegisterAdds, RegisterKnown DEF RegistryAssumption
  <2>2. ASSUME NEW j \in Instances, j # m.id PROVE Kept(j)' /\ Dropped(j)'
    BY <1>2, <1>4, <1>5, <1>6, <2>1, <2>2, StaysInStep DEF InStep, Here, Stopped
  <2>3. Kept(m.id)'
    BY <2>1 DEF Kept
  <2>4. Pending("register", m.id)
    BY <1>8 DEF Pending
  <2>5. Dropped(m.id)'
    BY <1>2, <2>4 DEF InStep, Dropped, Stopped
  <2> QED
    BY <1>7, <2>2, <2>3, <2>5 DEF InStep
<1>9. CASE m.op = "deregister" /\ DeregisterRequest(Owner[m.id], m.id)
  <2>1. /\ ~Known(m.id)' /\ \A j : (j # m.id /\ Known(j)) => Known(j)'
        /\ \A j : Known(j)' => Known(j)
    BY <1>9, DeregisterRemoves, DeregisterKnown
  <2>2. ASSUME NEW j \in Instances, j # m.id PROVE Kept(j)' /\ Dropped(j)'
    BY <1>2, <1>4, <1>5, <1>6, <2>1, <2>2, StaysInStep DEF InStep, Here, Stopped
  <2>3. Stopped(m.id)
    BY <1>9 DEF StopsFirst
  <2>4. Kept(m.id)'
    BY <1>2, <2>3 DEF Kept, Here, Stopped
  <2>5. Dropped(m.id)'
    BY <1>2, <1>4, <1>6, <2>1 DEF InStep, Dropped, Stopped
  <2> QED
    BY <1>7, <2>2, <2>4, <2>5 DEF InStep
<1> QED
  BY <1>1, <1>8, <1>9

\* The removal that follows a deregistration is of a stopped container.
LEMMA RemovalInStep ==
  ASSUME Calm, StopsFirst, NEW t \in Callers, Removal(call[t]) \/ RemovalFails
  PROVE  \A i \in Instances : (Stopped(i)' <=> Stopped(i)) /\ (Here(i)' <=> Here(i))
<1>1. CASE RemovalFails
  BY <1>1 DEF RemovalFails, Stopped, Here
<1>2. CASE Removal(call[t]) /\ call[t].op # "deregister"
  BY <1>2 DEF Removal, Stopped, Here
<1>3. CASE Removal(call[t]) /\ call[t].op = "deregister"
  <2>1. container' = [container EXCEPT ![call[t].id] = "removed"] /\ Stopped(call[t].id)
    BY <1>3 DEF Removal, StopsFirst
  <2> QED
    BY <2>1 DEF Calm, ManagersTyped, Stopped, Here
<1> QED
  BY <1>1, <1>2, <1>3

\* A call that returns leaves nothing pending that was; one that breaks off
\* before it was answered excuses its instance.
LEMMA EndInStep ==
  ASSUME DiscoveryAssumption, Calm, StopsFirst, LateOnes, InStep, NEW t \in Callers,
         CallReturns(t) \/ CallFails(t)
  PROVE  StopsFirst' /\ LateOnes' /\ InStep'
<1> DEFINE i == call[t].id
           mine == {m \in net : m.from = t}
           orphan(m) == [m EXCEPT !.from = Nobody]
<1>1. /\ call' = [call EXCEPT ![t] = NoCall]
      /\ call[t].pc \in {"sent", "answered"}
      /\ Removal(call[t]) \/ RemovalFails
      /\ UNCHANGED buckets
      /\ missed \subseteq missed' /\ leftover \subseteq leftover'
  BY DEF CallReturns, CallFails, registryVars
<1>2. call[t].pc = "sent" =>
        /\ call[t].op \in {"register", "deregister"}
        /\ i \in leftover'
        /\ call[t].op = "register" => i \in missed'
  BY DEF CallReturns, CallFails, Calm, ManagersTyped, NoCall, Inspecting, Sent, Answered, Op
<1>3. \A m \in net : m.from = t => call[t].pc = "sent" /\ m.id = i /\ m.op = call[t].op
  BY DEF Calm, SendersWait, DiscoveryAssumption
<1>4. /\ \A m \in net : m.from # t => m \in net'
      /\ \A n \in net' : n \in net \/ (\E m \in mine : n = orphan(m))
  BY DEF CallReturns, CallFails
<1>5. \A m \in net : orphan(m).id = m.id /\ orphan(m).op = m.op
  BY DEF Calm, ManagersTyped, Message
<1> HIDE DEF orphan, i
<1>6. call'[t] = NoCall /\ \A u \in Callers : u # t => call'[u] = call[u]
  BY <1>1 DEF Calm, ManagersTyped
<1>7. NoCall.pc = "idle" /\ NoCall.op = "none"
  BY DEF NoCall
<1>8. /\ \A j : Unserved(j)' => Unserved(j)
      /\ \A j : (Unserved(j) /\ ~Unserved(j)') => j \in missed'
  <2>1. \A j : Unserved(j)' => Unserved(j)
    BY <1>6, <1>7 DEF Unserved
  <2>2. ASSUME NEW j, Unserved(j), ~Unserved(j)' PROVE j \in missed'
    <3>1. call[t].op = "register" /\ call[t].id = j /\ call[t].pc \in {"inspect", "sent"}
      BY <1>6, <2>2 DEF Unserved
    <3> QED
      BY <1>1, <1>2, <3>1 DEF i
  <2> QED
    BY <2>1, <2>2
<1>9. /\ \A j : Pending("register", j)' => Pending("register", j)
      /\ \A j : (Pending("deregister", j) /\ ~Pending("deregister", j)') => j \in leftover'
  <2>1. \A j : Pending("register", j)' => Pending("register", j)
    BY <1>4, <1>5 DEF Pending
  <2>2. ASSUME NEW j, Pending("deregister", j), ~Pending("deregister", j)' PROVE j \in leftover'
    <3>1. PICK m \in net : m.op = "deregister" /\ m.id = j
      BY <2>2 DEF Pending
    <3>2. m.from = t
      BY <1>4, <2>2, <3>1 DEF Pending
    <3> QED
      BY <1>2, <1>3, <3>1, <3>2
  <2> QED
    BY <2>1, <2>2
<1>10. \A j \in Instances : (Stopped(j)' <=> Stopped(j)) /\ (Here(j)' <=> Here(j))
  BY <1>1, RemovalInStep
<1>11. ASSUME NEW j \in Instances PROVE Kept(j)' /\ Dropped(j)'
  <2>1. Kept(j) /\ Dropped(j) /\ (Known(j)' <=> Known(j))
    BY <1>1, <1>11, SameKnown DEF InStep
  <2>2. Kept(j)'
    BY <1>1, <1>8, <1>10, <2>1 DEF Kept
  <2>3. Dropped(j)'
    BY <1>1, <1>8, <1>9, <1>10, <2>1 DEF Dropped
  <2> QED
    BY <2>2, <2>3
<1>12. StopsFirst'
  <2>1. \A m \in net : m.id \in Instances
    BY DEF Calm, ManagersTyped, Message
  <2>2. \A u \in Callers : call[u].op = "deregister" => call[u].id \in Instances
    BY DEF Calm, ManagersTyped, NoCall, Inspecting, Sent, Answered
  <2>3. \A n \in net' : \E m \in net : n.id = m.id /\ n.op = m.op
    BY <1>4, <1>5
  <2> QED
    BY <1>6, <1>7, <1>10, <2>1, <2>2, <2>3 DEF StopsFirst
<1>13. LateOnes'
  <2> SUFFICES ASSUME NEW n \in net', n.op = "register", n.from = Nobody PROVE n.id \in leftover'
    BY DEF LateOnes
  <2>1. CASE n \in net
    BY <1>1, <2>1 DEF LateOnes
  <2>2. CASE \E m \in mine : n = orphan(m)
    BY <1>2, <1>3, <1>5, <2>2
  <2> QED
    BY <1>4, <2>1, <2>2
<1> QED
  BY <1>11, <1>12, <1>13 DEF InStep

\* A registry that starts anew knows nothing, and all that was started is excused.
LEMMA CrashInStep ==
  ASSUME Calm, StopsFirst, InStep, RegistryCrashes
  PROVE  StopsFirst' /\ LateOnes' /\ InStep'
<1>1. /\ buckets' = EmptyMap /\ net' = {}
      /\ call' = [t \in Callers |-> IF call[t].pc = "sent" THEN NoCall ELSE call[t]]
      /\ missed' = {i \in Instances : container[i] # "none"}
      /\ UNCHANGED <<container, leftover>>
  BY DEF RegistryCrashes, RegistryRestart
<1>2. \A i : ~Known(i)' /\ ~Pending("register", i)'
  BY <1>1 DEF Known, HasBucket, EmptyMap, Pending
<1>3. \A u \in Callers : call'[u].op # "none" => call'[u] = call[u]
  BY <1>1 DEF NoCall
<1>4. \A i : Unserved(i)' => Unserved(i)
  BY <1>3 DEF Unserved
<1>5. InStep'
  BY <1>1, <1>2, <1>4 DEF InStep, Kept, Dropped, Here, Stopped
<1>6. StopsFirst' /\ LateOnes'
  BY <1>1, <1>3 DEF StopsFirst, LateOnes, Stopped
<1> QED
  BY <1>5, <1>6

\* Every step.
LEMMA StepInvNext ==
  ASSUME RegistryAssumption, DiscoveryAssumption, DInv, StepInv, [Next]_allVars
  PROVE  StepInv'
<1>1. OwnBuckets'
  BY OwnBucketsStep DEF StepInv
<1>2. Calm /\ StopsFirst /\ LateOnes /\ InStep
  BY DEF DInv, StepInv
<1>3. CASE UNCHANGED <<buckets, managers>>
  <2>1. \A j : /\ Known(j)' = Known(j) /\ Unserved(j)' = Unserved(j)
               /\ Here(j)' = Here(j) /\ Stopped(j)' = Stopped(j)
               /\ Pending("register", j)' = Pending("register", j)
               /\ Pending("deregister", j)' = Pending("deregister", j)
    BY <1>3 DEF managers, Known, HasBucket, Unserved, Here, Stopped, Pending
  <2> QED
    BY <1>1, <1>2, <1>3, <2>1
    DEF managers, StepInv, StopsFirst, LateOnes, InStep, Kept, Dropped
<1>4. ASSUME NEW h \in Handlers, Route(h)
      PROVE  UNCHANGED <<buckets, managers>>
  BY <1>4 DEF Route, BeginRequest, LookUp, LookUpFails, SelectBackend, Proxied, LookupAllRequest, registryVars
<1>5. OtherClient \/ LoadBalancerCrashes => UNCHANGED <<buckets, managers>>
  BY DEF OtherClient, LoadBalancerCrashes, LookupRequest, RegisterRequest, registryVars, RegistryAssumption
<1> QED
  BY <1>1, <1>2, <1>3, <1>4, <1>5, StartInStep, RegisterSentInStep, NoPortInStep, StopInStep,
     SilentInStep, ServeInStep, EndInStep, CrashInStep
  DEF Next, allVars, registryVars, StepInv

\* At rest, the registry holds the instances that run or ended on their own, and
\* no others, however many callers start and stop them at the same time and
\* however many calls break; but for the instances that lack an entry, or kept
\* one, for a reason of their own.
THEOREM RegistryFollowsDocker == Spec => []RegistryInStep
<1>1. Init => StepInv
  BY DiscoveryAssumption
  DEF Init, RegistryInit, EmptyMap, StepInv, OwnBuckets, StopsFirst, LateOnes, InStep, Kept, Dropped,
      Here, Stopped, NoCall
<1>2. DInv /\ StepInv /\ [Next]_allVars => StepInv'
  BY RegistryAssumption, DiscoveryAssumption, StepInvNext
<1>3. DInv /\ StepInv => RegistryInStep
  <2> SUFFICES ASSUME DInv, StepInv, Quiet, NEW i \in Instances
               PROVE  /\ (Here(i) /\ i \notin missed) => i \in Registered
                      /\ (i \in Registered /\ i \notin leftover) => Here(i)
    BY DEF RegistryInStep, Here
  <2>1. Kept(i) /\ Dropped(i)
    BY DEF StepInv, InStep
  <2>2. ~Unserved(i) /\ ~Pending("deregister", i)
    BY DEF Quiet, Unserved, Pending
  <2>3. i \in Registered <=> \E s \in DOMAIN buckets : i \in DOMAIN buckets[s]
    <3>1. \A s, j : EntryOf(s, j).instance = j
      BY DEF EntryOf
    <3>2. ASSUME i \in Registered PROVE \E s \in DOMAIN buckets : i \in DOMAIN buckets[s]
      BY <3>1, <3>2, EntriesChar DEF Registered
    <3>3. ASSUME NEW s \in DOMAIN buckets, i \in DOMAIN buckets[s] PROVE i \in Registered
      <4>1. EntryOf(s, i) \in Entries
        BY <3>3, EntriesChar
      <4> QED
        BY <3>1, <4>1 DEF Registered
    <3> QED
      BY <3>2, <3>3
  <2>4. (\E s \in DOMAIN buckets : i \in DOMAIN buckets[s]) <=> Known(i)
    BY DEF Known, HasBucket, StepInv, OwnBuckets
  <2>5. Known(i) => Here(i) \/ Stopped(i)
    BY DEF DInv, Calm, ManagersTyped, RegistersOnce, Here, Stopped
  <2> QED
    BY <2>1, <2>2, <2>3, <2>4, <2>5 DEF Kept, Dropped
<1> QED
  BY <1>1, <1>2, <1>3, DInvHolds, PTL DEF Spec
=============================================================================
