------------------------------ MODULE Registry ------------------------------
(***************************************************************************)
(* The service registry: RegistryStore and its HTTP handlers               *)
(* (cmd/registry/main.go).                                                 *)
(*                                                                         *)
(* The store is a map of maps.  A service has a bucket of instances from   *)
(* its first registration to the deregistration of its last instance.      *)
(* Every method holds the lock from start to end, so a request is one      *)
(* step, with its answer in reply.                                         *)
(***************************************************************************)
EXTENDS Integers, FiniteSets

CONSTANTS
  Services,   \* the logical services
  Instances,  \* the ids of instances
  Ports       \* what a request may name as the port of an instance

ASSUME RegistryAssumption == Ports \subseteq Int

VARIABLES
  buckets,  \* RegistryStore.services: service -> instance -> port
  reply     \* the answer to the request that was served last

registryVars == <<buckets, reply>>

Status(code) == [status |-> code, list |-> <<>>]

\* _, found := r.services[s], and the bucket it finds.
HasBucket(s) == s \in DOMAIN buckets

\* f with the key k set to v; f without the key k.
Put(f, k, v) == [x \in DOMAIN f \cup {k} |-> IF x = k THEN v ELSE f[x]]

Without(f, k) == [x \in DOMAIN f \ {k} |-> f[x]]

EmptyMap == [x \in {} |-> x]

-----------------------------------------------------------------------------
\* Mutation: a registration starts the bucket of its service anew.
FreshBucket(s) == EmptyMap

\* The bucket that Register adds to.
BucketFor(s) == IF HasBucket(s) THEN buckets[s] ELSE EmptyMap

\* POST /register.  A port that is not positive is answered 400.
RegisterRequest(s, i, p) ==
  \/ /\ p > 0
     /\ buckets' = Put(buckets, s, Put(BucketFor(s), i, p))
     /\ reply' = Status(200)
  \/ p <= 0 /\ reply' = Status(400) /\ UNCHANGED buckets

\* Mutation: the bucket goes with any of its instances.
DropBucket(s, i) == Without(buckets, s)

\* Mutation: an empty bucket stays.
KeepBucket(s, i) == Put(buckets, s, Without(buckets[s], i))

\* The map after i left the bucket of s; an empty bucket is deleted.
Remove(s, i) ==
  IF DOMAIN buckets[s] = {i} THEN Without(buckets, s)
  ELSE Put(buckets, s, Without(buckets[s], i))

\* DELETE /deregister
DeregisterRequest(s, i) ==
  \/ /\ HasBucket(s) /\ i \in DOMAIN buckets[s]
     /\ buckets' = Remove(s, i)
     /\ reply' = Status(200)
  \/ ~HasBucket(s) /\ reply' = Status(404) /\ UNCHANGED buckets
  \/ /\ HasBucket(s) /\ i \notin DOMAIN buckets[s]
     /\ reply' = Status(404)
     /\ UNCHANGED buckets

\* The instances of s as LookupAll returns them, nil when there is no bucket.
InstancesOf(s) ==
  IF HasBucket(s)
  THEN {[service |-> s, instance |-> i, port |-> buckets[s][i]] : i \in DOMAIN buckets[s]}
  ELSE {}

\* The orders in which the iteration over a map may yield its values.
Iterations(S) ==
  {list \in [1 .. Cardinality(S) -> S] : \A e \in S : \E n \in DOMAIN list : list[n] = e}

\* GET /lookup-all
LookupAllRequest(s) ==
  /\ \/ /\ InstancesOf(s) # {}
        /\ \E list \in Iterations(InstancesOf(s)) : reply' = [status |-> 200, list |-> list]
     \/ InstancesOf(s) = {} /\ reply' = Status(404)
  /\ UNCHANGED buckets

\* GET /lookup answers the first instance that the iteration yields.
LookupRequest(s) ==
  /\ \/ \E e \in InstancesOf(s) : reply' = [status |-> 200, list |-> <<e>>]
     \/ InstancesOf(s) = {} /\ reply' = Status(404)
  /\ UNCHANGED buckets

\* The process starts again: NewRegistryStore.
RegistryRestart == buckets' = EmptyMap /\ UNCHANGED reply

RegistryInit == buckets = EmptyMap /\ reply = Status(0)

RegistryNext ==
  \/ \E s \in Services, i \in Instances :
       (\E p \in Ports : RegisterRequest(s, i, p)) \/ DeregisterRequest(s, i)
  \/ \E s \in Services : LookupAllRequest(s) \/ LookupRequest(s)
  \/ RegistryRestart

RegistrySpec == RegistryInit /\ [][RegistryNext]_registryVars

-----------------------------------------------------------------------------
(***************************************************************************)
(* Properties.                                                             *)
(***************************************************************************)
\* The type of the state.  No bucket is empty: LookupOne and the 404 of
\* Deregister tell services apart by their buckets (main.go:59-62, 91-93).
RegistryTypeOK ==
  /\ DOMAIN buckets \subseteq Services
  /\ \A s \in DOMAIN buckets :
       /\ DOMAIN buckets[s] # {}
       /\ DOMAIN buckets[s] \subseteq Instances
       /\ \A i \in DOMAIN buckets[s] : buckets[s][i] \in Ports /\ buckets[s][i] > 0

\* The entries that the buckets stand for.
Entries == UNION {InstancesOf(s) : s \in DOMAIN buckets}

\* Bucket by bucket, the registry behaves as the one set of entries of Directory
\* (main.go:27-100).
D == INSTANCE Directory WITH entries <- Entries

ImplementsDirectory == D!Spec
=============================================================================
