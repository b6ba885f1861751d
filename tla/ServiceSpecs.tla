---------------------------- MODULE ServiceSpecs ----------------------------
(***************************************************************************)
(* Desired state of the services: domain.ServiceSpec and the operations of *)
(* state.ServiceStore, as operators from one content of the store to the   *)
(* next.  Each operation runs under the write lock of the store, so a      *)
(* state machine uses it as one atomic step.  A rejected operation (one    *)
(* for which the Go method returns an error) leaves the store as it was.   *)
(*                                                                         *)
(* A service name is a number: names are only compared for equality and    *)
(* for the order in which sort.Strings lists them.                         *)
(***************************************************************************)
EXTENDS Integers

CONSTANTS
  Services,       \* the valid service names, numbered in sort.Strings order
  Images,         \* the image references
  NoImage,        \* the empty image string
  MaxGeneration   \* the largest int64

ASSUME SpecsAssumption ==
  /\ Services \subseteq Nat
  /\ NoImage \notin Images
  /\ MaxGeneration \in Nat \ {0}

\* What the store holds for a name it does not have.
NoSpec == [image |-> NoImage, replicas |-> 0, generation |-> 0]

\* The specs that pass Validate.
ValidSpec == [image : Images, replicas : Nat \ {0}, generation : 1 .. MaxGeneration]

\* A content of the store.
Store == [Services -> ValidSpec \cup {NoSpec}]

Found(store, s) == store[s] # NoSpec

Normalize(spec) ==
  [spec EXCEPT !.generation = IF @ < 0 THEN 0 ELSE @]

\* Mutation: the replica count is not validated.
ValidateAnyReplicas(spec) ==
  /\ spec.image # NoImage
  /\ Normalize(spec).generation >= 1

Validate(spec) ==
  /\ spec.image # NoImage
  /\ spec.replicas >= 1
  /\ Normalize(spec).generation >= 1

\* s.services[name] = spec, unless the spec is rejected.
Put(store, s, spec) ==
  IF Validate(spec) THEN [store EXCEPT ![s] = spec] ELSE store

\* Mutation: an update starts over at generation 1.
UpsertGenerationAnew(store, s, spec) ==
  IF Normalize(spec).generation >= 1 THEN spec.generation ELSE 1

\* The generation an upsert stores: the caller's when positive, otherwise the
\* one the service already has, otherwise 1.
UpsertGeneration(store, s, spec) ==
  IF Normalize(spec).generation >= 1 THEN spec.generation
  ELSE IF Found(store, s) THEN store[s].generation
  ELSE 1

UpsertSpec(store, s, spec) ==
  [spec EXCEPT !.generation = UpsertGeneration(store, s, spec)]

Upsert(store, s, spec) == Put(store, s, UpsertSpec(store, s, spec))

Scale(store, s, replicas) ==
  IF Found(store, s)
  THEN Put(store, s, [store[s] EXCEPT !.replicas = replicas])
  ELSE store

\* int64 addition of one, which wraps to the smallest int64.
Increment(g) == IF g = MaxGeneration THEN -MaxGeneration - 1 ELSE g + 1

RequestRestart(store, s) ==
  IF Found(store, s)
  THEN Put(store, s, [store[s] EXCEPT !.generation = Increment(@)])
  ELSE store

Delete(store, s) == [store EXCEPT ![s] = NoSpec]
=============================================================================
