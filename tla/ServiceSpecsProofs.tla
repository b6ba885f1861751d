------------------------- MODULE ServiceSpecsProofs -------------------------
(***************************************************************************)
(* What the operations on the desired state preserve, for every set of     *)
(* services and every width of a generation.                               *)
(***************************************************************************)
EXTENDS ServiceSpecs, TLAPS

\* A spec as a client sends it.
ClientSpec ==
  [image : Images \cup {NoImage}, replicas : Int,
   generation : {g \in Int : g <= MaxGeneration}]

\* No generation of store is above the one of the same service in store2.
Raises(store, store2) == \A s \in Services : store[s].generation <= store2[s].generation

\* A service is found exactly when its generation is positive.
LEMMA FoundGeneration ==
  ASSUME NEW store \in Store, NEW s \in Services
  PROVE  /\ store[s].generation \in Nat
         /\ store[s].generation <= MaxGeneration
         /\ Found(store, s) <=> store[s] \in ValidSpec
         /\ Found(store, s) <=> store[s].generation >= 1
  BY SpecsAssumption DEF Store, Found, NoSpec, ValidSpec

\* Putting a spec of the right shape yields a store.
LEMMA PutType ==
  ASSUME NEW store \in Store, NEW s \in Services, NEW spec,
         spec \in [image : Images \cup {NoImage}, replicas : Int, generation : Int],
         spec.generation <= MaxGeneration
  PROVE  /\ Put(store, s, spec) \in Store
         /\ spec.generation >= store[s].generation => Raises(store, Put(store, s, spec))
<1>1. CASE Validate(spec)
  <2>1. spec \in ValidSpec
    BY <1>1, SpecsAssumption DEF Validate, Normalize, ValidSpec
  <2>2. Put(store, s, spec) = [store EXCEPT ![s] = spec]
    BY <1>1 DEF Put
  <2> QED
    BY <2>1, <2>2, FoundGeneration DEF Store, Raises
<1>2. CASE ~Validate(spec)
  BY <1>2, FoundGeneration DEF Put, Raises
<1> QED
  BY <1>1, <1>2

\* Upserts keep the store well-formed, and only an explicit generation lowers
\* the one of a service.
LEMMA UpsertType ==
  ASSUME NEW store \in Store, NEW s \in Services, NEW spec \in ClientSpec
  PROVE  /\ Upsert(store, s, spec) \in Store
         /\ spec.generation < 1 => Raises(store, Upsert(store, s, spec))
<1> DEFINE g == UpsertGeneration(store, s, spec)
           new == [spec EXCEPT !.generation = g]
<1>1. g \in Int /\ g <= MaxGeneration
  BY FoundGeneration, SpecsAssumption DEF UpsertGeneration, ClientSpec, Normalize
<1>2. spec.generation < 1 => g >= store[s].generation
  <2> SUFFICES ASSUME spec.generation < 1 PROVE g >= store[s].generation
    OBVIOUS
  <2>1. ~(Normalize(spec).generation >= 1)
    BY DEF ClientSpec, Normalize
  <2> QED
    BY <2>1, FoundGeneration DEF UpsertGeneration
<1>3. new \in [image : Images \cup {NoImage}, replicas : Int, generation : Int] /\ new.generation = g
  BY <1>1 DEF ClientSpec
<1>4. Upsert(store, s, spec) = Put(store, s, new)
  BY DEF Upsert, UpsertSpec
<1> HIDE DEF g, new
<1> QED
  BY <1>1, <1>2, <1>3, <1>4, PutType

\* Scaling keeps the store well-formed and lowers no generation.
LEMMA ScaleType ==
  ASSUME NEW store \in Store, NEW s \in Services, NEW r \in Int
  PROVE  Scale(store, s, r) \in Store /\ Raises(store, Scale(store, s, r))
<1>1. CASE Found(store, s)
  <2> DEFINE new == [store[s] EXCEPT !.replicas = r]
  <2>1. /\ new \in [image : Images \cup {NoImage}, replicas : Int, generation : Int]
        /\ new.generation = store[s].generation
    BY <1>1, FoundGeneration DEF ValidSpec
  <2>2. Scale(store, s, r) = Put(store, s, new)
    BY <1>1 DEF Scale
  <2> HIDE DEF new
  <2> QED
    BY <2>1, <2>2, PutType, FoundGeneration
<1>2. CASE ~Found(store, s)
  BY <1>2, FoundGeneration DEF Scale, Raises
<1> QED
  BY <1>1, <1>2

\* So does a restart request, whatever the width of a generation: the wrapped
\* sum is negative and rejected.
LEMMA RestartType ==
  ASSUME NEW store \in Store, NEW s \in Services
  PROVE  RequestRestart(store, s) \in Store /\ Raises(store, RequestRestart(store, s))
<1>1. CASE Found(store, s)
  <2> DEFINE g == Increment(store[s].generation)
             new == [store[s] EXCEPT !.generation = g]
  <2>1. g \in Int /\ g <= MaxGeneration /\ (g >= store[s].generation \/ g < 0)
    BY FoundGeneration, SpecsAssumption DEF Increment
  <2>2. /\ new \in [image : Images \cup {NoImage}, replicas : Int, generation : Int]
        /\ new.generation = g
    BY <1>1, <2>1, FoundGeneration DEF ValidSpec
  <2>3. RequestRestart(store, s) = Put(store, s, new)
    BY <1>1 DEF RequestRestart
  <2> HIDE DEF g, new
  <2>4. CASE g >= store[s].generation
    BY <2>1, <2>2, <2>3, <2>4, PutType
  <2>5. CASE g < 0
    <3>1. ~Validate(new)
      BY <2>1, <2>2, <2>5 DEF Validate, Normalize
    <3> QED
      BY <2>3, <3>1, FoundGeneration DEF Put, Raises
  <2> QED
    BY <2>1, <2>4, <2>5
<1>2. CASE ~Found(store, s)
  BY <1>2, FoundGeneration DEF RequestRestart, Raises
<1> QED
  BY <1>1, <1>2

\* Deleting keeps the store well-formed.
LEMMA DeleteType ==
  ASSUME NEW store \in Store, NEW s \in Services
  PROVE  Delete(store, s) \in Store
  BY DEF Delete, Store
=============================================================================
