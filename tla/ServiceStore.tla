---------------------------- MODULE ServiceStore ----------------------------
(***************************************************************************)
(* Persistence of the desired state: state.ServiceStore, its file, and the *)
(* API handlers that change the one and save it to the other               *)
(* (internal/state, cmd/orchestrator/main.go).                             *)
(*                                                                         *)
(* A handler changes the map under the write lock of the store and then    *)
(* calls SaveToFile, which holds the read lock from the moment it copies   *)
(* the map until os.WriteFile returns.  os.WriteFile truncates the file    *)
(* and then writes it, so the file is torn in between.  The process may    *)
(* crash at any moment; main loads the file before it serves.              *)
(***************************************************************************)
EXTENDS ServiceSpecs

CONSTANTS
  Handlers,      \* the goroutines that serve requests
  UpsertSpecs,   \* the specs clients post
  ScaleChoices,  \* the replica counts clients ask for
  InitialFiles,  \* what the file may hold before the first boot
  MaxChanges,    \* bound: accepted changes
  MaxFailures,   \* bound: failing saves
  MaxCrashes     \* bound: crashes

\* A spec as a client or a file states it.
RawSpec == [image : Images \cup {NoImage}, replicas : Int, generation : Int]

RawStore == [Services -> RawSpec]

ASSUME StoreAssumption ==
  /\ UpsertSpecs \subseteq {spec \in RawSpec : spec.generation <= MaxGeneration}
  /\ ScaleChoices \subseteq Int
  /\ InitialFiles \subseteq
       [kind : {"absent"}, specs : {[s \in Services |-> NoSpec]}, version : {0}] \cup
       [kind : {"saved"}, version : {0},
        specs : {raw \in RawStore : \A s \in Services : raw[s].generation <= MaxGeneration}]
  /\ MaxChanges \in Nat
  /\ MaxFailures \in Nat
  /\ MaxCrashes \in Nat

VARIABLES
  services,   \* ServiceStore.services
  version,    \* accepted changes that services reflects
  file,       \* services.json: absent, torn, or the specs of some version
  handler,    \* the handler goroutines
  process,    \* "down", "serving", or "refused" when main gave up loading
  acked,      \* history: the newest version a client got a 200 for
  lost,       \* history: has a save failed since the last one that succeeded
  changes, failures, crashes

vars == <<services, version, file, handler, process, acked, lost,
          changes, failures, crashes>>

bounds == <<changes, failures, crashes>>

NoServices == [s \in Services |-> NoSpec]

IdleHandler == [pc |-> "idle", version |-> 0, copy |-> NoServices]

-----------------------------------------------------------------------------
(***************************************************************************)
(* Changing the desired state.                                             *)
(***************************************************************************)
\* Mutation: writers do not wait for readers.
AlwaysUnlocked == TRUE

\* Nobody holds the read lock.
Unlocked == \A g \in Handlers : handler[g].pc # "writing"

\* Handler h changed the map to store; next it saves.
Change(h, store) ==
  /\ process = "serving"
  /\ handler[h].pc = "idle"
  /\ Unlocked
  /\ changes < MaxChanges
  /\ changes' = changes + 1
  /\ services' = store
  /\ version' = version + 1
  /\ handler' = [handler EXCEPT ![h] = [IdleHandler EXCEPT !.pc = "changed",
                                          !.version = version + 1]]
  /\ UNCHANGED <<file, process, acked, lost, failures, crashes>>

\* POST /api/services
UpsertService(h) ==
  \E s \in Services, spec \in UpsertSpecs :
    /\ Validate(UpsertSpec(services, s, spec))
    /\ Change(h, Upsert(services, s, spec))

\* POST /api/services/:name/scale
ScaleService(h) ==
  \E s \in Services, r \in ScaleChoices :
    /\ r >= 1
    /\ Found(services, s)
    /\ Change(h, Scale(services, s, r))

\* POST /api/services/:name/restart
RestartService(h) ==
  \E s \in Services :
    /\ Found(services, s)
    /\ Increment(services[s].generation) >= 1
    /\ Change(h, RequestRestart(services, s))

\* DELETE /api/services/:name; of a service the map does not hold it is answered
\* 404, and nothing is saved.
DeleteService(h) ==
  \E s \in Services :
    /\ Found(services, s)
    /\ Change(h, Delete(services, s))

-----------------------------------------------------------------------------
(***************************************************************************)
(* SaveToFile.                                                             *)
(***************************************************************************)
\* The read lock is taken, the map copied, and the file opened with O_TRUNC.
BeginSave(h) ==
  /\ handler[h].pc = "changed"
  /\ handler' = [handler EXCEPT ![h] = [handler[h] EXCEPT !.pc = "writing", !.copy = services,
                                          !.version = version]]
  /\ file' = [kind |-> "torn", specs |-> NoServices, version |-> 0]
  /\ UNCHANGED <<services, version, process, acked, lost, bounds>>

\* The copy is written and the lock released; the client gets its 200 no
\* earlier than this.
EndSave(h) ==
  /\ handler[h].pc = "writing"
  /\ file' = [kind |-> "saved", specs |-> handler[h].copy, version |-> handler[h].version]
  /\ acked' = IF acked < handler[h].version THEN handler[h].version ELSE acked
  /\ lost' = FALSE
  /\ handler' = [handler EXCEPT ![h] = IdleHandler]
  /\ UNCHANGED <<services, version, process, bounds>>

\* MkdirAll or the open failed, or the write did: the client gets a 500, and
\* the map stays changed.
FailSave(h) ==
  /\ handler[h].pc \in {"changed", "writing"}
  /\ failures < MaxFailures
  /\ failures' = failures + 1
  /\ lost' = TRUE
  /\ handler' = [handler EXCEPT ![h] = IdleHandler]
  /\ UNCHANGED <<services, version, file, process, acked, changes, crashes>>

-----------------------------------------------------------------------------
(***************************************************************************)
(* The process.                                                            *)
(***************************************************************************)
\* Mutation: restored services start over at generation 1.
LoadFresh(specs) ==
  [s \in Services |-> IF Validate(specs[s]) THEN [specs[s] EXCEPT !.generation = 1] ELSE NoSpec]

\* What LoadFromFile keeps of the specs in a file.
Load(specs) == [s \in Services |-> IF Validate(specs[s]) THEN Normalize(specs[s]) ELSE NoSpec]

Crash ==
  /\ process = "serving"
  /\ crashes < MaxCrashes
  /\ crashes' = crashes + 1
  /\ process' = "down"
  /\ services' = NoServices
  /\ handler' = [h \in Handlers |-> IdleHandler]
  /\ UNCHANGED <<version, file, acked, lost, changes, failures>>

\* main restores the desired state before it serves, and gives up when the
\* file does not parse.
Boot ==
  /\ process = "down"
  /\ IF file.kind = "torn"
     THEN process' = "refused" /\ UNCHANGED <<services, version, lost>>
     ELSE /\ process' = "serving"
          /\ services' = Load(file.specs)
          /\ version' = file.version
          /\ lost' = FALSE
  /\ UNCHANGED <<file, handler, acked, bounds>>

-----------------------------------------------------------------------------
Init ==
  /\ services = NoServices
  /\ version = 0
  /\ file \in InitialFiles
  /\ handler = [h \in Handlers |-> IdleHandler]
  /\ process = "down"
  /\ acked = 0
  /\ lost = FALSE
  /\ changes = 0 /\ failures = 0 /\ crashes = 0

Next ==
  \/ \E h \in Handlers :
       \/ UpsertService(h) \/ ScaleService(h) \/ RestartService(h) \/ DeleteService(h)
       \/ BeginSave(h) \/ EndSave(h) \/ FailSave(h)
  \/ Crash
  \/ Boot

Spec == Init /\ [][Next]_vars

-----------------------------------------------------------------------------
(***************************************************************************)
(* Properties.                                                             *)
(***************************************************************************)
File ==
  [kind : {"absent", "torn", "saved"}, version : 0 .. MaxChanges,
   specs : {raw \in RawStore : \A s \in Services : raw[s].generation <= MaxGeneration}]

Handler ==
  [pc : {"idle", "changed", "writing"}, version : 0 .. MaxChanges, copy : Store]

\* The type of the state.  Above all, the map only ever holds valid specs,
\* whatever clients post and whatever the file held at boot.
TypeOK ==
  /\ services \in Store
  /\ file \in File
  /\ handler \in [Handlers -> Handler]
  /\ process \in {"down", "serving", "refused"}
  /\ {version, acked} \subseteq 0 .. MaxChanges
  /\ lost \in BOOLEAN
  /\ changes \in 0 .. MaxChanges
  /\ failures \in 0 .. MaxFailures
  /\ crashes \in 0 .. MaxCrashes

\* A change a client got a 200 for is never overwritten in the file by an older
\* copy of the map, although saves of several handlers overlap
\* (persistence.go:19-20: the read lock spans the copy and the write).
AcknowledgedIsDurable ==
  /\ file.kind = "saved" => acked <= file.version
  /\ file.kind = "absent" => acked = 0

\* When no request is under way and the last save did not fail, a restart
\* restores exactly the services of now (README.md:456).
RestartIsInvisible ==
  (process = "serving" /\ ~lost /\ \A h \in Handlers : handler[h].pc = "idle")
    => file.kind # "torn" /\ Load(file.specs) = services

\* The process can always be restarted: "a process restart does not erase the
\* services the system is meant to maintain" (README.md:456).
RestartSucceeds == process # "refused"
=============================================================================
