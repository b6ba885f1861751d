------------------------- MODULE ServiceStoreProofs -------------------------
(***************************************************************************)
(* Theorems about ServiceStore, for any number of handlers, services,      *)
(* changes, failures and crashes.                                          *)
(***************************************************************************)
EXTENDS ServiceStore, ServiceSpecsProofs

\* Loading what was saved gives it back.
LEMMA LoadStore ==
  ASSUME NEW store \in Store
  PROVE  Load(store) = store
<1>1. \A s \in Services :
        (IF Validate(store[s]) THEN Normalize(store[s]) ELSE NoSpec) = store[s]
  <2> SUFFICES ASSUME NEW s \in Services
               PROVE  (IF Validate(store[s]) THEN Normalize(store[s]) ELSE NoSpec) = store[s]
    OBVIOUS
  <2>1. CASE store[s] \in ValidSpec
    <3>1. Validate(store[s])
      BY <2>1, SpecsAssumption DEF ValidSpec, Validate, Normalize
    <3>2. Normalize(store[s]) = store[s]
      BY <2>1 DEF ValidSpec, Normalize
    <3> QED
      BY <3>1, <3>2
  <2>2. CASE store[s] = NoSpec
    BY <2>2 DEF NoSpec, Validate
  <2> QED
    BY <2>1, <2>2 DEF Store
<1> QED
  BY <1>1 DEF Load, Store

\* Whatever a file holds, what is loaded is well-formed.
LEMMA LoadType ==
  ASSUME NEW raw \in RawStore, \A s \in Services : raw[s].generation <= MaxGeneration
  PROVE  Load(raw) \in Store
<1>1. ASSUME NEW s \in Services, Validate(raw[s])
      PROVE  Normalize(raw[s]) \in ValidSpec
  <2>1. raw[s] \in RawSpec /\ raw[s].generation <= MaxGeneration
    BY DEF RawStore
  <2>2. raw[s].generation >= 1
    BY <1>1, <2>1 DEF Validate, Normalize, RawSpec
  <2>3. Normalize(raw[s]) = raw[s]
    BY <2>1, <2>2 DEF Normalize, RawSpec
  <2> QED
    BY <1>1, <2>1, <2>2, <2>3 DEF Validate, RawSpec, ValidSpec
<1> QED
  BY <1>1 DEF Load, Store

\* A store is a possible content of a file.
LEMMA StoreIsRaw ==
  ASSUME NEW store \in Store
  PROVE  store \in RawStore /\ \A s \in Services : store[s].generation <= MaxGeneration
<1>1. \A s \in Services : store[s] \in RawSpec
  BY DEF Store, ValidSpec, NoSpec, RawSpec
<1> QED
  BY <1>1, FoundGeneration DEF RawStore, Store

\* The empty store is a store.
LEMMA NoServicesType == NoServices \in Store
  BY DEF NoServices, Store

\* What is stored is written with its version, whatever the file held.
LEMMA SavedType ==
  ASSUME NEW store \in Store, NEW v \in 0 .. MaxChanges
  PROVE  [kind |-> "saved", specs |-> store, version |-> v] \in File
  BY StoreIsRaw DEF File

-----------------------------------------------------------------------------
(***************************************************************************)
(* The inductive invariant.                                                *)
(***************************************************************************)
\* The read lock keeps every copy under way equal to the map.
CopiesAreCurrent ==
  \A h \in Handlers : handler[h].pc = "writing" =>
    handler[h].copy = services /\ handler[h].version = version

\* Requests are under way only while the process serves.
OnlyServing ==
  \A h \in Handlers : handler[h].pc # "idle" => process = "serving"

\* Versions count accepted changes.
VersionsCounted == version <= changes /\ file.version <= changes

\* Nothing newer than the map was acknowledged.
AckedBehind ==
  /\ process = "serving" => acked <= version
  /\ file.kind = "absent" => file.version = 0

SInv ==
  /\ TypeOK /\ CopiesAreCurrent /\ OnlyServing /\ VersionsCounted /\ AckedBehind
  /\ AcknowledgedIsDurable /\ RestartIsInvisible

\* Changing the map, which needs the write lock.
LEMMA ChangeStep ==
  ASSUME SInv, NEW h \in Handlers, NEW store \in Store, Change(h, store)
  PROVE  SInv'
<1> DEFINE q == [IdleHandler EXCEPT !.pc = "changed", !.version = version + 1]
<1>1. /\ version' = version + 1 /\ changes' = changes + 1 /\ services' = store
      /\ handler' = [handler EXCEPT ![h] = q]
      /\ UNCHANGED <<file, process, acked, lost, failures, crashes>>
      /\ process = "serving" /\ Unlocked /\ changes < MaxChanges
  BY DEF Change
<1>2. version' \in 0 .. MaxChanges /\ changes' \in 0 .. MaxChanges
  BY <1>1, StoreAssumption DEF SInv, TypeOK, VersionsCounted
<1>3. q \in Handler /\ q.pc = "changed"
  BY <1>1, <1>2, NoServicesType DEF IdleHandler, Handler
<1> HIDE DEF q
<1>4. TypeOK'
  BY <1>1, <1>2, <1>3 DEF SInv, TypeOK
<1>5. CopiesAreCurrent'
  BY <1>1, <1>3 DEF SInv, TypeOK, CopiesAreCurrent, Unlocked
<1>6. OnlyServing' /\ RestartIsInvisible'
  BY <1>1, <1>3 DEF SInv, TypeOK, OnlyServing, RestartIsInvisible
<1>7. VersionsCounted'
  BY <1>1 DEF SInv, TypeOK, File, VersionsCounted
<1>8. AckedBehind' /\ AcknowledgedIsDurable'
  BY <1>1 DEF SInv, TypeOK, AckedBehind, AcknowledgedIsDurable
<1> QED
  BY <1>4, <1>5, <1>6, <1>7, <1>8 DEF SInv

\* The four requests that change the map.
LEMMA RequestStep ==
  ASSUME SInv, NEW h \in Handlers,
         UpsertService(h) \/ ScaleService(h) \/ RestartService(h) \/ DeleteService(h)
  PROVE  SInv'
<1>0. services \in Store
  BY DEF SInv, TypeOK
<1>1. CASE UpsertService(h)
  <2>1. PICK s \in Services, spec \in UpsertSpecs :
          Change(h, Upsert(services, s, spec))
    BY <1>1 DEF UpsertService
  <2>2. spec \in ClientSpec
    BY StoreAssumption DEF RawSpec, ClientSpec
  <2>3. Upsert(services, s, spec) \in Store
    BY <1>0, <2>2, UpsertType
  <2> QED
    BY <1>0, <2>1, <2>3, ChangeStep
<1>2. CASE ScaleService(h)
  <2>1. PICK s \in Services, r \in ScaleChoices :
          Change(h, Scale(services, s, r))
    BY <1>2 DEF ScaleService
  <2>2. Scale(services, s, r) \in Store
    BY <1>0, ScaleType, StoreAssumption
  <2> QED
    BY <1>0, <2>1, <2>2, ChangeStep
<1>3. CASE RestartService(h)
  <2>1. PICK s \in Services :
          Change(h, RequestRestart(services, s))
    BY <1>3 DEF RestartService
  <2> QED
    BY <1>0, <2>1, RestartType, ChangeStep
<1>4. CASE DeleteService(h)
  <2>1. PICK s \in Services :
          Change(h, Delete(services, s))
    BY <1>4 DEF DeleteService
  <2> QED
    BY <1>0, <2>1, DeleteType, ChangeStep
<1> QED
  BY <1>1, <1>2, <1>3, <1>4

\* Copying the map and truncating the file.
LEMMA BeginSaveStep ==
  ASSUME SInv, NEW h \in Handlers, BeginSave(h)
  PROVE  SInv'
<1> DEFINE q == [handler[h] EXCEPT !.pc = "writing", !.copy = services, !.version = version]
           torn == [kind |-> "torn", specs |-> NoServices, version |-> 0]
<1>1. /\ handler' = [handler EXCEPT ![h] = q] /\ file' = torn
      /\ UNCHANGED <<services, version, process, acked, lost, changes, failures, crashes>>
      /\ handler[h].pc = "changed"
  BY DEF BeginSave, bounds
<1>2. /\ q \in Handler /\ q.pc = "writing" /\ q.copy = services /\ q.version = version
  BY DEF SInv, TypeOK, Handler
<1>3. torn \in File /\ torn.kind = "torn" /\ torn.version = 0
  BY NoServicesType, StoreIsRaw, StoreAssumption DEF File
<1> HIDE DEF q, torn
<1>4. TypeOK'
  BY <1>1, <1>2, <1>3 DEF SInv, TypeOK
<1>5. CopiesAreCurrent'
  BY <1>1, <1>2 DEF SInv, TypeOK, CopiesAreCurrent
<1>6. OnlyServing' /\ RestartIsInvisible'
  BY <1>1, <1>2 DEF SInv, TypeOK, OnlyServing, RestartIsInvisible
<1>7. VersionsCounted'
  BY <1>1, <1>3 DEF SInv, TypeOK, VersionsCounted
<1>8. AckedBehind' /\ AcknowledgedIsDurable'
  BY <1>1, <1>3 DEF SInv, TypeOK, AckedBehind, AcknowledgedIsDurable
<1> QED
  BY <1>4, <1>5, <1>6, <1>7, <1>8 DEF SInv

\* An idle handler is well-formed.
LEMMA IdleHandlerType == IdleHandler \in Handler /\ IdleHandler.pc = "idle"
  BY NoServicesType, StoreAssumption DEF IdleHandler, Handler

\* Writing the copy: it is the map of this very moment, however many savers
\* there are.
LEMMA EndSaveStep ==
  ASSUME SInv, NEW h \in Handlers, EndSave(h)
  PROVE  SInv'
<1>1. /\ handler' = [handler EXCEPT ![h] = IdleHandler]
      /\ UNCHANGED <<services, version, process, changes, failures, crashes>>
      /\ handler[h].pc = "writing" /\ lost' = FALSE
  BY DEF EndSave, bounds
<1>2. handler[h].copy = services /\ handler[h].version = version
  BY <1>1 DEF SInv, CopiesAreCurrent
<1>3. file' = [kind |-> "saved", specs |-> services, version |-> version]
  BY <1>2 DEF EndSave
<1>4. file' \in File /\ file'.kind = "saved" /\ file'.specs = services /\ file'.version = version
  BY <1>3, SavedType DEF SInv, TypeOK
<1>5. process = "serving" /\ acked <= version
  BY <1>1 DEF SInv, OnlyServing, AckedBehind
<1>6. acked' \in 0 .. MaxChanges /\ acked' <= version
  BY <1>2, <1>5 DEF EndSave, SInv, TypeOK
<1>7. TypeOK'
  BY <1>1, <1>4, <1>6, IdleHandlerType DEF SInv, TypeOK
<1>8. CopiesAreCurrent' /\ OnlyServing'
  BY <1>1, <1>5, IdleHandlerType DEF SInv, TypeOK, CopiesAreCurrent, OnlyServing
<1>9. RestartIsInvisible'
  BY <1>1, <1>4, LoadStore DEF SInv, TypeOK, RestartIsInvisible
<1>10. VersionsCounted' /\ AckedBehind' /\ AcknowledgedIsDurable'
  BY <1>1, <1>4, <1>6 DEF SInv, TypeOK, VersionsCounted, AckedBehind, AcknowledgedIsDurable
<1> QED
  BY <1>7, <1>8, <1>9, <1>10 DEF SInv

\* A failed save.
LEMMA FailSaveStep ==
  ASSUME SInv, NEW h \in Handlers, FailSave(h)
  PROVE  SInv'
<1>1. /\ handler' = [handler EXCEPT ![h] = IdleHandler] /\ lost' = TRUE
      /\ UNCHANGED <<services, version, file, process, acked, changes, crashes>>
      /\ failures' \in 0 .. MaxFailures
  BY StoreAssumption DEF FailSave, SInv, TypeOK
<1>2. TypeOK'
  BY <1>1, IdleHandlerType DEF SInv, TypeOK
<1>3. CopiesAreCurrent' /\ OnlyServing' /\ RestartIsInvisible'
  BY <1>1, IdleHandlerType
  DEF SInv, TypeOK, CopiesAreCurrent, OnlyServing, RestartIsInvisible
<1>4. VersionsCounted' /\ AckedBehind' /\ AcknowledgedIsDurable'
  BY <1>1 DEF SInv, VersionsCounted, AckedBehind, AcknowledgedIsDurable
<1> QED
  BY <1>2, <1>3, <1>4 DEF SInv

\* A crash.
LEMMA CrashStep ==
  ASSUME SInv, Crash
  PROVE  SInv'
<1>1. /\ handler' = [h \in Handlers |-> IdleHandler] /\ process' = "down"
      /\ services' = NoServices
      /\ UNCHANGED <<version, file, acked, lost, changes, failures>>
      /\ crashes' \in 0 .. MaxCrashes
  BY StoreAssumption DEF Crash, SInv, TypeOK
<1>2. TypeOK'
  BY <1>1, IdleHandlerType, NoServicesType DEF SInv, TypeOK
<1>3. CopiesAreCurrent' /\ OnlyServing' /\ RestartIsInvisible'
  BY <1>1, IdleHandlerType
  DEF SInv, TypeOK, CopiesAreCurrent, OnlyServing, RestartIsInvisible
<1>4. VersionsCounted' /\ AckedBehind' /\ AcknowledgedIsDurable'
  BY <1>1 DEF SInv, VersionsCounted, AckedBehind, AcknowledgedIsDurable
<1> QED
  BY <1>2, <1>3, <1>4 DEF SInv

\* A boot, from whatever the crash left.
LEMMA BootStep ==
  ASSUME SInv, Boot
  PROVE  SInv'
<1>1. /\ process = "down" /\ \A h \in Handlers : handler[h].pc = "idle"
      /\ UNCHANGED <<file, handler, acked, changes, failures, crashes>>
  BY DEF Boot, SInv, OnlyServing, bounds
<1>2. CASE file.kind = "torn"
  <2>1. process' = "refused" /\ UNCHANGED <<services, version, lost>>
    BY <1>2 DEF Boot
  <2> QED
    BY <1>1, <2>1 DEF SInv, TypeOK, CopiesAreCurrent, OnlyServing, VersionsCounted,
       AckedBehind, AcknowledgedIsDurable, RestartIsInvisible
<1>3. CASE file.kind # "torn"
  <2>1. /\ process' = "serving" /\ services' = Load(file.specs)
        /\ version' = file.version /\ lost' = FALSE
    BY <1>3 DEF Boot
  <2>2. Load(file.specs) \in Store /\ file.version \in 0 .. MaxChanges
    BY LoadType DEF SInv, TypeOK, File
  <2>3. TypeOK'
    BY <1>1, <2>1, <2>2 DEF SInv, TypeOK
  <2>4. CopiesAreCurrent' /\ OnlyServing' /\ RestartIsInvisible'
    BY <1>1, <1>3, <2>1 DEF SInv, TypeOK, CopiesAreCurrent, OnlyServing, RestartIsInvisible
  <2>5. file.kind \in {"absent", "saved"} /\ acked \in Int
    BY <1>3 DEF SInv, TypeOK, File
  <2>6. VersionsCounted' /\ AckedBehind' /\ AcknowledgedIsDurable'
    BY <1>1, <2>1, <2>2, <2>5 DEF SInv, VersionsCounted, AckedBehind, AcknowledgedIsDurable
  <2> QED
    BY <2>3, <2>4, <2>6 DEF SInv
<1> QED
  BY <1>2, <1>3

-----------------------------------------------------------------------------
\* Boot establishes the inductive invariant.
LEMMA StoreInit == Init => SInv
<1> SUFFICES ASSUME Init PROVE SInv
  OBVIOUS
<1>1. file \in File /\ file.version = 0 /\ file.kind \in {"absent", "saved"}
  <2>1. CASE file \in [kind : {"absent"}, specs : {[s \in Services |-> NoSpec]}, version : {0}]
    <3>1. file.specs = NoServices
      BY <2>1 DEF NoServices
    <3>2. file = [kind |-> "absent", specs |-> NoServices, version |-> 0]
      BY <2>1, <3>1
    <3> QED
      BY <3>2, NoServicesType, StoreIsRaw, StoreAssumption DEF File
  <2>2. CASE file \in
          [kind : {"saved"}, version : {0},
           specs : {raw \in RawStore : \A s \in Services : raw[s].generation <= MaxGeneration}]
    BY <2>2, StoreAssumption DEF File
  <2> QED
    BY <2>1, <2>2, StoreAssumption DEF Init
<1>2. TypeOK
  <2>1. handler \in [Handlers -> Handler]
    BY IdleHandlerType DEF Init
  <2>2. {version, acked} \subseteq 0 .. MaxChanges /\ changes \in 0 .. MaxChanges
    BY StoreAssumption DEF Init
  <2>3. failures \in 0 .. MaxFailures /\ crashes \in 0 .. MaxCrashes
    BY StoreAssumption DEF Init
  <2> QED
    BY <1>1, <2>1, <2>2, <2>3, NoServicesType DEF Init, TypeOK
<1> QED
  BY <1>1, <1>2, IdleHandlerType
  DEF Init, SInv, CopiesAreCurrent, OnlyServing, VersionsCounted, AckedBehind,
      AcknowledgedIsDurable, RestartIsInvisible

\* Every step of a handler, a save or a crash keeps it.
LEMMA StoreNext == SInv /\ [Next]_vars => SInv'
<1> SUFFICES ASSUME SInv, [Next]_vars PROVE SInv'
  OBVIOUS
<1>1. ASSUME NEW h \in Handlers,
             \/ UpsertService(h) \/ ScaleService(h) \/ RestartService(h) \/ DeleteService(h)
             \/ BeginSave(h) \/ EndSave(h) \/ FailSave(h)
      PROVE  SInv'
  BY <1>1, RequestStep, BeginSaveStep, EndSaveStep, FailSaveStep
<1>2. CASE UNCHANGED vars
  BY <1>2 DEF vars, bounds, SInv, TypeOK, CopiesAreCurrent, OnlyServing,
     VersionsCounted, AckedBehind, AcknowledgedIsDurable, RestartIsInvisible
<1> QED
  BY <1>1, <1>2, CrashStep, BootStep DEF Next

\* The map holds only valid specs, whatever clients post and files hold.
THEOREM StoreTypeCorrect == Spec => []TypeOK
<1>1. SInv => TypeOK
  BY DEF SInv
<1> QED
  BY <1>1, StoreInit, StoreNext, PTL DEF Spec

\* An acknowledged change is never overwritten by an older copy of the map.
THEOREM AcknowledgedStaysDurable == Spec => []AcknowledgedIsDurable
<1>1. SInv => AcknowledgedIsDurable
  BY DEF SInv
<1> QED
  BY <1>1, StoreInit, StoreNext, PTL DEF Spec

\* At rest, and unless a save failed, a restart restores what is there now.
THEOREM RestartRestores == Spec => []RestartIsInvisible
<1>1. SInv => RestartIsInvisible
  BY DEF SInv
<1> QED
  BY <1>1, StoreInit, StoreNext, PTL DEF Spec
=============================================================================
