----------------------------- MODULE Observation -----------------------------
(***************************************************************************)
(* What an operator is shown: the status of a service, as GET              *)
(* /api/services/:name answers it while the platform works on the service, *)
(* and the history of events.                                              *)
(*                                                                         *)
(* status.Builder reads the spec, then lists the running containers, then  *)
(* asks the tracker for one of them after the other; between these reads   *)
(* requests, passes, monitors and containers go on as in ControlPlane.     *)
(***************************************************************************)
EXTENDS ControlPlane

CONSTANTS
  Retention,  \* the size of the event history
  MaxEvents   \* bound: events recorded

ASSUME ObservationAssumption == Retention \in Int /\ MaxEvents \in Nat

VARIABLES
  reader,  \* the goroutine that serves the request for the status
  steady,  \* history: since the request began the service was as its spec says
  sick,    \* history: its replicas reported unhealthy ever since
  short,   \* history: its spec stayed, and too few replicas ran, ever since
  events, added

history == <<steady, sick, short>>
observationVars == <<allVars, reader, history, events, added>>

Recorder == INSTANCE EventRecorder

Nobody == [c \in Ids |-> "absent"]

IdleReader ==
  [pc |-> "idle", service |-> 0, spec |-> NoSpec, todo |-> {}, seen |-> {},
   generation |-> [c \in Ids |-> 0], report |-> Nobody, answer |-> "none"]

-----------------------------------------------------------------------------
(***************************************************************************)
(* GetService.  ListServices makes the same reads for every service.       *)
(***************************************************************************)
\* spec, found := b.store.Get(name)
ReadSpec ==
  /\ up /\ reader.pc = "idle"
  /\ \E s \in Services :
       /\ Found(services, s)
       /\ reader' = [IdleReader EXCEPT !.pc = "list", !.service = s, !.spec = services[s]]

\* The generation labels in a list of containers.
Labels(listed) == [c \in Ids |-> IF c \in listed THEN containers[c].generation ELSE 0]

\* Mutation: every container is listed, running or not.
ListEverything ==
  /\ reader.pc = "list"
  /\ LET all == {c \in Ids : /\ containers[c].state # "none"
                             /\ containers[c].service \in Claims[reader.service]}
     IN reader' = [reader EXCEPT !.pc = "ask", !.todo = all, !.seen = all,
                     !.generation = Labels(all)]

\* containers, err := b.manager.ListRunningContainers()
ListForStatus ==
  /\ reader.pc = "list"
  /\ LET running == Matching(reader.service)
     IN reader' = [reader EXCEPT !.pc = "ask", !.todo = running, !.seen = running,
                     !.generation = Labels(running)]

\* The list failed: 500.
ListForStatusFails ==
  /\ reader.pc = "list"
  /\ Fault
  /\ reader' = IdleReader
  /\ UNCHANGED <<services, containers, created, tracker, pass, requests, process>>

\* b.tracker.Get for the next container of the list, the newest first.
AskTracker ==
  /\ reader.pc = "ask"
  /\ \E c \in reader.todo :
       /\ \A d \in reader.todo : d <= c
       /\ reader' = [reader EXCEPT !.todo = reader.todo \ {c},
                       !.report = [reader.report EXCEPT ![c] = tracker[c]]]

\* The overall status is derived and answered.
Answer ==
  /\ reader.pc = "ask" /\ reader.todo = {}
  /\ reader' = [IdleReader EXCEPT !.pc = "answered", !.service = reader.service,
                  !.answer = Overall(Counts(reader.spec, reader.seen, reader.generation,
                                            reader.report))]

\* The client has its answer.
Done ==
  /\ reader.pc = "answered"
  /\ reader' = IdleReader

ReadStatus == ReadSpec \/ ListForStatus \/ AskTracker \/ Answer \/ Done

-----------------------------------------------------------------------------
(***************************************************************************)
(* What was the case in every state since the request began.               *)
(***************************************************************************)
\* Service s runs what it should, and every replica was found healthy.
AllWell(s) == Found(services, s) /\ Settled(s) /\ \A c \in Matching(s) : tracker[c] = "healthy"

SickReplicas(s) == {c \in Matching(s) : tracker[c] = "unhealthy"}

Lacking(s) == Cardinality(Matching(s)) < services[s].replicas

Remember ==
  \/ /\ reader'.pc = "idle"
     /\ steady' = FALSE /\ sick' = {} /\ short' = FALSE
  \/ /\ reader'.pc # "idle"
     /\ \E s \in Services :
          LET began == reader.pc = "idle" IN
          /\ s = reader'.service
          /\ steady' = ((began \/ steady) /\ AllWell(s)')
          /\ sick' = (IF began THEN Ids ELSE sick) \cap SickReplicas(s)'
          /\ short' = ((began \/ (short /\ services'[s] = services[s])) /\ Lacking(s)')

-----------------------------------------------------------------------------
ObservationInit ==
  /\ ControlPlaneInit
  /\ reader = IdleReader
  /\ steady = FALSE /\ sick = {} /\ short = FALSE
  /\ Recorder!Init

\* The platform goes on.  A crash takes the request and the history with it.
Platform ==
  /\ ControlPlaneNext
  /\ \/ crashes' = crashes /\ UNCHANGED <<reader, events, added>>
     \/ crashes' # crashes /\ reader' = IdleReader /\ events' = <<>> /\ added' = 0
  /\ Remember

\* The request for the status goes on.
Reader ==
  /\ (ReadStatus /\ UNCHANGED allVars) \/ ListForStatusFails
  /\ UNCHANGED <<events, added>>
  /\ Remember

\* Some goroutine records an event.
Announce ==
  /\ up /\ added < MaxEvents
  /\ Recorder!Add
  /\ UNCHANGED <<allVars, reader, history>>

ObservationNext == Platform \/ Reader \/ Announce

ObservationSpec == ObservationInit /\ [][ObservationNext]_observationVars

-----------------------------------------------------------------------------
(***************************************************************************)
(* Properties.                                                             *)
(***************************************************************************)
\* A service that is as desired, all its replicas found healthy, from the
\* beginning of a request to its answer is reported healthy, whatever passes
\* and monitors do meanwhile (README.md:485).
SteadyIsHealthy == (reader.pc = "answered" /\ steady) => reader.answer = "healthy"

\* A replica that is reported unhealthy all the time keeps its service from
\* being shown healthy, or merely starting (README.md:483).
SickIsNoticed ==
  (reader.pc = "answered" /\ sick # {}) => reader.answer \notin {"healthy", "starting"}

\* So does a lack of replicas, as long as the spec stays the same: containers
\* that come and go between the reads do not add up (README.md:481).
ShortIsNoticed == (reader.pc = "answered" /\ short) => reader.answer = "progressing"

\* The history shows the newest events in turn, whatever was trimmed.
HistoryIsRecent == \A limit \in -1 .. MaxEvents : Recorder!List(limit) = Recorder!Page(limit)
=============================================================================
