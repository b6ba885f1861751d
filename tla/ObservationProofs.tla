-------------------------- MODULE ObservationProofs --------------------------
(***************************************************************************)
(* What an operator is shown, for every number of services and replicas:   *)
(* statuses that were read while the platform went on, and the history of  *)
(* events.                                                                 *)
(***************************************************************************)
EXTENDS Observation, DeployerProofs, Sequences

\* The history is a run of consecutive events that ends with the last one added,
\* as long as it may be.
Consecutive ==
  /\ added \in Nat
  /\ events \in Seq(Nat)
  /\ Len(events) = Recorder!Retained
  /\ \A i \in 1 .. Len(events) : events[i] = added - Len(events) + i

\* The history keeps at least one event.
LEMMA MaxSizePositive == Recorder!maxSize \in Nat \ {0}
BY ObservationAssumption DEF ObservationAssumption, Recorder!maxSize

\* Appending the next event keeps the history a run, and trimming drops the
\* oldest event at most.
LEMMA AddStep == Consecutive /\ Recorder!Add => Consecutive'
<1> SUFFICES ASSUME Consecutive, Recorder!Add PROVE Consecutive'
  OBVIOUS
<1> DEFINE all == Append(events, added + 1)
           max == Recorder!maxSize
           n == Len(events)
<1>1. max \in Nat /\ max > 0 /\ n \in Nat
  BY MaxSizePositive DEF Consecutive
<1>2. n = (IF added < max THEN added ELSE max)
  BY DEF Consecutive, Recorder!Retained
<1>3. all \in Seq(Nat) /\ Len(all) = n + 1
  BY DEF Consecutive
<1>4. \A i \in 1 .. n + 1 : all[i] = added - n + i
  BY DEF Consecutive
<1>5. added' = added + 1 /\ added' \in Nat
  BY DEF Recorder!Add, Consecutive
<1>6. events' = IF Len(all) > max THEN SubSeq(all, Len(all) - max + 1, Len(all)) ELSE all
  BY DEF Recorder!Add, Recorder!Trim
<1>7. Recorder!Retained' = IF added + 1 < max THEN added + 1 ELSE max
  BY <1>5 DEF Recorder!Retained, Recorder!maxSize
<1> HIDE DEF all, max
<1>8. CASE n < max
  <2>1. events' = all
    BY <1>1, <1>3, <1>6, <1>8
  <2>2. n = added
    BY <1>1, <1>2, <1>8 DEF Consecutive
  <2>3. Len(events') = Recorder!Retained'
    BY <1>1, <1>3, <1>7, <1>8, <2>1, <2>2
  <2> QED
    BY <1>1, <1>3, <1>4, <1>5, <2>1, <2>2, <2>3 DEF Consecutive
<1>9. CASE n >= max
  <2>1. n = max /\ added >= max
    BY <1>1, <1>2, <1>9 DEF Consecutive
  <2>2. events' = SubSeq(all, 2, max + 1)
    BY <1>1, <1>3, <1>6, <2>1
  <2>3. /\ events' \in Seq(Nat) /\ Len(events') = max
        /\ \A i \in 1 .. max : events'[i] = all[i + 1]
    BY <1>1, <1>3, <2>1, <2>2
  <2>4. Len(events') = Recorder!Retained'
    BY <1>1, <1>7, <2>1, <2>3 DEF Consecutive
  <2>5. \A i \in 1 .. Len(events') : events'[i] = added' - Len(events') + i
    <3> SUFFICES ASSUME NEW i \in 1 .. max PROVE events'[i] = added' - max + i
      BY <2>3
    <3>1. i + 1 \in 1 .. n + 1 /\ i \in Int
      BY <1>1, <2>1
    <3>2. events'[i] = added - n + (i + 1)
      BY <1>4, <2>3, <3>1
    <3> QED
      BY <1>1, <1>5, <2>1, <3>1, <3>2 DEF Consecutive
  <2> QED
    BY <1>5, <2>3, <2>4, <2>5 DEF Consecutive
<1> QED
  BY <1>1, <1>8, <1>9

\* A page counts back from the last event of the run.
LEMMA PagesAreRecent == Consecutive => HistoryIsRecent
<1> SUFFICES ASSUME Consecutive, NEW limit \in -1 .. MaxEvents
             PROVE  Recorder!List(limit) = Recorder!Page(limit)
  BY DEF HistoryIsRecent
<1> DEFINE n == IF limit < 1 \/ limit > Len(events) THEN Len(events) ELSE limit
<1>1. Len(events) \in Nat /\ limit \in Int
  BY ObservationAssumption DEF Consecutive, ObservationAssumption
<1>2. n \in Nat /\ n <= Len(events)
  BY <1>1
<1>3. Recorder!List(limit) = [i \in 1 .. n |-> events[Len(events) - i + 1]]
  BY DEF Recorder!List
<1>4. Recorder!Page(limit) = [i \in 1 .. n |-> added - i + 1]
  BY DEF Recorder!Page, Consecutive
<1> HIDE DEF n
<1>5. \A i \in 1 .. n : events[Len(events) - i + 1] = added - i + 1
  BY <1>1, <1>2 DEF Consecutive
<1> QED
  BY <1>3, <1>4, <1>5

\* Every page of the history holds the newest events in turn, whatever the
\* platform does and however many events were trimmed.
THEOREM HistoryShowsTheNewest == ObservationSpec => []HistoryIsRecent
<1>1. ObservationInit => Consecutive
  BY MaxSizePositive DEF ObservationInit, Recorder!Init, Consecutive, Recorder!Retained
<1>2. Consecutive /\ [ObservationNext]_observationVars => Consecutive'
  <2> SUFFICES ASSUME Consecutive, [ObservationNext]_observationVars PROVE Consecutive'
    OBVIOUS
  <2>1. CASE UNCHANGED <<events, added>>
    BY <2>1 DEF Consecutive, Recorder!Retained, Recorder!maxSize
  <2>2. CASE Announce
    BY <2>2, AddStep DEF Announce
  <2>3. CASE events' = <<>> /\ added' = 0
    BY <2>3, MaxSizePositive DEF Consecutive, Recorder!Retained, Recorder!maxSize
  <2> QED
    BY <2>1, <2>2, <2>3 DEF ObservationNext, Platform, Reader, observationVars
<1> QED
  BY <1>1, <1>2, PagesAreRecent, PTL DEF ObservationSpec

-----------------------------------------------------------------------------
(***************************************************************************)
(* The status: how it follows from what was read.                          *)
(***************************************************************************)
\* A set of containers with a member counts for more than none.
LEMMA CountPositive ==
  ASSUME NEW S \in SUBSET Ids, NEW c \in S
  PROVE  Cardinality(S) > 0
<1>1. IsFiniteSet(Ids)
  BY FS_Interval, DeployerAssumption DEF Ids
<1>2. IsFiniteSet(S)
  BY <1>1, FS_Subset
<1> QED
  BY <1>2, CountType, FS_EmptySet

\* Fewer replicas than desired show as progress.
LEMMA ShortStatus ==
  ASSUME NEW spec, NEW seen, NEW generation, NEW report, Cardinality(seen) < spec.replicas
  PROVE  Overall(Counts(spec, seen, generation, report)) = "progressing"
  BY DEF Overall, Counts

\* One unhealthy report keeps a service from being healthy or starting.
LEMMA SickStatus ==
  ASSUME NEW spec, NEW seen \in SUBSET Ids, NEW generation, NEW report,
         NEW c \in seen, report[c] = "unhealthy"
  PROVE  Overall(Counts(spec, seen, generation, report)) \notin {"healthy", "starting"}
<1> DEFINE n == Counts(spec, seen, generation, report)
           sickOnes == {d \in seen : report[d] = "unhealthy"}
<1>1. sickOnes \in SUBSET Ids /\ c \in sickOnes
  OBVIOUS
<1>2. Cardinality(sickOnes) > 0
  BY <1>1, CountPositive
<1>3. n.unhealthy = Cardinality(sickOnes)
  BY DEF Counts
<1> HIDE DEF n, sickOnes
<1> QED
  BY <1>2, <1>3 DEF Overall, n

\* As many replicas as desired, all current and healthy, show as healthy.
LEMMA WellStatus ==
  ASSUME NEW spec, spec.replicas \in Int, NEW seen \in SUBSET Ids, NEW generation, NEW report,
         Cardinality(seen) >= spec.replicas,
         \A c \in seen : generation[c] = spec.generation /\ report[c] = "healthy"
  PROVE  Overall(Counts(spec, seen, generation, report)) = "healthy"
<1>1. /\ {c \in seen : generation[c] # spec.generation} = {}
      /\ {c \in seen : report[c] = "unhealthy"} = {}
      /\ {c \in seen : ~HasCheck(report[c])} = {}
  BY DEF HasCheck
<1>2. Cardinality({}) = 0 /\ Cardinality(seen) \in Nat
  BY FS_EmptySet, CountType
<1> DEFINE n == Counts(spec, seen, generation, report)
<1>3. /\ n.running = Cardinality(seen) /\ n.desired = spec.replicas
      /\ n.outdated = 0 /\ n.unhealthy = 0 /\ n.unknown = 0
  BY <1>1, <1>2 DEF Counts
<1> HIDE DEF n
<1>4. ~(n.running < n.desired)
  BY <1>2, <1>3
<1> QED
  BY <1>3, <1>4 DEF Overall, n

-----------------------------------------------------------------------------
(***************************************************************************)
(* The status: what is remembered of the reads.                            *)
(***************************************************************************)
\* What an answer may say.
Statuses == {"none", "progressing", "rolling", "degraded", "starting", "healthy"}

ReaderType ==
  [pc : {"idle", "list", "ask", "answered"}, service : Services \cup {0},
   spec : ValidSpec \cup {NoSpec}, todo : SUBSET Ids, seen : SUBSET Ids,
   generation : [Ids -> Nat], report : [Ids -> Health], answer : Statuses]

\* A request under way is about a service that was found.
ReaderTyped ==
  /\ reader \in ReaderType
  /\ reader.pc # "idle" => reader.service \in Services
  /\ reader.pc \in {"list", "ask"} => reader.spec \in ValidSpec
  /\ reader.pc = "ask" => reader.todo \subseteq reader.seen

\* While the service was steady, what was read is what there is.
SteadyReads ==
  (reader.pc \in {"list", "ask"} /\ steady) =>
    /\ AllWell(reader.service)
    /\ services[reader.service].replicas = reader.spec.replicas
    /\ services[reader.service].generation = reader.spec.generation
    /\ reader.pc = "ask" =>
         /\ reader.seen = Matching(reader.service)
         /\ \A c \in reader.seen : reader.generation[c] = reader.spec.generation
         /\ \A c \in reader.seen \ reader.todo : reader.report[c] = "healthy"

\* A replica that was unhealthy all the time is in the list, and when it was
\* asked for, the answer said so.
SickReads ==
  reader.pc \in {"list", "ask"} =>
    /\ sick \subseteq SickReplicas(reader.service)
    /\ reader.pc = "ask" =>
         /\ sick \subseteq reader.seen
         /\ \A c \in sick \ reader.todo : reader.report[c] = "unhealthy"

\* While replicas were lacking, the spec that was read is in force, and the list
\* lacks replicas, too.
ShortReads ==
  (reader.pc \in {"list", "ask"} /\ short) =>
    /\ services[reader.service] = reader.spec
    /\ Lacking(reader.service)
    /\ reader.pc = "ask" => Cardinality(reader.seen) < reader.spec.replicas

-----------------------------------------------------------------------------
(***************************************************************************)
(* The steps of a request, field by field.                                 *)
(***************************************************************************)
\* The platform keeps its type; a list that fails only uses up a fault.
LEMMA PlatformTyped == IInv /\ [ObservationNext]_observationVars => IInv'
<1> SUFFICES ASSUME IInv, [ObservationNext]_observationVars PROVE IInv'
  OBVIOUS
<1>1. CASE [ControlPlaneNext]_allVars
  BY <1>1, NextOK
<1>2. CASE ListForStatusFails
  <2>1. faults' \in 0 .. MaxFaults
    BY <1>2, FaultType DEF ListForStatusFails, IInv, TypeOK
  <2>2. UNCHANGED <<services, containers, created, tracker, pass, requests, process>>
    BY <1>2 DEF ListForStatusFails
  <2> QED
    BY <2>1, <2>2 DEF process, IInv, TypeOK, PassesWorkOnSpecs, ProcessOK, FreshIds
<1> QED
  BY <1>1, <1>2 DEF ObservationNext, Platform, Reader, Announce, observationVars

\* The generation labels that a list shows.
LEMMA LabelsType ==
  ASSUME IInv, NEW listed \in SUBSET Ids
  PROVE  /\ Labels(listed) \in [Ids -> Nat]
         /\ \A c \in listed : Labels(listed)[c] = containers[c].generation
<1>1. \A c \in Ids : containers[c].generation \in Nat
  BY SpecsAssumption DEF IInv, TypeOK, Container, NoContainer
<1> QED
  BY <1>1 DEF Labels

\* No request.
LEMMA IdleReaderType == IdleReader \in ReaderType /\ IdleReader.pc = "idle"
<1>1. Nobody \in [Ids -> Health] /\ [c \in Ids |-> 0] \in [Ids -> Nat]
  BY DEF Nobody, Health
<1> QED
  BY <1>1 DEF IdleReader, ReaderType, Statuses

\* The list of containers is read.
LEMMA ListFacts ==
  ASSUME IInv, ReaderTyped, ListForStatus
  PROVE  /\ reader.pc = "list" /\ reader'.pc = "ask"
         /\ reader'.service = reader.service /\ reader'.spec = reader.spec
         /\ reader'.todo = Matching(reader.service) /\ reader'.seen = Matching(reader.service)
         /\ \A c \in Matching(reader.service) :
              reader'.generation[c] = containers[c].generation
         /\ reader' \in ReaderType
<1> DEFINE running == Matching(reader.service)
<1>1. running \in SUBSET Ids
  BY DEF Matching, Running
<1>2. /\ Labels(running) \in [Ids -> Nat]
      /\ \A c \in running : Labels(running)[c] = containers[c].generation
  BY <1>1, LabelsType
<1>3. reader' = [reader EXCEPT !.pc = "ask", !.todo = running, !.seen = running,
                   !.generation = Labels(running)]
  BY DEF ListForStatus
<1> HIDE DEF running
<1>4. /\ reader'.pc = "ask" /\ reader'.service = reader.service /\ reader'.spec = reader.spec
      /\ reader'.todo = running /\ reader'.seen = running
      /\ reader'.generation = Labels(running) /\ reader' \in ReaderType
  BY <1>1, <1>2, <1>3 DEF ReaderTyped, ReaderType
<1> QED
  BY <1>2, <1>4 DEF ListForStatus, running

\* One report is read.
LEMMA AskFacts ==
  ASSUME IInv, ReaderTyped, AskTracker
  PROVE  /\ reader.pc = "ask" /\ reader'.pc = "ask"
         /\ reader'.service = reader.service /\ reader'.spec = reader.spec
         /\ reader'.seen = reader.seen /\ reader'.generation = reader.generation
         /\ reader' \in ReaderType
         /\ \E c \in reader.todo :
              /\ reader'.todo = reader.todo \ {c}
              /\ reader'.report[c] = tracker[c]
              /\ \A d \in Ids \ {c} : reader'.report[d] = reader.report[d]
<1>1. PICK c \in reader.todo :
        reader' = [reader EXCEPT !.todo = reader.todo \ {c},
                     !.report = [reader.report EXCEPT ![c] = tracker[c]]]
  BY DEF AskTracker
<1> DEFINE report == [reader.report EXCEPT ![c] = tracker[c]]
<1>2. c \in Ids /\ tracker[c] \in Health
  BY DEF ReaderTyped, ReaderType, IInv, TypeOK
<1>3. report \in [Ids -> Health] /\ report[c] = tracker[c]
      /\ \A d \in Ids \ {c} : report[d] = reader.report[d]
  BY <1>2 DEF ReaderTyped, ReaderType
<1>4. reader' = [reader EXCEPT !.todo = reader.todo \ {c}, !.report = report]
  BY <1>1
<1> HIDE DEF report
<1>5. /\ reader'.pc = reader.pc /\ reader'.service = reader.service
      /\ reader'.spec = reader.spec /\ reader'.seen = reader.seen
      /\ reader'.generation = reader.generation /\ reader'.todo = reader.todo \ {c}
      /\ reader'.report = report /\ reader' \in ReaderType
  BY <1>3, <1>4 DEF ReaderTyped, ReaderType
<1> QED
  BY <1>3, <1>5 DEF AskTracker

\* The request begins.
LEMMA ReadSpecFacts ==
  ASSUME IInv, ReadSpec
  PROVE  /\ reader.pc = "idle" /\ reader'.pc = "list"
         /\ reader'.service \in Services
         /\ reader'.spec = services[reader'.service] /\ reader'.spec \in ValidSpec
         /\ reader' \in ReaderType
<1>1. PICK s \in Services :
        /\ Found(services, s)
        /\ reader' = [IdleReader EXCEPT !.pc = "list", !.service = s, !.spec = services[s]]
  BY DEF ReadSpec
<1>2. services[s] \in ValidSpec
  BY <1>1, FoundGeneration DEF IInv, TypeOK
<1>3. IdleReader \in ReaderType
  BY IdleReaderType
<1> QED
  BY <1>1, <1>2, <1>3 DEF ReadSpec, ReaderType, IdleReader

\* The request is answered.
LEMMA AnswerFacts ==
  ASSUME ReaderTyped, Answer
  PROVE  /\ reader.pc = "ask" /\ reader.todo = {} /\ reader'.pc = "answered"
         /\ reader'.service = reader.service
         /\ reader'.answer = Overall(Counts(reader.spec, reader.seen, reader.generation,
                                            reader.report))
         /\ reader' \in ReaderType
<1> DEFINE answer == Overall(Counts(reader.spec, reader.seen, reader.generation, reader.report))
<1>1. answer \in Statuses
  BY DEF Overall, Statuses
<1>2. reader' = [IdleReader EXCEPT !.pc = "answered", !.service = reader.service,
                   !.answer = answer]
  BY DEF Answer
<1>3. IdleReader \in ReaderType
  BY IdleReaderType
<1> HIDE DEF answer
<1>4. reader'.pc = "answered" /\ reader'.service = reader.service /\ reader'.answer = answer
      /\ reader' \in ReaderType
  BY <1>1, <1>2, <1>3 DEF ReaderTyped, ReaderType, IdleReader
<1> QED
  BY <1>4 DEF Answer, answer

\* The reader stays well-formed.
LEMMA ReaderStep ==
  ASSUME IInv, ReaderTyped, [ObservationNext]_observationVars
  PROVE  ReaderTyped'
<1>1. CASE UNCHANGED reader
  BY <1>1 DEF ReaderTyped
<1>2. CASE reader' = IdleReader
  BY <1>2, IdleReaderType DEF ReaderTyped
<1>3. CASE ReadSpec
  BY <1>3, ReadSpecFacts DEF ReaderTyped
<1>4. CASE ListForStatus
  BY <1>4, ListFacts DEF ReaderTyped
<1>5. CASE AskTracker
  BY <1>5, AskFacts DEF ReaderTyped
<1>6. CASE Answer
  BY <1>6, AnswerFacts DEF ReaderTyped
<1> QED
  BY <1>1, <1>2, <1>3, <1>4, <1>5, <1>6
  DEF ObservationNext, Platform, Reader, Announce, ReadStatus, ListForStatusFails, Done,
      observationVars

\* What the history takes up in a step of a request under way.
LEMMA RememberFacts ==
  ASSUME Remember, reader'.pc # "idle"
  PROVE  /\ steady' = ((reader.pc = "idle" \/ steady) /\ AllWell(reader.service)')
         /\ sick' = (IF reader.pc = "idle" THEN Ids ELSE sick) \cap SickReplicas(reader.service)'
         /\ short' = ((\/ reader.pc = "idle"
                       \/ short /\ services'[reader'.service] = services[reader'.service])
                      /\ Lacking(reader.service)')
<1>1. PICK s \in Services :
        /\ s = reader'.service
        /\ steady' = ((reader.pc = "idle" \/ steady) /\ AllWell(s)')
        /\ sick' = (IF reader.pc = "idle" THEN Ids ELSE sick) \cap SickReplicas(s)'
        /\ short' = ((reader.pc = "idle" \/ (short /\ services'[s] = services[s])) /\ Lacking(s)')
  BY DEF Remember
<1>2. /\ AllWell(reader.service)' = AllWell(s)'
      /\ SickReplicas(reader.service)' = SickReplicas(s)'
      /\ Lacking(reader.service)' = Lacking(s)'
  BY <1>1 DEF AllWell, SickReplicas, Lacking, Settled, Matching, Found
<1> QED
  BY <1>1, <1>2

\* The kinds of steps: the platform goes on, the request goes on, or neither.
LEMMA Steps ==
  ASSUME [ObservationNext]_observationVars
  PROVE  \/ UNCHANGED <<allVars, reader, history>>
         \/ ControlPlaneNext /\ UNCHANGED reader /\ Remember
         \/ ReadSpec /\ UNCHANGED allVars /\ Remember
         \/ ListForStatus /\ UNCHANGED allVars /\ Remember
         \/ AskTracker /\ UNCHANGED allVars /\ Remember
         \/ Answer /\ UNCHANGED allVars /\ Remember
         \/ reader' = IdleReader
  BY DEF ObservationNext, Platform, Reader, Announce, ReadStatus, ListForStatusFails, Done,
      observationVars

-----------------------------------------------------------------------------
(***************************************************************************)
(* The three properties of a status.                                       *)
(***************************************************************************)
\* Every step keeps what is known of the reads of a replica that is unhealthy.
LEMMA SickStep ==
  ASSUME IInv, ReaderTyped, SickReads, SickIsNoticed, [ObservationNext]_observationVars
  PROVE  SickReads' /\ SickIsNoticed'
<1>1. CASE UNCHANGED <<allVars, reader, history>>
  BY <1>1 DEF allVars, vars, history, SickReads, SickIsNoticed, SickReplicas, Matching, Running
<1>2. CASE reader' = IdleReader
  BY <1>2, IdleReaderType DEF SickReads, SickIsNoticed
<1>3. ASSUME reader.pc # "idle", reader'.pc # "idle", Remember
      PROVE  sick' \subseteq sick /\ sick' \subseteq SickReplicas(reader.service)'
  BY <1>3, RememberFacts
<1>4. CASE ControlPlaneNext /\ UNCHANGED reader /\ Remember
  BY <1>3, <1>4 DEF SickReads, SickIsNoticed
<1>5. CASE ReadSpec /\ UNCHANGED allVars /\ Remember
  BY <1>5, ReadSpecFacts, RememberFacts DEF SickReads, SickIsNoticed
<1>6. CASE ListForStatus /\ UNCHANGED allVars /\ Remember
  <2>1. /\ reader.pc = "list" /\ reader'.pc = "ask"
        /\ reader'.seen = Matching(reader.service) /\ reader'.todo = reader'.seen
    BY <1>6, ListFacts
  <2>2. sick \subseteq Matching(reader.service)
    BY <2>1 DEF SickReads, SickReplicas
  <2> QED
    BY <1>3, <1>6, <2>1, <2>2 DEF SickReads, SickIsNoticed
<1>7. CASE AskTracker /\ UNCHANGED allVars /\ Remember
  <2>1. PICK c \in reader.todo :
          /\ reader'.todo = reader.todo \ {c}
          /\ reader'.report[c] = tracker[c]
          /\ \A d \in Ids \ {c} : reader'.report[d] = reader.report[d]
    BY <1>7, AskFacts
  <2>2. reader.pc = "ask" /\ reader'.pc = "ask" /\ reader'.seen = reader.seen
    BY <1>7, AskFacts
  <2>3. \A d \in sick : d \in Ids /\ tracker[d] = "unhealthy"
    BY <2>2 DEF SickReads, SickReplicas, Matching, Running
  <2> QED
    BY <1>3, <1>7, <2>1, <2>2, <2>3 DEF SickReads, SickIsNoticed
<1>8. CASE Answer /\ UNCHANGED allVars /\ Remember
  <2>1. /\ reader.pc = "ask" /\ reader.todo = {} /\ reader'.pc = "answered"
        /\ reader'.answer = Overall(Counts(reader.spec, reader.seen, reader.generation,
                                           reader.report))
    BY <1>8, AnswerFacts
  <2>2. reader.seen \in SUBSET Ids
    BY DEF ReaderTyped, ReaderType
  <2>3. ASSUME NEW c \in sick PROVE c \in reader.seen /\ reader.report[c] = "unhealthy"
    BY <2>1, <2>3 DEF SickReads
  <2>4. sick # {} => reader'.answer \notin {"healthy", "starting"}
    BY <2>1, <2>2, <2>3, SickStatus
  <2> QED
    BY <1>3, <1>8, <2>1, <2>4 DEF SickReads, SickIsNoticed
<1> QED
  BY <1>1, <1>2, <1>4, <1>5, <1>6, <1>7, <1>8, Steps

\* Every step keeps what is known of the reads of a service that lacks replicas.
LEMMA ShortStep ==
  ASSUME IInv, ReaderTyped, ShortReads, ShortIsNoticed, [ObservationNext]_observationVars
  PROVE  ShortReads' /\ ShortIsNoticed'
<1>1. CASE UNCHANGED <<allVars, reader, history>>
  BY <1>1 DEF allVars, vars, history, ShortReads, ShortIsNoticed, Lacking, Matching, Running
<1>2. CASE reader' = IdleReader
  BY <1>2, IdleReaderType DEF ShortReads, ShortIsNoticed
<1>3. ASSUME reader.pc # "idle", reader'.pc # "idle", Remember, short'
      PROVE  /\ short /\ Lacking(reader.service)'
             /\ services'[reader'.service] = services[reader'.service]
  BY <1>3, RememberFacts
<1>4. CASE ControlPlaneNext /\ UNCHANGED reader /\ Remember
  BY <1>3, <1>4 DEF ShortReads, ShortIsNoticed
<1>5. CASE ReadSpec /\ UNCHANGED allVars /\ Remember
  BY <1>5, ReadSpecFacts, RememberFacts DEF ShortReads, ShortIsNoticed, allVars, vars
<1>6. CASE ListForStatus /\ UNCHANGED allVars /\ Remember
  <2>1. /\ reader.pc = "list" /\ reader'.pc = "ask"
        /\ reader'.seen = Matching(reader.service)
        /\ reader'.service = reader.service /\ reader'.spec = reader.spec
    BY <1>6, ListFacts
  <2>2. short => Cardinality(Matching(reader.service)) < reader.spec.replicas
    BY <2>1 DEF ShortReads, Lacking
  <2> QED
    BY <1>3, <1>6, <2>1, <2>2 DEF ShortReads, ShortIsNoticed
<1>7. CASE AskTracker /\ UNCHANGED allVars /\ Remember
  <2>1. /\ reader.pc = "ask" /\ reader'.pc = "ask" /\ reader'.seen = reader.seen
        /\ reader'.service = reader.service /\ reader'.spec = reader.spec
    BY <1>7, AskFacts
  <2> QED
    BY <1>3, <1>7, <2>1 DEF ShortReads, ShortIsNoticed
<1>8. CASE Answer /\ UNCHANGED allVars /\ Remember
  <2>1. /\ reader.pc = "ask" /\ reader'.pc = "answered"
        /\ reader'.answer = Overall(Counts(reader.spec, reader.seen, reader.generation,
                                           reader.report))
    BY <1>8, AnswerFacts
  <2>2. short => reader'.answer = "progressing"
    BY <2>1, ShortStatus DEF ShortReads
  <2> QED
    BY <1>3, <1>8, <2>1, <2>2 DEF ShortReads, ShortIsNoticed
<1> QED
  BY <1>1, <1>2, <1>4, <1>5, <1>6, <1>7, <1>8, Steps

\* A step that changes the containers changes one of them, and no spec.
LEMMA OneChange ==
  ASSUME IInv, [ControlPlaneNext]_allVars
  PROVE  UNCHANGED containers \/ (UNCHANGED services /\ \E c \in Ids : OnlyChanges(c))
<1>0. DockerOK
  BY DockerFacts
<1>1. ASSUME NEW t \in Callers, Creates(t)
      PROVE  UNCHANGED services /\ \E c \in Ids : OnlyChanges(c)
  <2>1. pass[t].service \in Services /\ SpecOf(pass[t]) \in ValidSpec
    BY <1>1, PassFacts DEF Creates, CreateReplica, Working
  <2> QED
    BY <1>0, <1>1, <2>1, CreateContainerStep DEF Creates, CreateReplica
<1>2. ASSUME NEW t \in Callers, Starts(t)
      PROVE  UNCHANGED services /\ \E c \in Ids : OnlyChanges(c)
  <2>1. pass[t].starting \in Ids
    BY <1>2, PassFacts DEF Starts, StartReplica
  <2> QED
    BY <1>0, <1>2, <2>1, StartContainerStep DEF Starts, StartReplica
<1>3. ASSUME NEW t \in Callers, NEW c \in Ids, Stops(t, c)
      PROVE  UNCHANGED services /\ OnlyChanges(c)
  BY <1>0, <1>3, StopStep DEF Stops, ReplaceUnhealthy, RolloutStop, ScaleDown, StopVictim
<1>4. ASSUME NEW c \in Ids, StartsLate(c) \/ ContainerExits(c)
      PROVE  UNCHANGED services /\ OnlyChanges(c)
  BY <1>0, <1>4, AloneStep DEF StartsLate, ContainerExits
<1> QED
  BY <1>1, <1>2, <1>3, <1>4, DockerSteps

\* A step from one steady state of a service to another leaves its replicas and
\* its spec alone: a container more or less would change their number.
LEMMA SteadyStays ==
  ASSUME OwnNames, IInv, IInv', [ControlPlaneNext]_allVars, NEW s \in Services, AllWell(s), AllWell(s)'
  PROVE  /\ Matching(s)' = Matching(s)
         /\ services'[s].replicas = services[s].replicas
         /\ services'[s].generation = services[s].generation
<1> DEFINE mine == {c \in Running : containers[c].service = s}
           n == Cardinality(mine)
<1>1. Matching(s) = mine /\ Matching(s)' = mine'
  BY DEF OwnNames, Matching
<1>2. /\ n = services[s].replicas
      /\ \A c \in mine : containers[c].generation = services[s].generation
  BY DEF AllWell, Settled
<1>3. /\ n' = services'[s].replicas
      /\ \A c \in mine' : containers'[c].generation = services'[s].generation
  BY DEF AllWell, Settled
<1>4. CASE UNCHANGED containers
  <2>1. mine' = mine
    BY <1>4 DEF Running
  <2>2. services[s] \in ValidSpec
    BY FoundGeneration DEF AllWell, IInv, TypeOK
  <2>3. mine \in SUBSET Ids /\ IsFiniteSet(Ids)
    BY FS_Interval, DeployerAssumption DEF Running, Ids
  <2>4. n > 0
    BY <1>2, <2>2 DEF ValidSpec
  <2>5. mine # {}
    BY <2>4, FS_EmptySet
  <2>6. n' = n
    BY <2>1
  <2> HIDE DEF mine, n
  <2> QED
    BY <1>1, <1>2, <1>3, <1>4, <2>1, <2>5, <2>6
<1>5. ASSUME UNCHANGED services, NEW c \in Ids, OnlyChanges(c) PROVE mine' = mine
  <2>1. mine \in SUBSET Ids /\ mine' \in SUBSET Ids /\ IsFiniteSet(Ids)
    BY FS_Interval, DeployerAssumption DEF Running, Ids
  <2>2. IsFiniteSet(mine) /\ IsFiniteSet(mine') /\ n \in Nat /\ n' \in Nat
    BY <2>1, FS_Subset, FS_CardinalityType
  <2>3. mine' \ {c} = mine \ {c}
    BY <1>5 DEF OnlyChanges, Running
  <2>4. n' = n
    BY <1>2, <1>3, <1>5
  <2> HIDE DEF mine
  <2>5. /\ Cardinality(mine \ {c}) = IF c \in mine THEN n - 1 ELSE n
        /\ Cardinality(mine' \ {c}) = IF c \in mine' THEN n' - 1 ELSE n'
    BY <2>2, FS_RemoveElement
  <2>6. c \in mine <=> c \in mine'
    BY <2>2, <2>3, <2>4, <2>5
  <2> QED
    BY <2>3, <2>6
<1> QED
  BY <1>1, <1>4, <1>5, OneChange

\* Every step keeps what is known of the reads of a steady service.
LEMMA SteadyStep ==
  ASSUME OwnNames, IInv, IInv', ReaderTyped, SteadyReads, SteadyIsHealthy,
         [ObservationNext]_observationVars
  PROVE  SteadyReads' /\ SteadyIsHealthy'
<1>1. CASE UNCHANGED <<allVars, reader, history>>
  BY <1>1 DEF allVars, vars, history, SteadyReads, SteadyIsHealthy, AllWell, Settled, Found, Matching,
     Running
<1>2. CASE reader' = IdleReader
  BY <1>2, IdleReaderType DEF SteadyReads, SteadyIsHealthy
<1>3. ASSUME reader.pc # "idle", reader'.pc # "idle", Remember, steady'
      PROVE  steady /\ AllWell(reader.service)'
  BY <1>3, RememberFacts
<1>4. CASE ControlPlaneNext /\ UNCHANGED reader /\ Remember
  <2>1. CASE reader.pc \in {"list", "ask"} /\ steady'
    <3> DEFINE s == reader.service
    <3>1. s \in Services /\ AllWell(s) /\ AllWell(s)' /\ steady
      <4>1. reader.pc # "idle" /\ reader'.pc # "idle"
        BY <1>4, <2>1
      <4> QED
        BY <1>3, <1>4, <2>1, <4>1 DEF ReaderTyped, SteadyReads
    <3>2. PICK x \in Services : x = reader.service
      BY <3>1
    <3>3. AllWell(x) /\ AllWell(x)'
      BY <1>4, <3>1, <3>2 DEF AllWell, Settled, Found, Matching
    <3>4. /\ Matching(x)' = Matching(x)
          /\ services'[x].replicas = services[x].replicas
          /\ services'[x].generation = services[x].generation
      BY <1>4, <3>3, SteadyStays
    <3>5. Matching(reader.service)' = Matching(x)' /\ Matching(reader.service) = Matching(x)
      BY <1>4, <3>2 DEF Matching
    <3> QED
      BY <1>4, <2>1, <3>1, <3>2, <3>4, <3>5 DEF SteadyReads, SteadyIsHealthy
  <2>2. CASE reader.pc \notin {"list", "ask"} \/ ~steady'
    BY <1>3, <1>4, <2>2 DEF SteadyReads, SteadyIsHealthy
  <2> QED
    BY <2>1, <2>2
<1>5. CASE ReadSpec /\ UNCHANGED allVars /\ Remember
  BY <1>5, ReadSpecFacts, RememberFacts DEF SteadyReads, SteadyIsHealthy, allVars, vars
<1>6. CASE ListForStatus /\ UNCHANGED allVars /\ Remember
  <2>1. /\ reader.pc = "list" /\ reader'.pc = "ask"
        /\ reader'.service = reader.service /\ reader'.spec = reader.spec
        /\ reader'.todo = Matching(reader.service) /\ reader'.seen = Matching(reader.service)
        /\ \A c \in Matching(reader.service) :
             reader'.generation[c] = containers[c].generation
    BY <1>6, ListFacts
  <2>2. Matching(reader.service)' = Matching(reader.service) /\ UNCHANGED <<services, containers>>
    BY <1>6, <2>1 DEF allVars, vars, Matching, Running
  <2>3. ASSUME steady, NEW c \in Matching(reader.service)
        PROVE  containers[c].generation = reader.spec.generation
    <3>1. AllWell(reader.service)
          /\ services[reader.service].generation = reader.spec.generation
          /\ reader.service \in Services
      BY <2>1, <2>3 DEF SteadyReads, ReaderTyped
    <3>2. c \in {d \in Running : containers[d].service = reader.service}
      BY <2>3, <3>1 DEF Matching, OwnNames
    <3> QED
      BY <3>1, <3>2 DEF AllWell, Settled
  <2> QED
    BY <1>3, <1>6, <2>1, <2>2, <2>3 DEF SteadyReads, SteadyIsHealthy
<1>7. CASE AskTracker /\ UNCHANGED allVars /\ Remember
  <2>1. PICK c \in reader.todo :
          /\ reader'.todo = reader.todo \ {c}
          /\ reader'.report[c] = tracker[c]
          /\ \A d \in Ids \ {c} : reader'.report[d] = reader.report[d]
    BY <1>7, AskFacts
  <2>2. /\ reader.pc = "ask" /\ reader'.pc = "ask" /\ reader'.seen = reader.seen
        /\ reader'.service = reader.service /\ reader'.spec = reader.spec
        /\ reader'.generation = reader.generation
    BY <1>7, AskFacts
  <2>3. Matching(reader.service)' = Matching(reader.service) /\ UNCHANGED services
    BY <1>7, <2>2 DEF allVars, vars, Matching, Running
  <2>4. reader.seen \subseteq Ids
    BY DEF ReaderTyped, ReaderType
  <2>5. steady => \A d \in reader.seen : tracker[d] = "healthy"
    BY <2>2 DEF SteadyReads, AllWell
  <2> QED
    BY <1>3, <1>7, <2>1, <2>2, <2>3, <2>4, <2>5 DEF SteadyReads, SteadyIsHealthy
<1>8. CASE Answer /\ UNCHANGED allVars /\ Remember
  <2>1. /\ reader.pc = "ask" /\ reader.todo = {} /\ reader'.pc = "answered"
        /\ reader'.answer = Overall(Counts(reader.spec, reader.seen, reader.generation,
                                           reader.report))
    BY <1>8, AnswerFacts
  <2>2. ASSUME steady PROVE reader'.answer = "healthy"
    <3>1. /\ reader.service \in Services /\ reader.spec \in ValidSpec
          /\ reader.seen \in SUBSET Ids
      BY <2>1 DEF ReaderTyped, ReaderType
    <3>2. /\ reader.seen = Matching(reader.service)
          /\ AllWell(reader.service)
          /\ services[reader.service].replicas = reader.spec.replicas
          /\ \A c \in reader.seen : /\ reader.generation[c] = reader.spec.generation
                                    /\ reader.report[c] = "healthy"
      BY <2>1, <2>2 DEF SteadyReads
    <3>3. Cardinality(reader.seen) = reader.spec.replicas
      <4>1. Matching(reader.service)
              = {c \in Running : containers[c].service = reader.service}
        BY <3>1 DEF Matching, OwnNames
      <4> QED
        BY <3>2, <4>1 DEF AllWell, Settled
    <3> QED
      BY <2>1, <3>1, <3>2, <3>3, WellStatus DEF ValidSpec
  <2> QED
    BY <1>3, <1>8, <2>1, <2>2 DEF SteadyReads, SteadyIsHealthy
<1> QED
  BY <1>1, <1>2, <1>4, <1>5, <1>6, <1>7, <1>8, Steps

-----------------------------------------------------------------------------
(***************************************************************************)
(* The theorems about a status.                                            *)
(***************************************************************************)
ReaderInv == IInv /\ ReaderTyped

\* The status request is well-formed before the first step.
LEMMA ReaderInvInit == ObservationInit => ReaderInv
  BY InitOK, IdleReaderType DEF ObservationInit, ReaderInv, ReaderTyped

\* Every step keeps it so.
LEMMA ReaderInvNext == ReaderInv /\ [ObservationNext]_observationVars => ReaderInv'
  BY PlatformTyped, ReaderStep DEF ReaderInv

\* A replica that is reported unhealthy from the beginning of a request to its
\* answer is not overlooked, whatever else comes and goes meanwhile.
THEOREM SickReplicasAreNoticed == ObservationSpec => []SickIsNoticed
<1>1. ObservationInit => SickReads /\ SickIsNoticed
  BY IdleReaderType DEF ObservationInit, SickReads, SickIsNoticed
<1>2. ReaderInv /\ SickReads /\ SickIsNoticed /\ [ObservationNext]_observationVars
        => SickReads' /\ SickIsNoticed'
  BY SickStep DEF ReaderInv
<1> QED
  BY <1>1, <1>2, ReaderInvInit, ReaderInvNext, PTL DEF ObservationSpec

\* A lack of replicas that lasts as long as a request is not overlooked either,
\* unless the spec was changed meanwhile.
THEOREM ShortageIsNoticed == ObservationSpec => []ShortIsNoticed
<1>1. ObservationInit => ShortReads /\ ShortIsNoticed
  BY IdleReaderType DEF ObservationInit, ShortReads, ShortIsNoticed
<1>2. ReaderInv /\ ShortReads /\ ShortIsNoticed /\ [ObservationNext]_observationVars
        => ShortReads' /\ ShortIsNoticed'
  BY ShortStep DEF ReaderInv
<1> QED
  BY <1>1, <1>2, ReaderInvInit, ReaderInvNext, PTL DEF ObservationSpec

\* A service that is as desired during a request is shown healthy, when its name
\* matches the containers of no other service.
THEOREM SteadyServicesAreHealthy ==
  ASSUME OwnNames
  PROVE  ObservationSpec => []SteadyIsHealthy
<1>1. ObservationInit => SteadyReads /\ SteadyIsHealthy
  BY IdleReaderType DEF ObservationInit, SteadyReads, SteadyIsHealthy
<1>2. ReaderInv /\ ReaderInv' /\ SteadyReads /\ SteadyIsHealthy /\ [ObservationNext]_observationVars
        => SteadyReads' /\ SteadyIsHealthy'
  BY SteadyStep DEF ReaderInv
<1> QED
  BY <1>1, <1>2, ReaderInvInit, ReaderInvNext, PTL DEF ObservationSpec
=============================================================================
