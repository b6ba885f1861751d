---------------------------- MODULE EventRecorder ----------------------------
(***************************************************************************)
(* The bounded history of control-plane events: events.Recorder            *)
(* (internal/events/recorder.go).  An event is known by its number in the  *)
(* order in which Add took the lock; its time and text are left out.       *)
(***************************************************************************)
EXTENDS Integers, Sequences

CONSTANT Retention  \* the size NewRecorder is asked for

VARIABLES
  events,  \* Recorder.events
  added    \* history: the number of events added so far

vars == <<events, added>>

\* NewRecorder keeps at least one event.
maxSize == IF Retention < 1 THEN 1 ELSE Retention

\* Mutation: trimmed to one event too many.
KeepOneMore(all) ==
  IF Len(all) > maxSize THEN SubSeq(all, Len(all) - maxSize, Len(all)) ELSE all

\* The slice that Add keeps of all.
Trim(all) ==
  IF Len(all) > maxSize THEN SubSeq(all, Len(all) - maxSize + 1, Len(all)) ELSE all

Add ==
  /\ added' = added + 1
  /\ events' = Trim(Append(events, added + 1))

\* List(limit): newest first, all of them when the limit makes no sense.
List(limit) ==
  LET n == IF limit < 1 \/ limit > Len(events) THEN Len(events) ELSE limit
  IN [i \in 1 .. n |-> events[Len(events) - i + 1]]

Init == events = <<>> /\ added = 0

Next == Add

Spec == Init /\ [][Next]_vars

-----------------------------------------------------------------------------
(***************************************************************************)
(* What the recorder promises, with no reference to how it stores events:  *)
(* whatever was trimmed, List(limit) = Page(limit) for every limit.        *)
(***************************************************************************)
\* How many events are still known.
Retained == IF added < maxSize THEN added ELSE maxSize

\* A page of the history: the newest events in turn.
Page(limit) ==
  LET n == IF limit < 1 \/ limit > Retained THEN Retained ELSE limit
  IN [i \in 1 .. n |-> added - i + 1]
=============================================================================
