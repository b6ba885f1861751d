---------------------------- MODULE ServiceStatus ----------------------------
(***************************************************************************)
(* The status of a service: status.Builder.buildServiceStatus              *)
(* (internal/status/service_status.go) as an operator.  Its inputs are     *)
(* what the builder has read: the spec, the containers of the service in   *)
(* the list of running containers with the generation each carries, and    *)
(* the answer of the tracker for each of them.                             *)
(***************************************************************************)
EXTENDS Integers, FiniteSets

\* HasCheck and Healthy of the reports in the tracker.
HasCheck(report) == report \in {"healthy", "unhealthy"}

\* The counters of the view.
Counts(spec, seen, generation, report) ==
  [desired   |-> spec.replicas,
   running   |-> Cardinality(seen),
   outdated  |-> Cardinality({c \in seen : generation[c] # spec.generation}),
   healthy   |-> Cardinality({c \in seen : report[c] = "healthy"}),
   unhealthy |-> Cardinality({c \in seen : report[c] = "unhealthy"}),
   unknown   |-> Cardinality({c \in seen : ~HasCheck(report[c])})]

\* Mutation: a service with just its number of replicas is still progressing.
OverallStrict(n) ==
  IF n.running <= n.desired THEN "progressing"
  ELSE IF n.outdated > 0 THEN "rolling"
  ELSE IF n.unhealthy > 0 THEN "degraded"
  ELSE IF n.unknown > 0 THEN "starting"
  ELSE "healthy"

\* Mutation: replicas without a check are looked for before unhealthy ones.
OverallSwapped(n) ==
  IF n.running < n.desired THEN "progressing"
  ELSE IF n.outdated > 0 THEN "rolling"
  ELSE IF n.unknown > 0 THEN "starting"
  ELSE IF n.unhealthy > 0 THEN "degraded"
  ELSE "healthy"

\* OverallStatus: the first case that applies.
Overall(n) ==
  IF n.running < n.desired THEN "progressing"
  ELSE IF n.outdated > 0 THEN "rolling"
  ELSE IF n.unhealthy > 0 THEN "degraded"
  ELSE IF n.unknown > 0 THEN "starting"
  ELSE "healthy"
=============================================================================
