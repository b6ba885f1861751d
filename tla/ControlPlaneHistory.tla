------------------------- MODULE ControlPlaneHistory -------------------------
(***************************************************************************)
(* The orchestrator with three history variables, which nothing reads but  *)
(* the properties below: what the code promises about generations,         *)
(* rollouts and scaling down holds of a service, or of a pass, to which    *)
(* certain things did not happen, and the state does not tell whether they *)
(* did.                                                                    *)
(***************************************************************************)
EXTENDS ControlPlane

VARIABLES
  rewound,    \* services whose generation was taken back
  overlapped, \* callers whose pass ran at the same time as other passes or a delete
  disordered  \* services of which a container began to run after a younger one did

history == <<rewound, overlapped, disordered>>
historyVars == <<allVars, history>>

\* The generation of s goes back: s is deleted, or the process boots from a file
\* that is behind its memory, or a client names the generation.
TakesBack(s) ==
  /\ services'[s].generation < services[s].generation
  /\ \/ ~Found(services', s)
     \/ crashes' # crashes
     \/ services'[s].generation \in GenerationChoices

\* The goroutine of t lists and stops containers.
Busy(t) == pass[t].pc # "idle" \/ handler[t].pc = "stop"

\* A container of s begins to run that was created before one that runs already.
StartsOutOfOrder(s) ==
  \E c, d \in Ids :
    /\ c < d
    /\ containers[c].service = s /\ containers[c].state # "running"
    /\ containers'[c].state = "running"
    /\ containers[d].service = s /\ containers[d].state = "running"

Remember ==
  /\ rewound' = rewound \cup {s \in Services : TakesBack(s)}
  /\ overlapped' = {t \in Callers : /\ pass'[t].pc # "idle"
                                    /\ \/ t \in overlapped
                                       \/ \E u \in Callers \ {t} : Busy(u)'}
  /\ disordered' = disordered \cup {s \in Services : StartsOutOfOrder(s)}

HistoryInit == ControlPlaneInit /\ rewound = {} /\ overlapped = {} /\ disordered = {}

HistoryNext == ControlPlaneNext /\ Remember

HistorySpec == HistoryInit /\ [][HistoryNext]_historyVars

-----------------------------------------------------------------------------
(***************************************************************************)
(* Properties.                                                             *)
(***************************************************************************)
\* No container carries a generation its service has not reached, whatever
\* stale copy of the spec the pass that started it was working from
\* (deployer.go:137 and 201 label a container with the copied generation),
\* unless the generation of the service was taken back: by DELETE, after which
\* POST starts over at 1 (store.go:36-39), by a boot from a file that was not
\* saved yet (main.go:120-121), or by a client that names it.
NoReplicaFromTheFuture ==
  \A c \in Existing :
    \/ containers[c].service \in rewound
    \/ containers[c].generation <= services[containers[c].service].generation

\* A pass that overlaps with no other and with no delete removes an outdated
\* replica only while as many replicas of the new generation as its copy of the
\* spec wants have been started and not removed, whatever fails, exits, or is
\* requested meanwhile (deployer.go:133-181: the count is taken from a list made
\* several calls before the stop).
RolloutKeepsCapacity ==
  [][\A t \in Callers \ overlapped :
       (pass'[t] # pass[t] /\ \E c \in pass[t].outdated : containers'[c] # containers[c])
         => Cardinality(OfRollout(containers', pass[t])) >= SpecOf(pass[t]).replicas]_historyVars

\* As long as nothing fails, a pass that overlaps with no other and with no delete
\* never stops the last running replica of a service, be it for a rollout or to
\* scale down (deployer.go:154-189, 219-239).
LonePassKeepsServiceUp ==
  [][faults' = 0 =>
       \A t \in Callers \ overlapped :
         pass'[t] # pass[t] =>
           \A s \in Services : Matching(s) # {} => Matching(s)' # {}]_historyVars

\* Passes that shrink a service at the same time, from lists taken at different
\* moments and to different counts, do not stop more than they should together:
\* as long as nothing fails, no rollout and no delete was asked for, and the
\* containers began to run in the order of their creation, a stop leaves as many
\* running replicas as the copy of the pass that made it wants
\* (deployer.go:219-239 stops available[len(available)-1], the oldest).
ScaleDownKeepsReplicas ==
  [][\A t \in Callers : \A s \in Services \ (rewound \cup disordered) :
       (/\ pass[t].service = s /\ services[s].generation = 1 /\ faults' = 0
        /\ pass'[t] # pass[t]
        /\ \E c \in pass[t].available : containers'[c] # containers[c])
         => Cardinality(Matching(s)') >= SpecOf(pass[t]).replicas]_historyVars
=============================================================================
