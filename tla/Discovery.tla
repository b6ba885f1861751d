------------------------------ MODULE Discovery ------------------------------
(***************************************************************************)
(* Service discovery: the manager registers and deregisters instances at   *)
(* the registry, and the load balancer looks them up for every request it  *)
(* routes (internal/registry/client.go, cmd/loadbalancer/main.go, and the  *)
(* calls of internal/manager/manager.go).                                  *)
(*                                                                         *)
(* A call of the client is a request under way, which the registry serves  *)
(* at some moment, and an answer.  When the connection breaks the client   *)
(* gets an error; its request is lost, or served later all the same.  When *)
(* the manager dies, its connections break.                                *)
(***************************************************************************)
EXTENDS Registry, Sequences

CONSTANTS
  Owner,        \* instance -> the service it is a replica of
  Callers,      \* the goroutines that start and stop containers
  Handlers,     \* the goroutines of the load balancer that serve requests
  Nobody,       \* the sender of a request whose connection broke
  MaxFaults     \* bound: broken connections, restarts of either server

ASSUME DiscoveryAssumption ==
  /\ IsFiniteSet(Instances)
  /\ Owner \in [Instances -> Services]
  /\ Nobody \notin Callers
  /\ MaxFaults \in Nat

VARIABLES
  container,  \* Docker: instance -> the state of its container
  call,       \* caller -> its call of the registry client
  net,        \* the requests on their way to the registry
  request,    \* handler -> the request it routes
  next,       \* LoadBalancer.next: service -> the next index
  gone,       \* history: the instances whose deregistration succeeded
  missed,     \* history: the instances that may run without an entry
  leftover,   \* history: the instances that may keep one when they are stopped
  turns,      \* history: service -> the last selections from lists of one length
  faults

balancer == <<request, next, turns>>
managers == <<container, call, net, gone, missed, leftover>>
allVars == <<registryVars, balancer, managers, faults>>

NoCall == [pc |-> "idle", op |-> "none", id |-> 0, status |-> 0]

NoRequest == [pc |-> "idle", service |-> 0, list |-> <<>>, target |-> 0, avoid |-> {}]

NoTurns == [of |-> 0, last |-> <<>>]

Fault == faults < MaxFaults /\ faults' = faults + 1

-----------------------------------------------------------------------------
(***************************************************************************)
(* The client in the manager: StartContainer and StopContainer, of which   *)
(* ContainerManager has the other calls.                                   *)
(***************************************************************************)
\* The call of t sends its request to the registry.
Send(t, op, i) ==
  /\ call' = [call EXCEPT ![t] = [pc |-> "sent", op |-> op, id |-> i, status |-> 0]]
  /\ net' = net \cup {[from |-> t, op |-> op, id |-> i]}

\* StartContainer: the container runs, and can be listed.
StartContainer(t) ==
  /\ call[t].pc = "idle"
  /\ \E i \in Instances :
       /\ container[i] = "none"
       /\ container' = [container EXCEPT ![i] = "running"]
       /\ call' = [call EXCEPT ![t] =
             [pc |-> "inspect", op |-> "register", id |-> i, status |-> 0]]
  /\ UNCHANGED <<registryVars, balancer, net, gone, missed, leftover, faults>>

\* An inspection found its port while it ran: Register is called, even if the
\* container was stopped since.
RegisterInstance(t) ==
  /\ call[t].pc = "inspect"
  /\ Send(t, "register", call[t].id)
  /\ UNCHANGED <<registryVars, balancer, container, gone, missed, leftover, faults>>

\* None found one, or what was found is no number: StartContainer returns the id
\* at once.  It panics when the container is gone by then.
NoPortFound(t) ==
  /\ call[t].pc = "inspect"
  /\ call' = [call EXCEPT ![t] = NoCall]
  /\ missed' = missed \cup {call[t].id}
  /\ UNCHANGED <<registryVars, balancer, container, net, gone, leftover, faults>>

\* The registration of i is yet to be served.
Unserved(i) ==
  \E t \in Callers : call[t].op = "register" /\ call[t].id = i /\ call[t].pc \in {"inspect", "sent"}

\* StopContainer of a container that ran when the caller listed it, its start
\* over or not; two callers can stop the same one.  It is stopped, then Deregister
\* is called.  When its stop fails nothing changes, and once it was removed, its
\* name cannot be inspected and its stop fails.
StopContainer(t) ==
  /\ call[t].pc = "idle"
  /\ \E i \in Instances :
       /\ container[i] \in {"running", "exited", "stopped"}
       /\ container' = [container EXCEPT ![i] = "stopped"]
       /\ leftover' = IF Unserved(i) THEN leftover \cup {i} ELSE leftover
       /\ Send(t, "deregister", i)
  /\ UNCHANGED <<registryVars, balancer, gone, missed, faults>>

\* The same when the inspection failed: without a name there is no call.
StopUnnamed ==
  /\ \E i \in Instances :
       /\ container[i] \in {"running", "exited", "stopped"}
       /\ \E left \in {"stopped", "removed"} : container' = [container EXCEPT ![i] = left]
       /\ leftover' = leftover \cup {i}
  /\ UNCHANGED <<registryVars, balancer, call, net, gone, missed, faults>>

\* StopContainer goes on after its call: the container is removed, or not.
Removal(c) ==
  container' = IF c.op = "deregister" THEN [container EXCEPT ![c.id] = "removed"] ELSE container

RemovalFails == UNCHANGED container

\* The container ends on its own.  From then on it is not listed.
ContainerExits(i) ==
  /\ container[i] = "running"
  /\ container' = [container EXCEPT ![i] = "exited"]
  /\ UNCHANGED <<registryVars, balancer, call, net, gone, missed, leftover, faults>>

\* The registry serves a request; its answer reaches the call that waits.
Serve ==
  /\ \E m \in net :
       /\ \/ /\ m.op = "register"
             /\ \E p \in Ports : p > 0 /\ RegisterRequest(Owner[m.id], m.id, p)
          \/ m.op = "deregister" /\ DeregisterRequest(Owner[m.id], m.id)
       /\ net' = net \ {m}
       /\ call' = IF m.from = Nobody THEN call
                  ELSE [call EXCEPT ![m.from] =
                     [pc |-> "answered", op |-> m.op, id |-> m.id, status |-> reply'.status]]
  /\ UNCHANGED <<container, balancer, gone, missed, leftover, faults>>

\* Mutation: an instance that the registry does not know counts as deregistered.
SucceedsOrUnknown(status) == status < 300 \/ status = 404

\* What the client takes for success.
Succeeds(status) == status < 300

\* The call returns; its error is logged only.
CallReturns(t) ==
  /\ call[t].pc = "answered"
  /\ gone' = IF call[t].op = "deregister" /\ Succeeds(call[t].status)
             THEN gone \cup {call[t].id} ELSE gone
  /\ call' = [call EXCEPT ![t] = NoCall]
  /\ Removal(call[t]) \/ RemovalFails
  /\ UNCHANGED <<registryVars, balancer, net, missed, leftover, faults>>

\* The connection of the call breaks before the answer is read; a request that
\* was not served yet is lost or goes on.
CallFails(t) ==
  LET mine == {m \in net : m.from = t}
      unsure(op) == IF call[t].pc = "sent" /\ call[t].op = op THEN {call[t].id} ELSE {}
  IN
  /\ call[t].pc \in {"sent", "answered"}
  /\ Fault
  /\ call' = [call EXCEPT ![t] = NoCall]
  /\ \/ net' = net \ mine
     \/ net' = (net \ mine) \cup {[m EXCEPT !.from = Nobody] : m \in mine}
  /\ missed' = missed \cup unsure("register")
  /\ leftover' = leftover \cup unsure("register") \cup unsure("deregister")
  /\ Removal(call[t]) \/ RemovalFails
  /\ UNCHANGED <<registryVars, balancer, gone>>

-----------------------------------------------------------------------------
(***************************************************************************)
(* The load balancer: one handler goroutine for each request.              *)
(***************************************************************************)
\* A request for s comes in.
BeginRequest(h) ==
  /\ request[h].pc = "idle"
  /\ \E s \in Services :
       request' = [request EXCEPT ![h] =
         [pc |-> "lookup", service |-> s, list |-> <<>>, target |-> 0,
          avoid |-> {i \in gone : Owner[i] = s}]]
  /\ UNCHANGED <<registryVars, managers, next, turns, faults>>

\* registry.LookupAll returns a list, or none and the answer is 404.
LookUp(h) ==
  /\ request[h].pc = "lookup"
  /\ LookupAllRequest(request[h].service)
  /\ request' = [request EXCEPT
       ![h] = IF reply'.status = 404 THEN NoRequest
              ELSE [@ EXCEPT !.pc = "select", !.list = reply'.list]]
  /\ UNCHANGED <<managers, next, turns, faults>>

\* The lookup fails: 502.
LookUpFails(h) ==
  /\ request[h].pc = "lookup"
  /\ Fault
  /\ request' = [request EXCEPT ![h] = NoRequest]
  /\ UNCHANGED <<registryVars, managers, next, turns>>

\* Mutation: the index wraps one too late.
AdvanceLate(s, n) == [next EXCEPT ![s] = IF next[s] + 1 > n THEN 0 ELSE next[s] + 1]

\* lb.next after a selection from the n backends of s.
Advance(s, n) == [next EXCEPT ![s] = (next[s] + 1) % n]

\* The indices of the last selections, at most n of them, while the length is n.
Recent(turn, index, n) ==
  LET all == IF turn.of = n THEN Append(turn.last, index) ELSE <<index>>
  IN [of |-> n, last |-> IF Len(all) > n THEN Tail(all) ELSE all]

\* The selection, under lb.mu.  The length is that of the list looked up before.
SelectBackend(h) ==
  LET s == request[h].service
      n == Len(request[h].list)
      index == next[s] % n
  IN
  /\ request[h].pc = "select"
  /\ next' = Advance(s, n)
  /\ request' = [request EXCEPT ![h] = [@ EXCEPT
       !.pc = "proxy", !.list = <<>>, !.target = request[h].list[index + 1].instance]]
  /\ turns' = [turns EXCEPT ![s] = Recent(turns[s], index, n)]
  /\ UNCHANGED <<registryVars, managers, faults>>

\* The proxy has an answer of the backend, or an error that becomes a 502.
Proxied(h) ==
  /\ request[h].pc = "proxy"
  /\ request' = [request EXCEPT ![h] = NoRequest]
  /\ UNCHANGED <<registryVars, managers, next, turns, faults>>

Route(h) ==
  BeginRequest(h) \/ LookUp(h) \/ LookUpFails(h) \/ SelectBackend(h) \/ Proxied(h)

-----------------------------------------------------------------------------
\* Requests that the registry serves and no client in this repository makes: a
\* lookup of one instance, and a registration that is not valid.
OtherClient ==
  /\ \/ \E s \in Services : LookupRequest(s)
     \/ \E i \in Instances, p \in Ports : p <= 0 /\ RegisterRequest(Owner[i], i, p)
  /\ UNCHANGED <<balancer, managers, faults>>

\* The registry is killed and started again; what waits for it gets an error.
RegistryCrashes ==
  /\ Fault
  /\ RegistryRestart
  /\ net' = {}
  /\ call' = [t \in Callers |-> IF call[t].pc = "sent" THEN NoCall ELSE call[t]]
  /\ missed' = {i \in Instances : container[i] # "none"}
  /\ UNCHANGED <<balancer, container, gone, leftover>>

\* The load balancer is killed and started again.
LoadBalancerCrashes ==
  /\ Fault
  /\ request' = [h \in Handlers |-> NoRequest]
  /\ next' = [s \in Services |-> 0]
  /\ turns' = [s \in Services |-> NoTurns]
  /\ UNCHANGED <<registryVars, managers>>

Init ==
  /\ RegistryInit
  /\ container = [i \in Instances |-> "none"]
  /\ call = [t \in Callers |-> NoCall]
  /\ net = {}
  /\ request = [h \in Handlers |-> NoRequest]
  /\ next = [s \in Services |-> 0]
  /\ gone = {} /\ missed = {} /\ leftover = {}
  /\ turns = [s \in Services |-> NoTurns]
  /\ faults = 0

Next ==
  \/ \E t \in Callers :
       \/ StartContainer(t) \/ RegisterInstance(t) \/ NoPortFound(t)
       \/ StopContainer(t)
       \/ CallReturns(t) \/ CallFails(t)
  \/ StopUnnamed
  \/ \E i \in Instances : ContainerExits(i)
  \/ Serve
  \/ \E h \in Handlers : Route(h)
  \/ OtherClient \/ RegistryCrashes \/ LoadBalancerCrashes

Spec == Init /\ [][Next]_allVars

-----------------------------------------------------------------------------
(***************************************************************************)
(* Properties.                                                             *)
(***************************************************************************)
Registered == {e.instance : e \in Entries}

\* No caller is in a call, and no request is left on its way.
Quiet == net = {} /\ \A t \in Callers : call[t].pc = "idle"

\* At rest, whatever calls of other instances broke or overlapped, the registry
\* holds the instances that run or ended on their own, and no others; it may lack
\* one whose registration broke, was never sent or served before a restart, and
\* still hold one that was stopped before its registration was served, or without
\* its name, or whose own call broke (manager.go:146-169, 247-253).
RegistryInStep ==
  Quiet => \A i \in Instances :
    /\ (container[i] \in {"running", "exited"} /\ i \notin missed) => i \in Registered
    /\ (i \in Registered /\ i \notin leftover) => container[i] \in {"running", "exited"}

\* A request that came in after the deregistration of an instance succeeded is
\* not routed to it, although broken calls may still be served late, and lists
\* are used after they were read (loadbalancer/main.go:34-50, client.go:85).
GoneIsNotRouted ==
  \A h \in Handlers : request[h].pc = "proxy" => request[h].target \notin request[h].avoid

\* While the number of backends of a service stays n, any n selections in a row
\* use n different indices, whatever handlers and other services do meanwhile
\* (loadbalancer/main.go:43-47).
EveryIndexInTurn ==
  \A s \in Services : \A m, n \in DOMAIN turns[s].last :
    m # n => turns[s].last[m] # turns[s].last[n]
=============================================================================
