------------------------------ MODULE Directory ------------------------------
(***************************************************************************)
(* What the service registry promises to its clients: a set of entries, at *)
(* most one for each instance of a service, whatever tables it keeps them  *)
(* in, and the answer each request gets from that set.                     *)
(***************************************************************************)
EXTENDS Integers, FiniteSets

CONSTANTS
  Services,   \* the logical services
  Instances,  \* the ids of instances
  Ports       \* what a request may name as the port of an instance

VARIABLES
  entries,  \* the registered instances
  reply     \* the answer to the request that was served last

vars == <<entries, reply>>

Entry == [service : Services, instance : Instances, port : Ports]

Of(s) == {e \in entries : e.service = s}

At(s, i) == {e \in Of(s) : e.instance = i}

\* The ways to list the elements of S, each once.
Listings(S) == {list \in [1 .. Cardinality(S) -> S] : \A e \in S : \E n \in DOMAIN list : list[n] = e}

Status(code) == [status |-> code, list |-> <<>>]

-----------------------------------------------------------------------------
Register(s, i, p) ==
  \/ /\ p > 0
     /\ entries' = (entries \ At(s, i)) \cup {[service |-> s, instance |-> i, port |-> p]}
     /\ reply' = Status(200)
  \/ p <= 0 /\ reply' = Status(400) /\ UNCHANGED entries

Deregister(s, i) ==
  \/ /\ At(s, i) # {}
     /\ entries' = entries \ At(s, i)
     /\ reply' = Status(200)
  \/ At(s, i) = {} /\ reply' = Status(404) /\ UNCHANGED entries

\* Every instance of s is listed once, in no particular order.
LookupAll(s) ==
  /\ \/ /\ Of(s) # {}
        /\ \E list \in Listings(Of(s)) : reply' = [status |-> 200, list |-> list]
     \/ Of(s) = {} /\ reply' = Status(404)
  /\ UNCHANGED entries

LookupOne(s) ==
  /\ \/ \E e \in Of(s) : reply' = [status |-> 200, list |-> <<e>>]
     \/ Of(s) = {} /\ reply' = Status(404)
  /\ UNCHANGED entries

\* Nothing is kept over a restart.
Restart == entries' = {} /\ UNCHANGED reply

Init == entries = {} /\ reply = Status(0)

Next ==
  \/ \E s \in Services, i \in Instances :
       (\E p \in Ports : Register(s, i, p)) \/ Deregister(s, i)
  \/ \E s \in Services : LookupAll(s) \/ LookupOne(s)
  \/ Restart

Spec == Init /\ [][Next]_vars
=============================================================================
