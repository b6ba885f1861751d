--------------------------- MODULE MCServiceStore ---------------------------
(***************************************************************************)
(* Instances of ServiceStore for TLC.                                      *)
(***************************************************************************)
EXTENDS ServiceStore

CONSTANTS image

\* What clients post: a good spec, one with a generation of its own, one
\* without replicas.
Posted ==
  {[image |-> image, replicas |-> 2, generation |-> 0],
   [image |-> image, replicas |-> 1, generation |-> 2],
   [image |-> image, replicas |-> 0, generation |-> 1]}

FirstBoot == [kind |-> "absent", specs |-> NoServices, version |-> 0]

\* A file of an earlier run, where service 1 is good and service 2 is given.
SavedWith(spec) ==
  [kind |-> "saved", version |-> 0,
   specs |-> [s \in Services |->
                IF s = 1 THEN [image |-> image, replicas |-> 1, generation |-> 2] ELSE spec]]

\* The first boot, and files in which service 2 is good, has no replicas, has
\* no generation, or is not there.
Files ==
  {FirstBoot} \cup
  {SavedWith([image |-> image, replicas |-> r, generation |-> g]) : r \in {0, 1}, g \in {-1, 1}}
  \cup {SavedWith(NoSpec)}
=============================================================================
