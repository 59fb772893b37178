---------------------------- MODULE RefCounting ----------------------------
(***************************************************************************)
(* What the reference counting of the driver promises: an object that      *)
(* several users share exists exactly as long as somebody uses it.  Each   *)
(* user has at most one object at a time, may create one, exchange its own *)
(* for one that already exists, or let go of it; the step in which the     *)
(* last user of an object leaves it is the step that frees it.             *)
(***************************************************************************)
CONSTANTS
  Users,   \* devices
  Objects, \* tablets' shared records
  None     \* no object

VARIABLES
  holds,   \* the object each user has, or None
  alive    \* the objects that exist

refVars == <<holds, alive>>

\* The objects left when u lets go of the one it has.
Without(u) == {o \in alive : \E v \in Users \ {u} : holds[v] = o}

Init == /\ holds = [u \in Users |-> None]
        /\ alive = {}

Create(u, o) == /\ holds[u] = None
                /\ o \notin alive
                /\ holds' = [holds EXCEPT ![u] = o]
                /\ alive' = alive \cup {o}

Exchange(u, o) == /\ holds[u] # None
                  /\ o \in alive
                  /\ o # holds[u]
                  /\ holds' = [holds EXCEPT ![u] = o]
                  /\ alive' = Without(u)

Drop(u) == /\ holds[u] # None
           /\ holds' = [holds EXCEPT ![u] = None]
           /\ alive' = Without(u)

Next == \E u \in Users :
          \/ Drop(u)
          \/ \E o \in Objects : Create(u, o) \/ Exchange(u, o)

Spec == Init /\ [][Next]_refVars
=============================================================================
