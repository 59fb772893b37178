--------------------------- MODULE PointerControl ---------------------------
(***************************************************************************)
(* What arbitration promises: one device at a time holds the pointer, and  *)
(* only the holder is in proximity.  A device that may be displaced by     *)
(* another is out of proximity from the step on that displaces it.         *)
(***************************************************************************)
CONSTANTS
  Pointers,   \* the devices the promise is about
  Others,     \* devices that compete for the pointer with no such promise
  Yields,     \* the pairs <<h, d>> where holder h may be displaced by d
  None

VARIABLES
  holder,     \* the device that moves the pointer, or None
  inprox      \* the devices of Pointers the driver has in proximity

Contenders == Pointers \cup Others

MayTake(d) == holder \in {None, d} \/ <<holder, d>> \in Yields

Init == holder = None /\ inprox = {}

\* A tool of d reports: d holds the pointer, in proximity or not.
Take(d) ==
  /\ MayTake(d)
  /\ holder' = d
  /\ inprox' \in SUBSET ({d} \cap Pointers)

\* A tool of d leaves: nobody holds the pointer.
Leave(d) ==
  /\ MayTake(d)
  /\ holder' = None
  /\ inprox' = {}

\* Device d is removed.
Remove(d) ==
  /\ holder' = IF holder = d THEN None ELSE holder
  /\ inprox' = inprox \ {d}

Next == \E d \in Contenders : Take(d) \/ Leave(d) \/ Remove(d)

Spec == Init /\ [][Next]_<<holder, inprox>>
=============================================================================
