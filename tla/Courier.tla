------------------------------ MODULE Courier ------------------------------
(***************************************************************************)
(* What the courier promises, with no frames, packets, codes or cameras:   *)
(* each sender has one payload to hand over, in PAIR mode only once its    *)
(* human has cleared it, and the receiver ends up with at most one of      *)
(* them, whole, never one that was not cleared.                            *)
(***************************************************************************)
CONSTANTS
  Object,      \* the payloads on offer
  Paired,      \* those that wait for a human
  None

VARIABLES
  cleared,     \* the payloads that may leave their device
  delivered    \* the payload the receiver has, or None

Init ==
  /\ cleared = Object \ Paired
  /\ delivered = None

Clear(o) ==
  /\ o \notin cleared
  /\ cleared' = cleared \cup {o}
  /\ UNCHANGED delivered

Deliver(o) ==
  /\ o \in cleared
  /\ delivered = None
  /\ delivered' = o
  /\ UNCHANGED cleared

Next == \E o \in Object : Clear(o) \/ Deliver(o)

Spec == Init /\ [][Next]_<<cleared, delivered>>
=============================================================================
