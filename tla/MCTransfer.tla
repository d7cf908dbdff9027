----------------------------- MODULE MCTransfer -----------------------------
(* A receiver in view of two senders with sessions of their own: x sends in  *)
(* PAIR mode and is held at first, y sends in OPEN mode.                     *)
EXTENDS Transfer

CONSTANTS x, y, hi, lo

MCObject == {x, y}
MCSidOf == [o \in MCObject |-> o]
MCK == [o \in MCObject |-> IF o = x THEN 2 ELSE 1]
MCKeyFor == [o \in MCObject |-> o]
MCPool == [o \in MCObject |-> IF o = x THEN 3 ELSE 2]
MCPacketLen == [o \in MCObject |-> 10]
MCSchedule == <<hi, lo>>
MCCapacity == [r \in {hi, lo} |-> IF r = hi THEN 39 ELSE 29]
=============================================================================
