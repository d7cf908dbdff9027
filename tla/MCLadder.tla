------------------------------ MODULE MCLadder ------------------------------
(* The shipping ladder of app.js with the shipping capacities and packet     *)
(* length, and one sending device.                                           *)
EXTENDS Ladder

CONSTANTS file, v40, v30, v25, PoolSize

MCObject == {file}
MCRung == {v40, v30, v25}
MCSchedule == <<v40, v40, v40, v30, v30, v25>>
MCCapacity == [r \in MCRung |-> CASE r = v40 -> 2953 [] r = v30 -> 1370 [] r = v25 -> 997]
MCPool == [o \in MCObject |-> PoolSize]
MCPacketLen == [o \in MCObject |-> 324]
=============================================================================
