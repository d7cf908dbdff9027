----------------------------- MODULE MCReceiver -----------------------------
(* A receiver with four senders in view: a and b answered the same PAIR_REQ, *)
(* c is sending in a session of its own and this device has the wrong key    *)
(* for it, d shares the first four bytes of the session id with a and b and  *)
(* its key derivation fails here.  b's body does not inflate.                *)
EXTENDS Receiver

CONSTANTS a, b, c, d, s1, s2, s3, p1, p2

MCObject == {a, b, c, d}
MCSid == {s1, s2, s3}
MCPrefix == {p1, p2}
MCSidOf == [o \in MCObject |-> CASE o = c -> s2 [] o = d -> s3 [] OTHER -> s1]
MCPrefixOf == [s \in MCSid |-> IF s = s2 THEN p2 ELSE p1]
MCK == [o \in MCObject |-> 2]
MCKeyFor == [o \in MCObject |-> CASE o = c -> WrongKey [] o = d -> None [] OTHER -> o]
MCInflatable == {a, c, d}
MCRuns == [o \in MCObject |-> {<<1, 2>>, <<3>>}]
=============================================================================
