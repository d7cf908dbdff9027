----------------------------- MODULE MCPairing -----------------------------
(* Three devices, every arrangement of what their cameras can see.  Two have  *)
(* stored each other's identity; the third shows none and has stored that of  *)
(* the first.                                                                 *)
EXTENDS Pairing, TLC

CONSTANTS d1, d2, d3

MCIdentified == {d1, d2}
MCPeer == d1 :> d2 @@ d2 :> d1 @@ d3 :> d1
=============================================================================
