------------------------------ MODULE MCShell ------------------------------
(* Two switch-ons after the first start, and two sends. *)
EXTENDS Shell
=============================================================================
