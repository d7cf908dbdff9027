------------------------------ MODULE MCUpdate ------------------------------
(* Windows of one device through the deployments of a few builds. *)
EXTENDS Update
=============================================================================
