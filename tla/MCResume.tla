------------------------------ MODULE MCResume ------------------------------
(* Three page loads, one transfer in OPEN mode and one in PAIR mode. *)
EXTENDS Resume
=============================================================================
