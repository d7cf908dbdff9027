--------------------------------- MODULE Qr ---------------------------------
(***************************************************************************)
(* How many bytes a frame may carry: capacity() of core/src/qr.rs, which   *)
(* app/app.js asks on every tick for the rung it is about to display.      *)
(*                                                                         *)
(* The answer is measured, not tabulated: a binary search against the      *)
(* encoder.  The encoder is external and is all that knows Holds.  A call  *)
(* has no memory, so the model asks once for each rung.                    *)
(***************************************************************************)
EXTENDS Naturals

CONSTANTS
  Rung,        \* (version, error correction) pairs
  Holds,       \* [Rung -> Nat]: the most bytes the encoder accepts
  MaxBytes     \* where the search starts from above: 3000

ASSUME QrAssumption ==
  /\ MaxBytes \in Nat
  /\ Holds \in [Rung -> 0..MaxBytes]

VARIABLES
  known,       \* [Rung -> what capacity() returned, or Unknown]
  asking,      \* the rung being measured: none or one
  lo, hi       \* the search's bracket

qrvars == <<known, asking, lo, hi>>

Unknown == MaxBytes + 1

QrTypeOK ==
  /\ known \in [Rung -> 0..Unknown]
  /\ asking \subseteq Rung
  /\ lo \in Nat
  /\ hi \in Nat

QrInit ==
  /\ known = [r \in Rung |-> Unknown]
  /\ asking = {}
  /\ lo = 0
  /\ hi = 0

div_ceil(n, d) == (n + d - 1) \div d

(* encode_segments_advanced at this version, without boosting the level.      *)
fits(len, r) == len <= Holds[r]

Ask(r) ==
  /\ asking = {}
  /\ known[r] = Unknown
  /\ asking' = {r}
  /\ lo' = 0
  /\ hi' = MaxBytes
  /\ UNCHANGED known

(* Mutant of Probe: a length that fits is taken as exceeded. *)
ProbePast(r, mid) ==
  IF fits(mid, r) THEN lo' = mid + 1 /\ hi' = hi ELSE hi' = mid - 1 /\ lo' = lo

Probe(r, mid) ==
  IF fits(mid, r) THEN lo' = mid /\ hi' = hi ELSE hi' = mid - 1 /\ lo' = lo

(* One turn of the loop. *)
Search(r) ==
  /\ r \in asking
  /\ lo < hi
  /\ Probe(r, div_ceil(lo + hi, 2))
  /\ UNCHANGED <<known, asking>>

Return(r) ==
  /\ r \in asking
  /\ ~(lo < hi)
  /\ known' = [known EXCEPT ![r] = lo]
  /\ asking' = {}
  /\ UNCHANGED <<lo, hi>>

QrNext == \E r \in Rung : Ask(r) \/ Search(r) \/ Return(r)

QrSpec == QrInit /\ [][QrNext]_qrvars

-----------------------------------------------------------------------------
(* What capacity() answers is what the encoder accepts, to the byte: one more *)
(* and a frame packed for the rung could not be drawn, one less and its last  *)
(* packet might not be packed ("a binary search against                       *)
(* encode_segments_advanced cannot [drift]").                                 *)
CapacityExact == \A r \in Rung : known[r] # Unknown => known[r] = Holds[r]

(* Every turn leaves a smaller bracket: the search ends.                      *)
SearchNarrows ==
  [][asking' = asking /\ asking # {} => hi' - lo' < hi - lo]_qrvars
=============================================================================
