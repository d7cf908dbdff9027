------------------------------- MODULE Ladder -------------------------------
(***************************************************************************)
(* What the ladder of densities carries.  The transmitter of Transmitter,  *)
(* observed: which packets have been displayed on each rung, and how long  *)
(* ago the last beacon was.  The observation changes nothing; it is what   *)
(* the comments of next_frame_at and of app.js make claims about.          *)
(***************************************************************************)
EXTENDS Transmitter

CONSTANT Repair  \* REPAIR_PER_BLOCK: the pool holds K + Repair packets

VARIABLES
  caught,      \* [Object -> [Rung -> ids displayed on that rung so far]]
  quiet        \* [Object -> frames displayed since the last beacon]

ladvars == <<txvars, caught, quiet>>

LadderInit ==
  /\ Init
  /\ caught = [o \in Object |-> [r \in Rung |-> {}]]
  /\ quiet = [o \in Object |-> 0]

RunIds(run) == {run[j] : j \in DOMAIN run}

ObserveBeacon(o) ==
  /\ ShowBeacon(o)
  /\ quiet' = [quiet EXCEPT ![o] = 0]
  /\ UNCHANGED caught

ObserveSymbols(o) ==
  /\ ShowSymbols(o)
  /\ quiet' = [quiet EXCEPT ![o] = @ + 1]
  /\ caught' = [caught EXCEPT ![o][RungDue(o)] = @ \cup RunIds(PackedRun(o))]

ObserveTick(o) == ObserveBeacon(o) \/ ObserveSymbols(o)

ObserveRelease(o) == Release(o) /\ UNCHANGED <<caught, quiet>>

LadderNext == \E o \in Object : ObserveTick(o) \/ ObserveRelease(o)

(* The display loop re-arms its own timer every tick: it never stops by itself. *)
LadderSpec ==
  LadderInit /\ [][LadderNext]_ladvars /\ \A o \in Object : WF_ladvars(ObserveTick(o))

-----------------------------------------------------------------------------
(* A late joiner meets a beacon within Interval frames of any moment, while   *)
(* the transmitter is held, after its release and across the wrap of          *)
(* frame_id.                                                                  *)
BeaconWithinInterval == \A o \in Object : quiet[o] < Interval

(* A receiver that can read a single rung of the ladder still collects K      *)
(* distinct packets: it "simply harvests the low rungs and takes longer"      *)
(* (Transmitter::next_frame_at).                                              *)
EveryRungConverges ==
  \A o \in Object : \A r \in Rung :
    []<>~held[o] => <>(Cardinality(caught[o][r]) >= Pool[o] - Repair)
=============================================================================
