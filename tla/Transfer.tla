------------------------------ MODULE Transfer ------------------------------
(***************************************************************************)
(* One receiver facing the sending screens in its view: Transmitter and    *)
(* Receiver joined by light.                                               *)
(*                                                                         *)
(* The channel is a camera looking at screens.  What a screen displays is  *)
(* read zero, one or several times before its next tick replaces it, so    *)
(* frames are lost and repeated at will, and frames of several senders     *)
(* interleave; a frame caught while a screen changes is torn and decodes   *)
(* to nothing, like one not read.  Nothing ever flows back to the senders. *)
(***************************************************************************)
EXTENDS Naturals, Sequences, FiniteSets

CONSTANTS
  Object, Sid, Prefix, SidOf, PrefixOf, K, Slack, KeyFor, Inflatable,
  None, Garbage, WrongKey, MaxPending,
  Paired, Pool, PacketLen, Interval, FrameIds, Rung, Schedule, Capacity,
  Aimed        \* the screens the receiver's camera is pointed at

VARIABLES
  beacon, key, pending, seen, ids, received, needed, object, delivered, done,
  result, heard,
  frame_id, cursor, held, tick, screen

rxvars == <<beacon, key, pending, seen, ids, received, needed, object,
            delivered, done, result, heard>>
txvars == <<frame_id, cursor, held, tick, screen>>
vars == <<rxvars, txvars>>

NoRuns == [o \in Object |-> {}]

Rx == INSTANCE Receiver WITH Runs <- NoRuns
Tx == INSTANCE Transmitter

(* Both halves keep their own assumptions, and REPAIR_PER_BLOCK makes every   *)
(* pool large enough to decode from on its own.                              *)
ASSUME TransferAssumption ==
  /\ Rx!ReceiverAssumption
  /\ Tx!TransmitterAssumption
  /\ Aimed \subseteq Object
  /\ \A o \in Object : Pool[o] >= K[o] + Slack

Init == Rx!Init /\ Tx!Init

(* The display loop of o's device replaces the frame on its screen. *)
Tick(o) == Tx!Tick(o) /\ UNCHANGED rxvars

(* The human at o's device confirms the digits. *)
Release(o) == Tx!Release(o) /\ UNCHANGED rxvars

(* The camera reads o's screen and hands the frame to Receive::ingest. *)
Capture(o) ==
  /\ \/ screen[o].type = "beacon" /\ Rx!IngestBeacon(o)
     \/ screen[o].type = "symbol" /\ Rx!IngestSymbols(o, screen[o].run)
     \/ screen[o].type # "blank" /\ Rx!AfterDone
  /\ UNCHANGED txvars

Next == \E o \in Object : Tick(o) \/ Release(o) \/ Capture(o)

(* The display loop re-arms its timer on every tick.  The camera is aimed at *)
(* some screens: a frame that keeps coming back to one of them is eventually *)
(* read whole, for the two devices' rates are set independently and nothing  *)
(* locks them.  Screens at the edge of the view may or may not be read.      *)
Fairness ==
  \A o \in Aimed :
    /\ WF_vars(Tick(o))
    /\ SF_vars(Capture(o) /\ screen[o].type = "beacon")
    /\ \A id \in 0..(Pool[o] - 1) :
         SF_vars(Capture(o) /\ \E j \in DOMAIN screen[o].run : screen[o].run[j] = id)

Spec == Init /\ [][Next]_vars

FairSpec == Spec /\ Fairness

-----------------------------------------------------------------------------
(* Refinement *)

Promise == INSTANCE Courier WITH cleared <- {o \in Object : ~held[o]}

(* The pipeline implements the courier: what is delivered is one cleared     *)
(* payload, once, however frames are lost, repeated, torn or interleaved.    *)
ImplementsCourier == Promise!Spec

-----------------------------------------------------------------------------
(* Properties *)

(* Until its human has confirmed, no packet of an object is anywhere outside *)
(* its own device: not parked and not absorbed by the receiver that watches. *)
HeldStaysHome ==
  \A o \in Object : held[o] => \A p \in heard \cup seen : p.obj # o

(* A receiver that acquired a beacon it has the key for ends up delivered    *)
(* once the sender is cleared, although frames are lost and another sender   *)
(* is in view: the pool alone always suffices.                               *)
Delivery ==
  \A o \in Aimed :
    (beacon = o /\ key = o /\ ~held[o] /\ o \in Inflatable) ~> done
=============================================================================
