---------------------------- MODULE Transmitter ----------------------------
(***************************************************************************)
(* The sending screens: struct Transmitter of core/src/pipeline.rs and the *)
(* display loop of app/app.js that asks it for one frame per tick.         *)
(*                                                                         *)
(* A transmitter owns a finite pool of packets and a cursor that cycles    *)
(* through it forever.  Each tick the shell picks the next rung of a fixed *)
(* ladder schedule and the transmitter packs as many packets as the rung   *)
(* holds; every Interval-th frame is a beacon instead, and takes the slot  *)
(* of whatever rung was due.  There is no feedback: a receiver that only   *)
(* reads some rung gets only the packets that rung happens to carry.       *)
(***************************************************************************)
EXTENDS Naturals, Sequences, FiniteSets

CONSTANTS
  Object,      \* one transmitter per encrypted object
  Paired,      \* the objects sent in PAIR mode, created held
  Pool,        \* [Object -> Nat \ {0}]: packets in the pool, K + REPAIR_PER_BLOCK
  PacketLen,   \* [Object -> Nat \ {0}]: bytes of one serialized packet
  Interval,    \* beacon_interval
  FrameIds,    \* modulus of frame_id (2^32 in the code)
  Rung,        \* the rungs of the ladder
  Schedule,    \* the sequence of rungs the shell cycles through
  Capacity     \* [Rung -> Nat]: bytes one frame of the rung carries

SymbolOverhead == 19

ASSUME TransmitterAssumption ==
  /\ Paired \subseteq Object
  /\ Pool \in [Object -> Nat \ {0}]
  /\ PacketLen \in [Object -> Nat \ {0}]
  /\ Interval \in Nat \ {0}
  /\ FrameIds \in Nat \ {0}
  /\ Schedule \in Seq(Rung) /\ Len(Schedule) > 0
  /\ Capacity \in [Rung -> Nat]

VARIABLES
  frame_id,    \* [Object -> 0..FrameIds-1]: the next frame's number
  cursor,      \* [Object -> Nat]: the next packet of the pool
  held,        \* [Object -> BOOLEAN]: only beacons until the human confirms
  tick,        \* [Object -> Nat]: position in the schedule
  screen       \* [Object -> Frame]: what the device displays now

txvars == <<frame_id, cursor, held, tick, screen>>

Blank == [type |-> "blank", run |-> <<>>]
BeaconFrame == [type |-> "beacon", run |-> <<>>]
SymbolFrame(run) == [type |-> "symbol", run |-> run]
Frame == [type : {"blank", "beacon", "symbol"}, run : Seq(Nat)]

TypeOK ==
  /\ frame_id \in [Object -> 0..(FrameIds - 1)]
  /\ cursor \in [Object -> Nat]
  /\ \A o \in Object : cursor[o] < Pool[o]
  /\ held \in [Object -> BOOLEAN]
  /\ tick \in [Object -> 0..(Len(Schedule) - 1)]
  /\ screen \in [Object -> Frame]

Init ==
  /\ frame_id = [o \in Object |-> 0]
  /\ cursor = [o \in Object |-> 0]
  /\ held = [o \in Object |-> o \in Paired]
  /\ tick = [o \in Object |-> 0]
  /\ screen = [o \in Object |-> Blank]

-----------------------------------------------------------------------------
Least(x, y) == IF x < y THEN x ELSE y

(* SymbolFrame::packets_per_frame, then next_frame_at's max(1). *)
PacketsPerFrame(capacity, len) ==
  LET usable == IF capacity < SymbolOverhead THEN 0 ELSE capacity - SymbolOverhead
      fits == Least(usable \div len, 255)
  IN  IF fits = 0 THEN 1 ELSE fits

(* Mutant of Chunk: every frame starts over at the head of the pool. *)
ChunkFromHead(o, n) == [j \in 1..n |-> (j - 1) % Pool[o]]

(* The ids of n packets read cyclically from the cursor. *)
Chunk(o, n) == [j \in 1..n |-> (cursor[o] + j - 1) % Pool[o]]

(* Mutants of BeaconDue: a held transmitter goes on to symbols; only the      *)
(* first frame is a beacon.                                                   *)
BeaconDueUnheld(o) == frame_id[o] % Interval = 0
BeaconDueOnce(o) == held[o] \/ frame_id[o] = 0

(* Every Interval-th frame, and every frame while held. *)
BeaconDue(o) == held[o] \/ frame_id[o] % Interval = 0

(* frame_id counts every frame shown, a beacon too; so does the tick. *)
Advance(o) ==
  /\ frame_id' = [frame_id EXCEPT ![o] = (@ + 1) % FrameIds]
  /\ tick' = [tick EXCEPT ![o] = (@ + 1) % Len(Schedule)]
  /\ UNCHANGED held

ShowBeacon(o) ==
  /\ BeaconDue(o)
  /\ Advance(o)
  /\ screen' = [screen EXCEPT ![o] = BeaconFrame]
  /\ UNCHANGED cursor

(* The rung this tick displays at, and the packets it packs on it. *)
RungDue(o) == Schedule[tick[o] + 1]

PackedRun(o) ==
  Chunk(o, PacketsPerFrame(Capacity[RungDue(o)], PacketLen[o]))

ShowSymbols(o) ==
  /\ ~BeaconDue(o)
  /\ Advance(o)
  /\ screen' = [screen EXCEPT ![o] = SymbolFrame(PackedRun(o))]
  /\ cursor' = [cursor EXCEPT ![o] = (@ + Len(PackedRun(o))) % Pool[o]]

(* One tick of the display loop: next_frame_at for the rung that is due. *)
Tick(o) == ShowBeacon(o) \/ ShowSymbols(o)

(* Send::release once the human has confirmed the digits. *)
Release(o) ==
  /\ held[o]
  /\ held' = [held EXCEPT ![o] = FALSE]
  /\ UNCHANGED <<frame_id, cursor, tick, screen>>

Next == \E o \in Object : Tick(o) \/ Release(o)

(* The display loop re-arms its own timer every tick: it never stops by itself. *)
Spec == Init /\ [][Next]_txvars /\ \A o \in Object : WF_txvars(Tick(o))

-----------------------------------------------------------------------------
(* A held transmitter has displayed no packet: the ciphertext exists, but     *)
(* nothing carrying it reaches the screen before the human confirms.          *)
HeldShowsNothing ==
  \A o \in Object : held[o] => screen[o].type # "symbol" /\ cursor[o] = 0
=============================================================================
