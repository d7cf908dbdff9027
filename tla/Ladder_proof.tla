---------------------------- MODULE Ladder_proof ----------------------------
(***************************************************************************)
(* Proofs about the sending screens, for any pools, packet lengths, ladder *)
(* and schedule, any beacon interval and any modulus of frame_id: the      *)
(* cursor never leaves the pool, a held transmitter has shown nothing, and *)
(* a beacon is never further away than the interval.                       *)
(*                                                                         *)
(* A wrap of frame_id in the middle of an interval brings the next beacon  *)
(* forward, because zero is a multiple of the interval; it never delays    *)
(* one.                                                                    *)
(***************************************************************************)
EXTENDS Ladder, Integers, TLAPS, SequenceTheorems

-----------------------------------------------------------------------------
(* The transmitter *)

(* A frame packs a natural number of packets whatever its capacity. *)
LEMMA PacketsPerFrameType ==
  ASSUME NEW capacity \in Nat, NEW len \in Nat \ {0}
  PROVE  PacketsPerFrame(capacity, len) \in Nat
<1> DEFINE usable == IF capacity < SymbolOverhead THEN 0 ELSE capacity - SymbolOverhead
<1>1. usable \in Nat
  BY DEF SymbolOverhead
<1> HIDE DEF usable
<1>2. usable \div len \in Nat
  BY <1>1
<1>3. Least(usable \div len, 255) \in Nat
  BY <1>2 DEF Least
<1> QED BY <1>3 DEF PacketsPerFrame, usable

(* What a tick packs is a sequence of ids of the pool. *)
LEMMA PackedRunType ==
  ASSUME TypeOK, NEW o \in Object
  PROVE  /\ PackedRun(o) \in Seq(Nat)
         /\ Len(PackedRun(o)) \in Nat
<1> DEFINE n == PacketsPerFrame(Capacity[RungDue(o)], PacketLen[o])
<1>1. tick[o] + 1 \in 1..Len(Schedule)
  <2>1. Len(Schedule) \in Nat /\ tick[o] \in 0..(Len(Schedule) - 1)
    BY TransmitterAssumption, LenProperties DEF TypeOK
  <2> QED BY <2>1
<1>2. RungDue(o) \in Rung
  BY <1>1, TransmitterAssumption, ElementOfSeq DEF RungDue
<1>3. Capacity[RungDue(o)] \in Nat /\ PacketLen[o] \in Nat \ {0}
  BY <1>2, TransmitterAssumption
<1>4. n \in Nat
  BY <1>3, PacketsPerFrameType
<1> HIDE DEF n
<1>5. ASSUME NEW j \in 1..n
      PROVE  (cursor[o] + j - 1) % Pool[o] \in Nat
  <2>1. cursor[o] \in Nat /\ Pool[o] \in Nat \ {0}
    BY TransmitterAssumption DEF TypeOK
  <2>2. cursor[o] + j - 1 \in Nat
    BY <1>4, <2>1
  <2> QED BY <2>1, <2>2
<1>6. Chunk(o, n) \in [1..n -> Nat]
  BY <1>5 DEF Chunk
<1>7. Chunk(o, n) \in Seq(Nat) /\ Len(Chunk(o, n)) = n
  BY <1>4, <1>6
<1> QED BY <1>4, <1>7 DEF PackedRun, n

(* The cursor of a held transmitter is where it started. *)
TxInv == TypeOK /\ HeldShowsNothing

LEMMA InitTxInv == Init => TxInv
<1> SUFFICES ASSUME Init PROVE TxInv
  OBVIOUS
<1>1. Len(Schedule) \in Nat \ {0} /\ FrameIds \in Nat \ {0}
  BY TransmitterAssumption, LenProperties
<1>2. 0 \in 0..(FrameIds - 1) /\ 0 \in 0..(Len(Schedule) - 1)
  BY <1>1
<1>3. \A o \in Object : 0 < Pool[o]
  BY TransmitterAssumption
<1>4. Blank \in Frame
  BY EmptySeq DEF Blank, Frame
<1>5. TypeOK
  BY <1>2, <1>3, <1>4 DEF Init, TypeOK
<1>6. HeldShowsNothing
  BY DEF Init, HeldShowsNothing, Blank
<1> QED BY <1>5, <1>6 DEF TxInv

LEMMA AdvanceType ==
  ASSUME TypeOK, NEW o \in Object, Advance(o)
  PROVE  /\ frame_id' \in [Object -> 0..(FrameIds - 1)]
         /\ tick' \in [Object -> 0..(Len(Schedule) - 1)]
         /\ held' = held
<1>1. Len(Schedule) \in Nat \ {0} /\ FrameIds \in Nat \ {0}
  BY TransmitterAssumption, LenProperties
<1>2. frame_id[o] \in Nat /\ tick[o] \in Nat
  BY <1>1 DEF TypeOK
<1>3. /\ (frame_id[o] + 1) % FrameIds \in 0..(FrameIds - 1)
      /\ (tick[o] + 1) % Len(Schedule) \in 0..(Len(Schedule) - 1)
  BY <1>1, <1>2
<1> QED BY <1>3 DEF Advance, TypeOK

LEMMA ShowBeaconTxInv ==
  ASSUME TxInv, NEW o \in Object, ShowBeacon(o)
  PROVE  TxInv'
<1>1. /\ frame_id' \in [Object -> 0..(FrameIds - 1)]
      /\ tick' \in [Object -> 0..(Len(Schedule) - 1)]
      /\ held' = held /\ cursor' = cursor
      /\ screen' = [screen EXCEPT ![o] = BeaconFrame]
  BY AdvanceType DEF ShowBeacon, TxInv
<1>2. BeaconFrame \in Frame
  BY EmptySeq DEF BeaconFrame, Frame
<1>3. TypeOK'
  BY <1>1, <1>2 DEF TxInv, TypeOK
<1>4. HeldShowsNothing'
  <2>1. BeaconFrame.type # "symbol"
    BY DEF BeaconFrame
  <2> QED BY <1>1, <2>1 DEF TxInv, TypeOK, HeldShowsNothing
<1> QED BY <1>3, <1>4 DEF TxInv

LEMMA ShowSymbolsTxInv ==
  ASSUME TxInv, NEW o \in Object, ShowSymbols(o)
  PROVE  TxInv'
<1>1. /\ frame_id' \in [Object -> 0..(FrameIds - 1)]
      /\ tick' \in [Object -> 0..(Len(Schedule) - 1)]
      /\ held' = held /\ ~held[o]
      /\ screen' = [screen EXCEPT ![o] = SymbolFrame(PackedRun(o))]
      /\ cursor' = [cursor EXCEPT ![o] = (@ + Len(PackedRun(o))) % Pool[o]]
  BY AdvanceType DEF ShowSymbols, TxInv, BeaconDue
<1>2. PackedRun(o) \in Seq(Nat) /\ Len(PackedRun(o)) \in Nat
  BY PackedRunType DEF TxInv
<1>3. SymbolFrame(PackedRun(o)) \in Frame
  BY <1>2 DEF SymbolFrame, Frame
<1>4. /\ (cursor[o] + Len(PackedRun(o))) % Pool[o] \in Nat
      /\ (cursor[o] + Len(PackedRun(o))) % Pool[o] < Pool[o]
  <2>1. cursor[o] \in Nat /\ Pool[o] \in Nat \ {0}
    BY TransmitterAssumption DEF TxInv, TypeOK
  <2>2. cursor[o] + Len(PackedRun(o)) \in Nat
    BY <1>2, <2>1
  <2> QED BY <2>1, <2>2
<1>5. TypeOK'
  BY <1>1, <1>3, <1>4 DEF TxInv, TypeOK
<1>6. HeldShowsNothing'
  BY <1>1 DEF TxInv, TypeOK, HeldShowsNothing
<1> QED BY <1>5, <1>6 DEF TxInv

LEMMA ReleaseTxInv ==
  ASSUME TxInv, NEW o \in Object, Release(o)
  PROVE  TxInv'
BY DEF TxInv, TypeOK, HeldShowsNothing, Release

LEMMA NextTxInv == TxInv /\ [Next]_txvars => TxInv'
<1> SUFFICES ASSUME TxInv, [Next]_txvars PROVE TxInv'
  OBVIOUS
<1>1. CASE UNCHANGED txvars
  BY <1>1 DEF TxInv, TypeOK, HeldShowsNothing, txvars
<1>2. ASSUME NEW o \in Object, Tick(o) \/ Release(o) PROVE TxInv'
  BY <1>2, ShowBeaconTxInv, ShowSymbolsTxInv, ReleaseTxInv DEF Tick
<1> QED BY <1>1, <1>2 DEF Next

(* The cursor stays inside the pool and the schedule position inside the     *)
(* schedule, through every frame and every wrap of frame_id.                 *)
THEOREM TransmitterTypes == Spec => []TypeOK
<1>1. TxInv => TypeOK
  BY DEF TxInv
<1> QED BY <1>1, InitTxInv, NextTxInv, PTL DEF Spec

(* Before the human confirms, no packet of a PAIR object has been displayed. *)
THEOREM NothingShownWhileHeld == Spec => []HeldShowsNothing
<1>1. TxInv => HeldShowsNothing
  BY DEF TxInv
<1> QED BY <1>1, InitTxInv, NextTxInv, PTL DEF Spec

-----------------------------------------------------------------------------
(* Arithmetic *)

(* A natural number and its quotient and remainder. *)
LEMMA Divided ==
  ASSUME NEW f \in Nat, NEW d \in Nat \ {0}
  PROVE  f % d \in 0..(d - 1) /\ f \div d \in Nat /\ f = d * (f \div d) + (f % d)
OBVIOUS

(* The quotient is unique. *)
LEMMA OneQuotient ==
  ASSUME NEW d \in Nat \ {0}, NEW q \in Int, NEW p \in Int,
         NEW r \in 0..(d - 1), NEW s \in 0..(d - 1), d * q + r = d * p + s
  PROVE  q = p
<1>1. d * (q - p) = s - r
  OBVIOUS
<1>2. CASE q > p
  <2>1. q - p >= 1
    BY <1>2
  <2>2. d * (q - p) >= d
    BY <2>1, Z3
  <2>. QED
    BY <1>1, <2>2
<1>3. CASE q < p
  <2>1. q - p <= -1
    BY <1>3
  <2>2. d * (q - p) <= -d
    BY <2>1, Z3
  <2>. QED
    BY <1>1, <2>2
<1>. QED
  BY <1>2, <1>3

(* Counting on by one counts the remainder on, or wraps it. *)
LEMMA NextRemainder ==
  ASSUME NEW f \in Nat, NEW d \in Nat \ {0}
  PROVE  (f + 1) % d = IF f % d = d - 1 THEN 0 ELSE (f % d) + 1
<1>. DEFINE g == f + 1
<1>1. f % d \in 0..(d - 1) /\ f \div d \in Nat /\ f = d * (f \div d) + (f % d)
  BY Divided
<1>2. g % d \in 0..(d - 1) /\ g \div d \in Nat /\ g = d * (g \div d) + (g % d)
  <2>1. g \in Nat
    OBVIOUS
  <2>. HIDE DEF g
  <2>. QED
    BY <2>1, Divided
<1>3. CASE f % d = d - 1
  <2>1. g = d * (f \div d + 1) + 0
    BY <1>1, <1>3
  <2>2. g \div d = f \div d + 1
    BY <2>1, <1>1, <1>2, OneQuotient
  <2>. QED
    BY <2>1, <2>2, <1>1, <1>2, <1>3
<1>4. CASE f % d # d - 1
  <2>1. g = d * (f \div d) + ((f % d) + 1) /\ (f % d) + 1 \in 0..(d - 1)
    BY <1>1, <1>4
  <2>2. g \div d = f \div d
    BY <2>1, <1>1, <1>2, OneQuotient
  <2>. QED
    BY <2>1, <2>2, <1>1, <1>2, <1>4
<1>. QED
  BY <1>3, <1>4

-----------------------------------------------------------------------------
(* How far into its interval the next frame is. *)
Slack(f) == IF f % Interval = 0 THEN Interval - 1 ELSE (f % Interval) - 1

(* Since the last beacon no more frames were shown than frame_id tells. *)
QuietInv ==
  /\ frame_id \in [Object -> 0..(FrameIds - 1)]
  /\ quiet \in [Object -> Nat]
  /\ \A o \in Object : quiet[o] <= Slack(frame_id[o])

LEMMA ZeroSlack == 0 % Interval = 0 /\ Slack(0) = Interval - 1
<1>1. Interval \in Nat \ {0}
  BY TransmitterAssumption
<1>2. 0 % Interval = 0
  <2>1. /\ 0 % Interval \in 0..(Interval - 1) /\ 0 \div Interval \in Nat
        /\ 0 = Interval * (0 \div Interval) + (0 % Interval)
    BY <1>1, Divided
  <2>2. 0 = Interval * 0 + 0 /\ 0 \in 0..(Interval - 1)
    BY <1>1
  <2>3. 0 \div Interval = 0
    BY <1>1, <2>1, <2>2, OneQuotient
  <2>. QED
    BY <1>1, <2>1, <2>3
<1>. QED
  BY <1>2 DEF Slack

(* The number after f is one more, or zero at the wrap. *)
LEMMA NextNumber ==
  ASSUME NEW f \in 0..(FrameIds - 1)
  PROVE  /\ (f + 1) % FrameIds \in 0..(FrameIds - 1)
         /\ (f + 1) % FrameIds \in {0, f + 1}
<1>1. FrameIds \in Nat \ {0} /\ f \in Nat /\ f < FrameIds
  BY TransmitterAssumption
<1>2. (f + 1) % FrameIds = IF f % FrameIds = FrameIds - 1 THEN 0 ELSE (f % FrameIds) + 1
  BY <1>1, NextRemainder
<1>3. f % FrameIds = f
  <2>1. /\ f % FrameIds \in 0..(FrameIds - 1) /\ f \div FrameIds \in Nat
        /\ f = FrameIds * (f \div FrameIds) + (f % FrameIds)
    BY <1>1, Divided
  <2>2. f = FrameIds * 0 + f
    BY <1>1
  <2>3. f \div FrameIds = 0
    BY <1>1, <2>1, <2>2, OneQuotient
  <2>. QED
    BY <1>1, <2>1, <2>3
<1>. QED
  BY <1>1, <1>2, <1>3

(* A frame that was no beacon leaves room for one more. *)
LEMMA SlackGrows ==
  ASSUME NEW f \in 0..(FrameIds - 1), NEW q \in Nat,
         f % Interval # 0, q <= Slack(f)
  PROVE  q + 1 <= Slack((f + 1) % FrameIds)
<1>1. Interval \in Nat \ {0} /\ FrameIds \in Nat \ {0} /\ f \in Nat
  BY TransmitterAssumption
<1>2. f % Interval \in 0..(Interval - 1)
  BY <1>1, Divided
<1>3. q + 1 <= f % Interval
  BY <1>2 DEF Slack
<1>4. CASE (f + 1) % FrameIds = 0
  BY <1>1, <1>2, <1>3, <1>4, ZeroSlack
<1>5. CASE (f + 1) % FrameIds = f + 1
  <2>1. (f + 1) % Interval = IF f % Interval = Interval - 1 THEN 0 ELSE (f % Interval) + 1
    BY <1>1, NextRemainder
  <2>2. Slack(f + 1) \in {Interval - 1, f % Interval}
    BY <1>1, <1>2, <2>1 DEF Slack
  <2>. QED
    BY <1>1, <1>2, <1>3, <1>5, <2>2
<1>. QED
  BY <1>4, <1>5, NextNumber

(* Just after a beacon there is room for any number. *)
LEMMA SlackIsNatural ==
  ASSUME NEW f \in Nat
  PROVE  Slack(f) \in 0..(Interval - 1)
<1>1. Interval \in Nat \ {0} /\ f % Interval \in 0..(Interval - 1)
  BY TransmitterAssumption, Divided
<1>. QED
  BY <1>1 DEF Slack

LEMMA InitQuiet == LadderInit => QuietInv
<1>. SUFFICES ASSUME LadderInit PROVE QuietInv
  OBVIOUS
<1>1. 0 \in 0..(FrameIds - 1) /\ 0 <= Interval - 1
  BY TransmitterAssumption
<1>. QED
  BY <1>1, ZeroSlack DEF LadderInit, Init, QuietInv

LEMMA StepQuiet == QuietInv /\ [LadderNext]_ladvars => QuietInv'
<1>. SUFFICES ASSUME QuietInv, [LadderNext]_ladvars PROVE QuietInv'
  OBVIOUS
<1>. USE DEF QuietInv
<1>1. ASSUME NEW o \in Object, ObserveBeacon(o) PROVE QuietInv'
  <2>1. /\ frame_id' = [frame_id EXCEPT ![o] = (@ + 1) % FrameIds]
        /\ quiet' = [quiet EXCEPT ![o] = 0]
    BY <1>1 DEF ObserveBeacon, ShowBeacon, Advance
  <2>2. (frame_id[o] + 1) % FrameIds \in 0..(FrameIds - 1)
    BY NextNumber
  <2>3. 0 <= Slack((frame_id[o] + 1) % FrameIds)
    BY <2>2, SlackIsNatural
  <2>. QED
    BY <2>1, <2>2, <2>3
<1>2. ASSUME NEW o \in Object, ObserveSymbols(o) PROVE QuietInv'
  <2>1. /\ frame_id' = [frame_id EXCEPT ![o] = (@ + 1) % FrameIds]
        /\ quiet' = [quiet EXCEPT ![o] = @ + 1]
        /\ frame_id[o] % Interval # 0
    BY <1>2 DEF ObserveSymbols, ShowSymbols, Advance, BeaconDue
  <2>2. (frame_id[o] + 1) % FrameIds \in 0..(FrameIds - 1)
    BY NextNumber
  <2>3. quiet[o] + 1 <= Slack((frame_id[o] + 1) % FrameIds)
    BY <2>1, SlackGrows
  <2>. QED
    BY <2>1, <2>2, <2>3
<1>3. ASSUME NEW o \in Object, ObserveRelease(o) PROVE QuietInv'
  BY <1>3 DEF ObserveRelease, Release
<1>4. CASE UNCHANGED ladvars
  BY <1>4 DEF ladvars, txvars
<1>. QED
  BY <1>1, <1>2, <1>3, <1>4 DEF LadderNext, ObserveTick

(* Between two beacons of Transmitter::next_frame_packed there are fewer      *)
(* frames than the interval, at any time of the display loop.                 *)
THEOREM BeaconComesInTime == LadderSpec => []BeaconWithinInterval
<1>1. QuietInv => BeaconWithinInterval
  <2>. SUFFICES ASSUME QuietInv, NEW o \in Object PROVE quiet[o] < Interval
    BY DEF BeaconWithinInterval
  <2>1. Slack(frame_id[o]) \in 0..(Interval - 1) /\ Interval \in Nat
    BY SlackIsNatural, TransmitterAssumption DEF QuietInv
  <2>. QED
    BY <2>1 DEF QuietInv
<1>. QED
  BY <1>1, InitQuiet, StepQuiet, PTL DEF LadderSpec
=============================================================================
