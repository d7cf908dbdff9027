--------------------------- MODULE Transfer_proof ---------------------------
(***************************************************************************)
(* Proofs about the optical transfer, for any number of screens, any pools *)
(* and any loss, repetition and interleaving of frames: nothing of a held  *)
(* object leaves its device, and the pipeline implements the courier.      *)
(*                                                                         *)
(* The invariants of the two halves are proved in their own modules.  Both *)
(* are instantiated here once more, as RxP and TxP, and the first lemmas   *)
(* say that these are the halves Transfer is made of.  What the ladder     *)
(* observes of a transmitter plays no part here and is put at nothing.     *)
(***************************************************************************)
EXTENDS Transfer, TLAPS

RxP == INSTANCE Receiver_proof WITH Runs <- NoRuns
TxP == INSTANCE Ladder_proof WITH Repair <- 0, caught <- <<>>, quiet <- <<>>

-----------------------------------------------------------------------------
(* The halves *)

LEMMA HalvesAssumed == RxP!ReceiverAssumption /\ TxP!TransmitterAssumption
<1>1. TxP!TransmitterAssumption
  BY TransferAssumption DEF TxP!TransmitterAssumption, Tx!TransmitterAssumption
<1>2. RxP!ReceiverAssumption
  BY TransferAssumption
  DEF RxP!ReceiverAssumption, Rx!ReceiverAssumption, RxP!Key, Rx!Key
<1> QED BY <1>1, <1>2

LEMMA SameTransmitter ==
  ASSUME NEW o \in Object
  PROVE  /\ Tx!Init <=> TxP!Init
         /\ Tx!Tick(o) <=> TxP!Tick(o)
         /\ Tx!Release(o) <=> TxP!Release(o)
<1>1. Tx!Init <=> TxP!Init
  BY DEF Tx!Init, TxP!Init, Tx!Blank, TxP!Blank
<1>2. Tx!Tick(o) <=> TxP!Tick(o)
  BY DEF Tx!Tick, TxP!Tick, Tx!ShowBeacon, TxP!ShowBeacon, Tx!ShowSymbols,
    TxP!ShowSymbols, Tx!BeaconDue, TxP!BeaconDue, Tx!Advance, TxP!Advance,
    Tx!BeaconFrame, TxP!BeaconFrame, Tx!SymbolFrame, TxP!SymbolFrame,
    Tx!PackedRun, TxP!PackedRun, Tx!Chunk, TxP!Chunk, Tx!RungDue, TxP!RungDue,
    Tx!PacketsPerFrame, TxP!PacketsPerFrame, Tx!Least, TxP!Least,
    Tx!SymbolOverhead, TxP!SymbolOverhead
<1>3. Tx!Release(o) <=> TxP!Release(o)
  BY DEF Tx!Release, TxP!Release
<1> QED BY <1>1, <1>2, <1>3

LEMMA SameReceiver ==
  ASSUME NEW o \in Object, NEW run \in Seq(Nat)
  PROVE  /\ Rx!Init <=> RxP!Init
         /\ Rx!IngestBeacon(o) <=> RxP!IngestBeacon(o)
         /\ Rx!IngestSymbols(o, run) <=> RxP!IngestSymbols(o, run)
         /\ Rx!AfterDone <=> RxP!AfterDone
<1>1. Rx!Init <=> RxP!Init
  BY DEF Rx!Init, RxP!Init
<1>2. Rx!IngestBeacon(o) <=> RxP!IngestBeacon(o)
  BY DEF Rx!IngestBeacon, RxP!IngestBeacon, Rx!AcquireBeacon, RxP!AcquireBeacon,
    Rx!RepeatBeacon, RxP!RepeatBeacon, Rx!Listening, RxP!Listening
<1>3. Rx!Absorb(o, run) <=> RxP!Absorb(o, run)
  BY DEF Rx!Absorb, RxP!Absorb, Rx!Listening, RxP!Listening, Rx!Sid4, RxP!Sid4,
    Rx!Tagged, RxP!Tagged, Rx!Fresh, RxP!Fresh, Rx!FreshUpTo, RxP!FreshUpTo,
    Rx!Decode, RxP!Decode, Rx!Fed, RxP!Fed, Rx!Reassemble, RxP!Reassemble,
    Rx!Outcome, RxP!Outcome, Rx!Opens, RxP!Opens, Rx!Packets, RxP!Packets,
    Rx!Cardinality, RxP!Cardinality
<1>4. /\ Rx!HoldSymbols(o, run) <=> RxP!HoldSymbols(o, run)
      /\ Rx!ForeignSymbols(o) <=> RxP!ForeignSymbols(o)
  BY DEF Rx!HoldSymbols, RxP!HoldSymbols, Rx!ForeignSymbols, RxP!ForeignSymbols,
    Rx!Listening, RxP!Listening, Rx!Sid4, RxP!Sid4, Rx!Tagged, RxP!Tagged,
    Rx!Hold, RxP!Hold, Rx!Packets, RxP!Packets
<1>5. Rx!IngestSymbols(o, run) <=> RxP!IngestSymbols(o, run)
  BY <1>3, <1>4 DEF Rx!IngestSymbols, RxP!IngestSymbols
<1>6. Rx!AfterDone <=> RxP!AfterDone
  BY DEF Rx!AfterDone, RxP!AfterDone, Rx!Listening, RxP!Listening
<1> QED BY <1>1, <1>2, <1>5, <1>6

-----------------------------------------------------------------------------
(* The inductive invariant *)

(* The receiver knows no packet, parked, absorbed or ever heard, of an object *)
(* that is still held.                                                        *)
HeldUnknown == \A o \in Object : held[o] => \A p \in RxP!Known : p.obj # o

XInv ==
  /\ RxP!IInv
  /\ TxP!TxInv
  /\ HeldUnknown

LEMMA InitXInv == Init => XInv
<1> SUFFICES ASSUME Init PROVE XInv
  OBVIOUS
<1>1. RxP!Init /\ TxP!Init
  BY DEF Init, Tx!Init, TxP!Init, Tx!Blank, TxP!Blank, Rx!Init, RxP!Init
<1>2. RxP!IInv
  BY <1>1, HalvesAssumed, RxP!InitIInv
<1>3. TxP!TxInv
  BY <1>1, HalvesAssumed, TxP!InitTxInv
<1>4. RxP!Known = {}
  BY <1>1 DEF RxP!Init, RxP!Known, RxP!Packets
<1> QED BY <1>2, <1>3, <1>4 DEF XInv, HeldUnknown

(* What a step of a sending device leaves of the receiver, and the reverse. *)
LEMMA ReceiverStutters ==
  ASSUME XInv, UNCHANGED rxvars
  PROVE  RxP!IInv' /\ (RxP!Known)' = RxP!Known
<1>1. UNCHANGED RxP!vars
  BY DEF rxvars, RxP!vars
<1>2. RxP!IInv'
  BY <1>1, HalvesAssumed, RxP!StutterIInv DEF XInv
<1>3. (RxP!Known)' = RxP!Known
  BY DEF rxvars, RxP!Known, RxP!Packets
<1> QED BY <1>2, <1>3

LEMMA TickXInv ==
  ASSUME XInv, NEW o \in Object, Tick(o)
  PROVE  XInv'
<1>1. TxP!Tick(o) /\ UNCHANGED rxvars
  BY SameTransmitter DEF Tick
<1>2. RxP!IInv' /\ (RxP!Known)' = RxP!Known
  BY <1>1, ReceiverStutters
<1>3. TxP!TxInv'
  BY <1>1, HalvesAssumed, TxP!NextTxInv DEF XInv, TxP!Next
<1>4. held' = held
  BY <1>1 DEF TxP!Tick, TxP!ShowBeacon, TxP!ShowSymbols, TxP!Advance
<1>5. HeldUnknown'
  BY <1>2, <1>4 DEF XInv, HeldUnknown
<1> QED BY <1>2, <1>3, <1>5 DEF XInv

LEMMA ReleaseXInv ==
  ASSUME XInv, NEW o \in Object, Release(o)
  PROVE  XInv'
<1>1. TxP!Release(o) /\ UNCHANGED rxvars
  BY SameTransmitter DEF Release
<1>2. RxP!IInv' /\ (RxP!Known)' = RxP!Known
  BY <1>1, ReceiverStutters
<1>3. TxP!TxInv'
  BY <1>1, HalvesAssumed, TxP!NextTxInv DEF XInv, TxP!Next
<1>4. \A x \in Object : held'[x] => held[x]
  BY <1>1 DEF TxP!Release, XInv, TxP!TxInv, TxP!TypeOK
<1>5. HeldUnknown'
  BY <1>2, <1>4 DEF XInv, HeldUnknown
<1> QED BY <1>2, <1>3, <1>5 DEF XInv

LEMMA CaptureXInv ==
  ASSUME XInv, NEW o \in Object, Capture(o)
  PROVE  XInv'
<1>1. UNCHANGED txvars
  BY DEF Capture
<1>2. TxP!TxInv'
  <2>1. UNCHANGED TxP!txvars
    BY <1>1 DEF txvars, TxP!txvars
  <2> QED BY <2>1, HalvesAssumed, TxP!NextTxInv DEF XInv
<1>3. screen[o].run \in Seq(Nat) /\ (screen[o].type = "symbol" => ~held[o])
  BY DEF XInv, TxP!TxInv, TxP!TypeOK, TxP!Frame, TxP!HeldShowsNothing
<1>4. CASE RxP!IngestBeacon(o) \/ RxP!AfterDone
  <2>1. RxP!IInv'
    BY <1>3, <1>4, HalvesAssumed, RxP!IngestIInv DEF XInv
  <2>2. (RxP!Known)' = RxP!Known
    BY <1>4 DEF RxP!IngestBeacon, RxP!AcquireBeacon, RxP!RepeatBeacon,
      RxP!AfterDone, RxP!Known, RxP!Packets
  <2> QED BY <1>1, <1>2, <2>1, <2>2 DEF XInv, HeldUnknown, txvars
<1>5. CASE screen[o].type = "symbol" /\ RxP!IngestSymbols(o, screen[o].run)
  <2>1. RxP!IInv'
    BY <1>3, <1>5, HalvesAssumed, RxP!IngestIInv DEF XInv
  <2>2. \A p \in (RxP!Known)' : p \in RxP!Known \/ p.obj = o
    BY <1>3, <1>5, HalvesAssumed, RxP!Provenance DEF XInv
  <2>3. HeldUnknown'
    BY <1>1, <1>3, <1>5, <2>2 DEF XInv, HeldUnknown, txvars
  <2> QED BY <1>2, <2>1, <2>3 DEF XInv
<1> QED BY <1>3, <1>4, <1>5, SameReceiver DEF Capture

LEMMA NextXInv == XInv /\ [Next]_vars => XInv'
<1> SUFFICES ASSUME XInv, [Next]_vars PROVE XInv'
  OBVIOUS
<1>1. CASE UNCHANGED vars
  <2>1. UNCHANGED rxvars /\ UNCHANGED txvars
    BY <1>1 DEF vars
  <2>2. RxP!IInv' /\ (RxP!Known)' = RxP!Known
    BY <2>1, ReceiverStutters
  <2>3. UNCHANGED TxP!txvars
    BY <2>1 DEF txvars, TxP!txvars
  <2>4. TxP!TxInv'
    BY <2>3, HalvesAssumed, TxP!NextTxInv DEF XInv
  <2> QED BY <2>1, <2>2, <2>4 DEF XInv, HeldUnknown, txvars
<1>2. CASE Next
  BY <1>2, TickXInv, ReleaseXInv, CaptureXInv DEF Next
<1> QED BY <1>1, <1>2

-----------------------------------------------------------------------------
(* The theorems *)

(* Whatever is displayed, lost, repeated and released, both halves keep their *)
(* invariants and the receiver knows no packet of a held object.              *)
THEOREM TransferInvariance == Spec => []XInv
  BY InitXInv, NextXInv, PTL DEF Spec

(* Until its human has confirmed, no packet of an object has been heard or   *)
(* absorbed by a receiver, whoever else is in view.                          *)
THEOREM HeldNeverLeaves == Spec => []HeldStaysHome
<1>1. XInv => HeldStaysHome
  BY DEF XInv, HeldUnknown, HeldStaysHome, RxP!Known
<1> QED BY <1>1, TransferInvariance, PTL

LEMMA InitCourier == Init => Promise!Init
<1> SUFFICES ASSUME Init PROVE Promise!Init
  OBVIOUS
<1>1. held = [o \in Object |-> o \in Paired] /\ delivered = None
  BY DEF Init, Tx!Init, Rx!Init
<1> QED BY <1>1 DEF Promise!Init

(* What has been delivered is cleared, in this state and in the next. *)
DeliveredCleared == done => delivered \in Object /\ ~held[delivered]

LEMMA OnlyClearedDelivered == XInv => DeliveredCleared
<1> SUFFICES ASSUME XInv, done PROVE delivered \in Object /\ ~held[delivered]
  BY DEF DeliveredCleared
<1>1. delivered \in Object /\ \E p \in seen : p.obj = delivered
  BY HalvesAssumed, RxP!DeliveredHasPacket DEF XInv
<1> QED BY <1>1 DEF XInv, HeldUnknown, RxP!Known

LEMMA OnlyClearedDeliveredNext == XInv' => DeliveredCleared'
  BY OnlyClearedDelivered, PTL

LEMMA StepCourier ==
  ASSUME XInv, XInv', [Next]_vars
  PROVE  [Promise!Next]_(<<{o \in Object : ~held[o]}, delivered>>)
<1> DEFINE cleared == {o \in Object : ~held[o]}
<1>1. CASE UNCHANGED vars
  BY <1>1 DEF vars, rxvars, txvars
<1>2. ASSUME NEW o \in Object, Tick(o)
      PROVE  UNCHANGED <<cleared, delivered>>
  BY <1>2 DEF Tick, rxvars, Tx!Tick, Tx!ShowBeacon, Tx!ShowSymbols, Tx!Advance
<1>3. ASSUME NEW o \in Object, Release(o)
      PROVE  Promise!Clear(o)
  <2>1. held[o] /\ held' = [held EXCEPT ![o] = FALSE] /\ delivered' = delivered
    BY <1>3 DEF Release, Tx!Release, rxvars
  <2>2. held \in [Object -> BOOLEAN]
    BY DEF XInv, TxP!TxInv, TxP!TypeOK
  <2>3. cleared' = cleared \cup {o} /\ o \notin cleared
    BY <2>1, <2>2
  <2> QED BY <2>1, <2>3 DEF Promise!Clear
<1>4. ASSUME NEW o \in Object, Capture(o)
      PROVE  delivered' = delivered \/ Promise!Deliver(delivered')
  <2>1. held' = held /\ cleared' = cleared
    BY <1>4 DEF Capture, txvars
  <2>2. /\ done => delivered' = delivered
        /\ ~done' => delivered' = delivered
    BY <1>4 DEF Capture, Rx!IngestBeacon, Rx!AcquireBeacon, Rx!RepeatBeacon,
      Rx!IngestSymbols, Rx!HoldSymbols, Rx!ForeignSymbols, Rx!Absorb, Rx!AfterDone,
      Rx!Listening
  <2>3. CASE ~done /\ done'
    <3>1. delivered = None
      BY <2>3, HalvesAssumed, RxP!DeliveredHasPacket DEF XInv
    <3>2. delivered' \in Object /\ ~held'[delivered']
      BY <2>3, OnlyClearedDeliveredNext DEF DeliveredCleared
    <3> QED BY <2>1, <3>1, <3>2 DEF Promise!Deliver
  <2> QED BY <2>2, <2>3
<1>5. ASSUME NEW o \in Object, Capture(o)
      PROVE  [Promise!Next]_(<<cleared, delivered>>)
  <2>1. cleared' = cleared
    BY <1>5 DEF Capture, txvars
  <2>2. CASE Promise!Deliver(delivered')
    <3>1. delivered' \in Object
      BY <2>2 DEF Promise!Deliver
    <3> QED BY <2>2, <3>1 DEF Promise!Next
  <2> QED BY <1>4, <1>5, <2>1, <2>2
<1>6. ASSUME NEW o \in Object, Release(o)
      PROVE  Promise!Next
  BY <1>3, <1>6 DEF Promise!Next
<1> QED BY <1>1, <1>2, <1>5, <1>6 DEF Next

(* The pipeline implements the courier: at most one payload, whole, and only *)
(* one that its human has cleared, is ever delivered.                        *)
THEOREM TransferRefinesCourier == Spec => ImplementsCourier
<1>1. Init => Promise!Init
  BY InitCourier
<1>2. XInv /\ XInv' /\ [Next]_vars
        => [Promise!Next]_(<<{o \in Object : ~held[o]}, delivered>>)
  BY StepCourier
<1> QED
  BY <1>1, <1>2, TransferInvariance, PTL DEF Spec, ImplementsCourier, Promise!Spec
=============================================================================
