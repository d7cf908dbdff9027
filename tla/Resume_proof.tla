---------------------------- MODULE Resume_proof ----------------------------
(***************************************************************************)
(* Proofs about the checkpoint, for any transfers, any number of page      *)
(* loads, pages that die at any step and any number of storage requests in *)
(* flight when they do: what is saved is pure, only grows, comes back      *)
(* whole and goes when it is delivered.                                    *)
(***************************************************************************)
EXTENDS Resume, TLAPS, SequenceTheorems

Saved == {slot} \cup {queue[i] : i \in DOMAIN queue}

(* A PAIR sender that shows symbols has been answered for, and one that was   *)
(* released for this very page is the one it follows.                         *)
Bindings ==
  /\ \A t \in released : bound[t] # 0
  /\ \A t \in Pair : bound[t] <= epoch
  /\ \A t \in released : bound[t] = epoch => beacon = t \/ page = "down"
  /\ beacon # None => OnAir(beacon)

(* Every symbol was shown, and is filed under the session of its sender.      *)
Pure ==
  /\ \A p \in pending : Showing(p.sym[1]) /\ SidOf(p.sym[1]) = p.sid
  /\ \A x \in seen : Showing(x[1]) /\ SidOf(x[1]) = SidOf(beacon)
  /\ \A c \in Saved \cup {resumed} :
       c # None => \A x \in c.syms : Showing(x[1]) /\ SidOf(x[1]) = c.sid

(* The stages of a page. *)
Stages ==
  /\ seen # {} => beacon # None
  /\ page \in {"down", "reading"} =>
       beacon = None /\ pending = {} /\ seen = {} /\ ~timer /\ queue = <<>> /\ resumed = None
  /\ page = "done" => ~timer

(* Until the first symbol is absorbed nothing has been written, and what the  *)
(* page has read is still parked.                                             *)
Fresh ==
  page = "up" /\ seen = {} =>
    /\ queue = <<>> /\ slot = resumed
    /\ resumed # None =>
         \A x \in resumed.syms : [sid |-> resumed.sid, sym |-> x] \in pending

(* From then on everything saved of this session is within what is seen, and  *)
(* the requests in flight only grow.                                          *)
Growing ==
  /\ \A c \in Saved \cup {resumed} :
       c # None /\ seen # {} /\ c.sid = SidOf(beacon) => c.syms \subseteq seen
  /\ \A j \in DOMAIN queue :
       slot # None /\ queue[j] # None /\ slot.sid = queue[j].sid => slot.syms \subseteq queue[j].syms
  /\ \A i, j \in DOMAIN queue :
       i < j /\ queue[i] # None /\ queue[j] # None /\ queue[i].sid = queue[j].sid
         => queue[i].syms \subseteq queue[j].syms

(* The delete of a finished page is the last thing it asks for.               *)
Forgetting ==
  page = "done" => IF queue = <<>> THEN slot = None ELSE queue[Len(queue)] = None

IInv ==
  /\ TypeOK /\ Bindings /\ Pure /\ Stages /\ Fresh /\ Growing /\ Forgetting
  /\ OnlyStalePairingFails

LEMMA SidType ==
  ASSUME TypeOK, NEW t \in Transfer
  PROVE  SidOf(t) \in Sid
BY ResumeAssumption DEF TypeOK, SidOf, Sid

LEMMA InitIInv == Init => IInv
<1>. SUFFICES ASSUME Init PROVE IInv
  OBVIOUS
<1>1. TypeOK
  <2>1. queue \in Seq(Checkpoint \cup {None})
    BY EmptySeq DEF Init
  <2>2. {slot, resumed} \subseteq Checkpoint \cup {None}
    BY DEF Init
  <2>3. epoch \in 0..MaxLoads /\ bound \in [Pair -> 0..MaxLoads]
    BY ResumeAssumption DEF Init
  <2>. QED
    BY <2>1, <2>2, <2>3 DEF Init, TypeOK
<1>2. Bindings /\ Stages /\ OnlyStalePairingFails
  BY ResumeAssumption DEF Init, Bindings, Stages, OnlyStalePairingFails
<1>3. Pure /\ Fresh /\ Growing /\ Forgetting
  BY DEF Init, Pure, Fresh, Growing, Forgetting, Saved
<1>. QED
  BY <1>1, <1>2, <1>3 DEF IInv

-----------------------------------------------------------------------------
(* The page comes and goes *)

LEMMA LoadKeeps == ASSUME IInv, Load PROVE IInv'
<1>. USE ResumeAssumption DEF IInv, Load, memory, peers
<1>1. TypeOK'
  BY DEF TypeOK, Sid, Checkpoint, Symbol
<1>2. Bindings'
  <2>1. epoch \in Nat /\ epoch' = epoch + 1 /\ \A t \in Pair : bound[t] \in Nat
    BY DEF TypeOK
  <2>. QED
    BY <2>1 DEF Bindings, TypeOK, OnAir
<1>3. Pure' /\ Stages' /\ Fresh' /\ Growing' /\ Forgetting' /\ OnlyStalePairingFails'
  BY DEF Pure, Stages, Fresh, Growing, Forgetting, OnlyStalePairingFails, Saved, Showing, SidOf
<1>. QED
  BY <1>1, <1>2, <1>3

LEMMA ReadKeeps == ASSUME IInv, ReadCheckpoint PROVE IInv'
<1>. USE DEF IInv, ReadCheckpoint, peers
<1>1. slot # None => slot.sid \in Sid /\ slot.syms \in SUBSET Symbol
  BY DEF TypeOK, Checkpoint
<1>2. TypeOK'
  BY <1>1 DEF TypeOK
<1>3. Pure'
  <2>1. ASSUME NEW p \in pending' PROVE Showing(p.sym[1])' /\ (SidOf(p.sym[1])' = p.sid)
    <3>1. slot # None /\ p.sym \in slot.syms /\ p.sid = slot.sid
      BY <2>1
    <3>. QED
      BY <3>1 DEF Pure, Saved, Showing, SidOf
  <2>. QED
    BY <2>1 DEF Pure, Saved, Stages, Showing, SidOf
<1>4. Bindings' /\ Stages' /\ OnlyStalePairingFails' /\ Forgetting'
  BY DEF Bindings, Stages, OnlyStalePairingFails, Forgetting, OnAir
<1>5. Fresh' /\ Growing'
  BY DEF Fresh, Growing, Stages, Saved
<1>. QED
  BY <1>2, <1>3, <1>4, <1>5

LEMMA DieKeeps == ASSUME IInv, Die PROVE IInv'
<1>. USE DEF IInv, Die, peers
<1>1. TypeOK'
  BY EmptySeq DEF TypeOK
<1>2. Bindings' /\ Stages' /\ Fresh' /\ Forgetting' /\ OnlyStalePairingFails'
  BY DEF Bindings, Stages, Fresh, Forgetting, OnlyStalePairingFails
<1>3. Pure' /\ Growing'
  BY DEF Pure, Growing, Saved, Showing, SidOf
<1>. QED
  BY <1>1, <1>2, <1>3

-----------------------------------------------------------------------------
(* The senders *)

(* Whoever has not been answered for has shown nothing, so its session id may *)
(* still change.                                                              *)
LEMMA AnswerKeeps == ASSUME IInv, NEW t \in Transfer, Answer(t) PROVE IInv'
<1>. USE DEF IInv, Answer, memory
<1>1. TypeOK'
  BY DEF TypeOK
<1>2. ASSUME NEW u, Showing(u) PROVE Showing(u)' /\ (SidOf(u)' = SidOf(u))
  BY <1>2 DEF Showing, SidOf, Bindings, TypeOK
<1>3. Bindings'
  BY DEF Bindings, TypeOK
<1>4. Pure'
  BY <1>2 DEF Pure, Stages, Saved
<1>5. Stages' /\ Fresh' /\ Growing' /\ Forgetting' /\ OnlyStalePairingFails'
  BY DEF Stages, Fresh, Growing, Forgetting, OnlyStalePairingFails, Saved
<1>. QED
  BY <1>1, <1>3, <1>4, <1>5

LEMMA ConfirmKeeps == ASSUME IInv, NEW t \in Transfer, Confirm(t) PROVE IInv'
<1>. USE DEF IInv, Confirm, memory
<1>1. TypeOK'
  BY DEF TypeOK
<1>2. Bindings'
  BY ResumeAssumption DEF Bindings, OnAir, TypeOK
<1>3. Pure'
  BY DEF Pure, Saved, Showing, SidOf
<1>4. Stages' /\ Fresh' /\ Growing' /\ Forgetting' /\ OnlyStalePairingFails'
  BY DEF Stages, Fresh, Growing, Forgetting, OnlyStalePairingFails, Saved, SidOf
<1>. QED
  BY <1>1, <1>2, <1>3, <1>4

-----------------------------------------------------------------------------
(* The receiver *)

LEMMA BeaconKeeps == ASSUME IInv, NEW t \in Transfer, Beacon(t) PROVE IInv'
<1>. USE ResumeAssumption DEF IInv, Beacon, peers
<1>1. TypeOK'
  BY DEF TypeOK
<1>2. Bindings'
  BY ResumeAssumption DEF Bindings, OnAir, TypeOK
<1>3. seen = {}
  BY DEF Stages
<1>4. Pure' /\ Growing'
  BY <1>3 DEF Pure, Growing, Saved, Showing, SidOf
<1>5. Stages' /\ Fresh' /\ Forgetting' /\ OnlyStalePairingFails'
  BY DEF Stages, Fresh, Forgetting, OnlyStalePairingFails
<1>. QED
  BY <1>1, <1>2, <1>4, <1>5

LEMMA ParkKeeps ==
  ASSUME IInv, NEW t \in Transfer, NEW id \in Symbols, Park(t, id)
  PROVE  IInv'
<1>. USE DEF IInv, Park, peers
<1>1. TypeOK'
  BY SidType DEF TypeOK, Symbol
<1>2. Bindings' /\ Stages' /\ Forgetting' /\ OnlyStalePairingFails'
  BY DEF Bindings, Stages, Forgetting, OnlyStalePairingFails, OnAir
<1>3. Pure' /\ Fresh' /\ Growing'
  BY DEF Pure, Fresh, Growing, Saved, Showing, SidOf
<1>. QED
  BY <1>1, <1>2, <1>3

(* What is parked of the session joins what was seen: the first time, it      *)
(* brings back everything the page had read.                                  *)
LEMMA AbsorbSeen ==
  ASSUME IInv, NEW t \in Transfer, NEW id \in Symbols, Absorb(t, id)
  PROVE  /\ seen \subseteq seen' /\ seen' # {} /\ seen' \subseteq Symbol
         /\ \A x \in seen' : Showing(x[1]) /\ SidOf(x[1]) = SidOf(beacon)
         /\ \A c \in Saved \cup {resumed} :
              c # None /\ c.sid = SidOf(beacon) => c.syms \subseteq seen'
<1>. USE DEF IInv
<1>1. /\ seen' = seen \cup Mine \cup {<<t, id>>}
      /\ page = "up" /\ beacon # None /\ Showing(t) /\ SidOf(t) = SidOf(beacon)
  BY DEF Absorb
<1>2. Mine \subseteq Symbol /\ \A x \in Mine : Showing(x[1]) /\ SidOf(x[1]) = SidOf(beacon)
  BY DEF Mine, Pure, TypeOK
<1>3. <<t, id>> \in Symbol
  BY DEF Symbol
<1>4. seen' \subseteq Symbol /\ seen \subseteq seen' /\ seen' # {}
  BY <1>1, <1>2, <1>3 DEF TypeOK
<1>5. ASSUME NEW x \in seen' PROVE Showing(x[1]) /\ SidOf(x[1]) = SidOf(beacon)
  BY <1>1, <1>2 DEF Pure
<1>6. ASSUME NEW c \in Saved \cup {resumed}, c # None, c.sid = SidOf(beacon)
      PROVE  c.syms \subseteq seen'
  <2>1. CASE seen # {}
    BY <1>4, <1>6, <2>1 DEF Growing
  <2>2. CASE seen = {}
    <3>1. c = resumed
      BY <1>1, <1>6, <2>2 DEF Fresh, Saved
    <3>2. ASSUME NEW x \in c.syms PROVE x \in Mine
      <4>1. [sid |-> c.sid, sym |-> x] \in pending
        BY <1>1, <1>6, <2>2, <3>1 DEF Fresh
      <4>. QED
        BY <1>6, <4>1 DEF Mine
    <3>. QED
      BY <1>1, <3>2
  <2>. QED
    BY <2>1, <2>2
<1>. QED
  BY <1>4, <1>5, <1>6

(* The symbols of a session whose key the page has are all its beacon's: of a *)
(* PAIR session because only one sender can have been released to this page.  *)
LEMMA OneSource ==
  ASSUME IInv, page = "up", beacon # None, HasKey(beacon),
         NEW x \in Symbol, Showing(x[1]), SidOf(x[1]) = SidOf(beacon)
  PROVE  x[1] = beacon
<1>. USE DEF IInv
<1>1. x[1] \in Transfer
  BY DEF Symbol
<1>2. CASE beacon \in Pair
  <2>1. x[1] \in Pair /\ bound[x[1]] = bound[beacon] /\ bound[beacon] = epoch
    BY <1>2 DEF SidOf, HasKey
  <2>2. x[1] \in released
    BY <2>1 DEF Showing
  <2>. QED
    BY <2>1, <2>2 DEF Bindings
<1>3. CASE beacon \notin Pair
  BY <1>3 DEF SidOf
<1>. QED
  BY <1>2, <1>3

LEMMA AbsorbKeeps ==
  ASSUME IInv, NEW t \in Transfer, NEW id \in Symbols, Absorb(t, id)
  PROVE  IInv'
<1>. USE DEF IInv
<1>1. /\ page = "up" /\ beacon # None /\ pending' = {}
      /\ UNCHANGED <<epoch, slot, beacon, bound, released, resumed>>
  BY DEF Absorb, peers
<1>2. \/ UNCHANGED <<page, timer, queue, delivered>>
      \/ Finish
      \/ page' = "auth" /\ UNCHANGED <<timer, queue, delivered>>
  BY DEF Absorb
<1>3. \/ queue' = queue
      \/ /\ queue' = Append(queue, None)
         /\ page' = "done" /\ timer' = FALSE
  BY <1>2 DEF Finish
<1>4. /\ queue' \in Seq(Checkpoint \cup {None})
      /\ \A i \in DOMAIN queue' : queue'[i] = None \/ (i \in DOMAIN queue /\ queue'[i] = queue[i])
  <2>1. queue \in Seq(Checkpoint \cup {None})
    BY DEF TypeOK
  <2>2. CASE queue' = Append(queue, None)
    BY <2>1, <2>2, AppendProperties
  <2>. QED
    BY <1>3, <2>1, <2>2
<1>5. TypeOK'
  BY <1>1, <1>2, <1>4, AbsorbSeen DEF TypeOK, Finish
<1>6. Bindings'
  BY <1>1, <1>2 DEF Bindings, OnAir, Finish
<1>7. \A c \in (Saved \cup {resumed})' : c = None \/ c \in Saved \cup {resumed}
  BY <1>1, <1>4 DEF Saved
<1>8. Pure'
  BY <1>1, <1>7, AbsorbSeen DEF Pure, Showing, SidOf
<1>9. Stages'
  BY <1>1, <1>2, <1>3 DEF Stages, Finish
<1>10. Fresh'
  BY AbsorbSeen DEF Fresh
<1>11. Growing'
  <2>1. \A c \in (Saved \cup {resumed})' :
          c # None /\ c.sid = SidOf(beacon)' => c.syms \subseteq seen'
    BY <1>1, <1>7, AbsorbSeen DEF SidOf
  <2>. QED
    BY <1>1, <1>4, <2>1 DEF Growing
<1>12. Forgetting'
  <2>1. CASE queue' = Append(queue, None)
    BY <2>1, AppendProperties DEF Forgetting, TypeOK
  <2>2. CASE queue' = queue /\ page' # "done"
    BY <2>2 DEF Forgetting
  <2>. QED
    BY <1>1, <1>2, <2>1, <2>2 DEF Finish
<1>13. OnlyStalePairingFails'
  <2>. SUFFICES ASSUME page' = "auth" PROVE beacon \in Pair /\ bound[beacon] # epoch
    BY <1>1 DEF OnlyStalePairingFails
  <2>1. ~(HasKey(beacon) /\ \A x \in seen' : x[1] = beacon)
    BY <1>1 DEF Absorb, Finish
  <2>2. ~HasKey(beacon)
    BY <1>1, <2>1, AbsorbSeen, OneSource
  <2>. QED
    BY <2>2 DEF HasKey
<1>. QED
  BY <1>5, <1>6, <1>8, <1>9, <1>10, <1>11, <1>12, <1>13

-----------------------------------------------------------------------------
(* Storage *)

LEMMA WriteKeeps == ASSUME IInv, WriteCheckpoint PROVE IInv'
<1>. USE DEF IInv
<1>1. /\ timer /\ beacon # None /\ seen # {}
      /\ queue' = Append(queue, Snapshot)
      /\ UNCHANGED <<page, epoch, slot, timer, beacon, pending, seen, bound, released,
                     resumed, delivered>>
  BY DEF WriteCheckpoint, memory, peers
<1>2. Snapshot \in Checkpoint /\ Snapshot.sid = SidOf(beacon) /\ Snapshot.syms = seen
  BY <1>1, SidType DEF Snapshot, Checkpoint, TypeOK
<1>3. /\ queue' \in Seq(Checkpoint \cup {None})
      /\ DOMAIN queue' = 1..(Len(queue) + 1) /\ DOMAIN queue = 1..Len(queue)
      /\ Len(queue) \in Nat
      /\ \A i \in 1..Len(queue) : queue'[i] = queue[i]
      /\ queue'[Len(queue) + 1] = Snapshot
  BY <1>1, <1>2, AppendProperties, LenProperties DEF TypeOK
<1>4. TypeOK'
  BY <1>1, <1>3 DEF TypeOK
<1>5. Bindings' /\ Stages' /\ Fresh' /\ OnlyStalePairingFails'
  BY <1>1 DEF Bindings, Stages, Fresh, OnlyStalePairingFails, OnAir
<1>6. \A c \in (Saved \cup {resumed})' : c = Snapshot \/ c \in Saved \cup {resumed}
  BY <1>1, <1>3 DEF Saved
<1>7. Pure'
  BY <1>1, <1>2, <1>6 DEF Pure, Showing, SidOf
<1>8. Growing'
  <2>1. \A c \in Saved \cup {resumed} :
          c # None /\ c.sid = SidOf(beacon) => c.syms \subseteq seen
    BY <1>1 DEF Growing
  <2>2. \A c \in (Saved \cup {resumed})' :
          c # None /\ c.sid = SidOf(beacon)' => c.syms \subseteq seen'
    BY <1>1, <1>2, <1>6, <2>1 DEF SidOf
  <2>3. slot \in Saved /\ \A i \in 1..Len(queue) : queue[i] \in Saved
    BY <1>3 DEF Saved
  <2>4. \A j \in DOMAIN queue' :
          slot # None /\ queue'[j] # None /\ slot.sid = queue'[j].sid
            => slot.syms \subseteq queue'[j].syms
    BY <1>2, <1>3, <2>1, <2>3 DEF Growing
  <2>5. ASSUME NEW i \in DOMAIN queue', NEW j \in DOMAIN queue', i < j,
               queue'[i] # None, queue'[j] # None, queue'[i].sid = queue'[j].sid
        PROVE  queue'[i].syms \subseteq queue'[j].syms
    <3>1. i \in 1..Len(queue)
      BY <1>3, <2>5
    <3>2. CASE j = Len(queue) + 1
      BY <1>2, <1>3, <2>1, <2>3, <2>5, <3>1, <3>2
    <3>3. CASE j \in 1..Len(queue)
      BY <1>3, <2>5, <3>1, <3>3 DEF Growing
    <3>. QED
      BY <1>3, <3>2, <3>3
  <2>. QED
    BY <1>1, <2>2, <2>4, <2>5 DEF Growing
<1>9. Forgetting'
  BY <1>1 DEF Forgetting, Stages
<1>. QED
  BY <1>4, <1>5, <1>7, <1>8, <1>9

LEMMA PerformKeeps == ASSUME IInv, Perform PROVE IInv'
<1>. USE DEF IInv
<1>1. /\ queue # <<>> /\ slot' = Head(queue) /\ queue' = Tail(queue)
      /\ UNCHANGED <<page, epoch, timer, beacon, pending, seen, bound, released,
                     resumed, delivered>>
  BY DEF Perform, memory, peers
<1>2. /\ queue' \in Seq(Checkpoint \cup {None}) /\ slot' = queue[1]
      /\ Len(queue) \in Nat \ {0} /\ Len(queue') = Len(queue) - 1
      /\ DOMAIN queue = 1..Len(queue) /\ DOMAIN queue' = 1..(Len(queue) - 1)
      /\ \A i \in DOMAIN queue' : queue'[i] = queue[i + 1]
  BY <1>1, HeadTailProperties, LenProperties, EmptySeq DEF TypeOK
<1>3. queue[1] \in Checkpoint \cup {None}
  BY <1>2, ElementOfSeq DEF TypeOK
<1>4. TypeOK'
  BY <1>1, <1>2, <1>3 DEF TypeOK
<1>5. Bindings' /\ Stages' /\ Fresh' /\ OnlyStalePairingFails'
  BY <1>1 DEF Bindings, Stages, Fresh, OnlyStalePairingFails, OnAir
<1>6. \A c \in (Saved \cup {resumed})' : c \in Saved \cup {resumed}
  <2>1. 1 \in DOMAIN queue /\ \A i \in DOMAIN queue' : i + 1 \in DOMAIN queue
    BY <1>2
  <2>. QED
    BY <1>1, <1>2, <2>1 DEF Saved
<1>7. Pure'
  BY <1>1, <1>6 DEF Pure, Showing, SidOf
<1>8. Growing'
  <2>1. \A c \in (Saved \cup {resumed})' :
          c # None /\ seen' # {} /\ c.sid = SidOf(beacon)' => c.syms \subseteq seen'
    BY <1>1, <1>6 DEF Growing, SidOf
  <2>2. \A i, j \in 1..Len(queue) :
          i < j /\ queue[i] # None /\ queue[j] # None /\ queue[i].sid = queue[j].sid
            => queue[i].syms \subseteq queue[j].syms
    BY <1>2 DEF Growing
  <2>3. \A i \in DOMAIN queue' : 1 \in 1..Len(queue) /\ i + 1 \in 1..Len(queue) /\ 1 < i + 1
    BY <1>2
  <2>4. \A i, j \in DOMAIN queue' : i < j => i + 1 < j + 1
    BY <1>2
  <2>. QED
    BY <1>2, <2>1, <2>2, <2>3, <2>4 DEF Growing
<1>9. Forgetting'
  <2>. SUFFICES ASSUME page = "done"
                PROVE  IF queue' = <<>> THEN slot' = None ELSE queue'[Len(queue')] = None
    BY <1>1 DEF Forgetting
  <2>1. queue[Len(queue)] = None
    BY <1>1 DEF Forgetting
  <2>2. CASE queue' = <<>>
    BY <1>2, <2>1, <2>2, EmptySeq
  <2>3. CASE queue' # <<>>
    <3>1. Len(queue') \in DOMAIN queue' /\ Len(queue') + 1 = Len(queue)
      BY <1>2, <2>3, EmptySeq
    <3>. QED
      BY <1>2, <2>1, <2>3, <3>1
  <2>. QED
    BY <2>2, <2>3
<1>. QED
  BY <1>4, <1>5, <1>7, <1>8, <1>9

LEMMA StutterKeeps == ASSUME IInv, UNCHANGED vars PROVE IInv'
<1>. USE DEF IInv, vars
<1>1. TypeOK' /\ Bindings' /\ Stages' /\ OnlyStalePairingFails'
  BY DEF TypeOK, Bindings, Stages, OnlyStalePairingFails, OnAir
<1>2. Pure' /\ Fresh' /\ Growing' /\ Forgetting'
  BY DEF Pure, Fresh, Growing, Forgetting, Saved, Showing, SidOf
<1>. QED
  BY <1>1, <1>2

LEMMA StepIInv == IInv /\ [Next]_vars => IInv'
<1>. SUFFICES ASSUME IInv, [Next]_vars PROVE IInv'
  OBVIOUS
<1>1. ASSUME NEW t \in Transfer, Answer(t) \/ Confirm(t) \/ Receive(t) PROVE IInv'
  BY <1>1, AnswerKeeps, ConfirmKeeps, BeaconKeeps, ParkKeeps, AbsorbKeeps DEF Receive
<1>. QED
  BY <1>1, LoadKeeps, ReadKeeps, DieKeeps, WriteKeeps, PerformKeeps, StutterKeeps DEF Next

-----------------------------------------------------------------------------
(* Theorems *)

(* The checkpoint's invariant holds throughout. *)
THEOREM Invariance == Spec => []IInv
BY InitIInv, StepIInv, PTL DEF Spec

(* The page, the slot and the requests in flight keep their types. *)
THEOREM TypeCorrect == Spec => []TypeOK
<1>1. IInv => TypeOK
  BY DEF IInv
<1>. QED
  BY Invariance, <1>1, PTL

(* What is saved belongs wholly to the session it is filed under. *)
THEOREM SavedIsPure == Spec => []CheckpointIsPure
<1>1. IInv => CheckpointIsPure
  BY DEF IInv, Pure, Saved, CheckpointIsPure
<1>. QED
  BY Invariance, <1>1, PTL

(* The first symbol of a session brings back everything saved of it. *)
THEOREM ResumingIsWhole == Spec => []ResumeRestoresAll
<1>1. IInv => ResumeRestoresAll
  BY DEF IInv, Growing, ResumeRestoresAll
<1>. QED
  BY Invariance, <1>1, PTL

(* A finished page's delete is the last of its requests to land. *)
THEOREM DeliveryIsForgotten == Spec => []DeliveredIsForgotten
<1>1. IInv => DeliveredIsForgotten
  BY DEF IInv, Forgetting, DeliveredIsForgotten
<1>. QED
  BY Invariance, <1>1, PTL

(* A failed tag is always that of a transfer paired with a page that is gone. *)
THEOREM FailuresAreStale == Spec => []OnlyStalePairingFails
<1>1. IInv => OnlyStalePairingFails
  BY DEF IInv
<1>. QED
  BY Invariance, <1>1, PTL

(* No write makes the checkpoint of a session smaller. *)
THEOREM SavedOnlyGrows == Spec => SavedNeverShrinks
<1>1. IInv /\ [Next]_vars =>
        [slot # None /\ slot' # None /\ slot.sid = slot'.sid => slot.syms \subseteq slot'.syms]_vars
  <2>. SUFFICES ASSUME IInv, Next, slot # None, slot' # None, slot.sid = slot'.sid
                PROVE  slot.syms \subseteq slot'.syms
    BY DEF vars
  <2>1. CASE Perform
    <3>1. slot' = queue[1] /\ 1 \in DOMAIN queue
      BY <2>1, HeadTailProperties, LenProperties, EmptySeq DEF Perform, IInv, TypeOK
    <3>. QED
      BY <3>1 DEF IInv, Growing
  <2>2. CASE UNCHANGED slot
    BY <2>2
  <2>. QED
    BY <2>1, <2>2 DEF Next, Load, ReadCheckpoint, Die, Answer, Confirm, Receive, Beacon,
                      Park, Absorb, WriteCheckpoint
<1>. QED
  BY Invariance, <1>1, PTL DEF Spec, SavedNeverShrinks
=============================================================================
