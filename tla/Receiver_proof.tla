--------------------------- MODULE Receiver_proof ---------------------------
(***************************************************************************)
(* Proofs about the receiver, for any number of objects, any ids and any   *)
(* history of frames and checkpoints.                                      *)
(*                                                                         *)
(* The invariant is built around absorb(): the queue it works on is every  *)
(* parked packet followed by the frame's own, and from that queue it takes *)
(* the first packet of each new payload id of its session.  The lemmas say *)
(* what such a selection is; the invariant says what the receiver's fields *)
(* owe to it.                                                              *)
(***************************************************************************)
EXTENDS Receiver, TLAPS, FiniteSetTheorems, SequenceTheorems, WellFoundedInduction

-----------------------------------------------------------------------------
(* Lemmas about data *)

(* A nonempty set of naturals has a least element. *)
LEMMA LeastOfNaturals ==
  ASSUME NEW T \in SUBSET Nat, T # {}
  PROVE  \E m \in T : \A n \in T : m <= n
<1> DEFINE R == OpToRel(<, Nat)
<1>1. IsWellFoundedOn(R, Nat)
  BY NatLessThanWellFounded
<1>2. \A m, n \in Nat : m < n => <<m, n>> \in R
  BY DEF OpToRel
<1> HIDE DEF R
<1>3. PICK m \in T : \A n \in T : ~ (<<n, m>> \in R)
  BY <1>1, WFMin
<1>4. ASSUME NEW n \in T PROVE m <= n
  <2>1. m \in Nat /\ n \in Nat
    OBVIOUS
  <2>2. ~(n < m)
    BY <1>2, <1>3, <2>1
  <2> QED BY <2>1, <2>2
<1> QED BY <1>4

(* The packets of a frame are tagged with the session they came from. *)
LEMMA TaggedPackets ==
  ASSUME NEW o \in Object, NEW run \in Seq(Nat)
  PROVE  /\ Tagged(o, run) \in Seq(Parked)
         /\ Len(Tagged(o, run)) = Len(run)
         /\ \A i \in 1..Len(run) : /\ Tagged(o, run)[i].pkt.obj = o
                                   /\ Tagged(o, run)[i].sid4 = Sid4(o)
<1>1. Sid4(o) \in Prefix
  BY ReceiverAssumption DEF Sid4
<1>2. Len(run) \in Nat /\ \A i \in 1..Len(run) : run[i] \in Nat
  BY LenProperties, ElementOfSeq
<1>3. \A i \in 1..Len(run) :
        [sid4 |-> Sid4(o), pkt |-> [obj |-> o, id |-> run[i]]] \in Parked
  BY <1>1, <1>2 DEF Parked, Packet
<1>4. Tagged(o, run) \in [1..Len(run) -> Parked]
  BY <1>3 DEF Tagged
<1>5. Tagged(o, run) \in Seq(Parked) /\ Len(Tagged(o, run)) = Len(run)
  BY <1>2, <1>4
<1>6. \A i \in 1..Len(run) :
        Tagged(o, run)[i] = [sid4 |-> Sid4(o), pkt |-> [obj |-> o, id |-> run[i]]]
  BY DEF Tagged
<1>7. ASSUME NEW i \in 1..Len(run)
      PROVE  Tagged(o, run)[i].pkt.obj = o /\ Tagged(o, run)[i].sid4 = Sid4(o)
  <2>1. Tagged(o, run)[i] = [sid4 |-> Sid4(o), pkt |-> [obj |-> o, id |-> run[i]]]
    BY <1>6
  <2>2. Tagged(o, run)[i].pkt = [obj |-> o, id |-> run[i]]
    BY <2>1
  <2> QED BY <2>1, <2>2
<1> QED BY <1>5, <1>7

-----------------------------------------------------------------------------
(* What absorb takes from its queue *)

(* The accepted positions are positions of the queue, and no two of them      *)
(* carry the same payload id.                                                 *)
LEMMA FreshPositions ==
  ASSUME NEW q \in Seq(Parked), NEW n \in 0..Len(q)
  PROVE  /\ FreshUpTo(q, n) \subseteq 1..n
         /\ IsFiniteSet(FreshUpTo(q, n))
         /\ FreshUpTo(q, n) \subseteq Fresh(q)
         /\ \A i, j \in FreshUpTo(q, n) : q[i].pkt.id = q[j].pkt.id => i = j
<1>1. Len(q) \in Nat /\ n \in Nat /\ n <= Len(q)
  BY LenProperties
<1>2. FreshUpTo(q, n) \subseteq 1..n
  BY DEF FreshUpTo
<1>3. IsFiniteSet(FreshUpTo(q, n))
  <2>1. IsFiniteSet(1..n)
    BY <1>1, FS_Interval
  <2> QED BY <1>2, <2>1, FS_Subset
<1>4. FreshUpTo(q, n) \subseteq Fresh(q)
  BY <1>1 DEF FreshUpTo, Fresh
<1>5. ASSUME NEW i \in FreshUpTo(q, n), NEW j \in FreshUpTo(q, n),
             q[i].pkt.id = q[j].pkt.id, i < j
      PROVE  FALSE
  BY <1>1, <1>5 DEF FreshUpTo
<1>6. \A i, j \in FreshUpTo(q, n) : q[i].pkt.id = q[j].pkt.id => i = j
  BY <1>1, <1>2, <1>5
<1> QED BY <1>2, <1>3, <1>4, <1>6

(* A set whose elements are carried by the positions of N, each by its own,   *)
(* has as many elements as N.                                                 *)
LEMMA CarriedOnce ==
  ASSUME NEW N, IsFiniteSet(N), NEW T, NEW f \in [N -> T],
         \A x \in T : \E i \in N : f[i] = x,
         \A i, j \in N : f[i] = f[j] => i = j
  PROVE  IsFiniteSet(T) /\ Cardinality(T) = Cardinality(N)
<1>1. f \in Bijection(N, T)
  BY DEF Bijection, Injection, Surjection, IsInjective
<1> QED BY <1>1, FS_Bijection DEF ExistsBijection

(* Every packet of the session that is in the queue has its id accounted for: *)
(* absorbed before, or carried by the first position to carry it.             *)
LEMMA EveryIdTaken ==
  ASSUME NEW q \in Seq(Parked), NEW i \in 1..Len(q), q[i].sid4 = Sid4(beacon),
         q[i].pkt.id \notin ids
  PROVE  \E j \in Fresh(q) : q[j].pkt.id = q[i].pkt.id
<1> DEFINE T == {j \in 1..i : q[j].sid4 = Sid4(beacon) /\ q[j].pkt.id = q[i].pkt.id}
<1>1. Len(q) \in Nat
  BY LenProperties
<1>2. T \in SUBSET Nat /\ T # {}
  BY <1>1
<1>3. PICK j \in T : \A k \in T : j <= k
  BY <1>2, LeastOfNaturals
<1>4. j \in 1..Len(q) /\ q[j].pkt.id \notin ids /\ q[j].sid4 = Sid4(beacon)
  BY <1>1
<1>5. ASSUME NEW k \in 1..(j - 1), q[k].sid4 = Sid4(beacon), q[k].pkt.id = q[j].pkt.id
      PROVE  FALSE
  <2>1. k \in T /\ k < j
    BY <1>1, <1>5
  <2> QED BY <2>1, <1>3, <1>1
<1>6. j \in Fresh(q)
  BY <1>4, <1>5 DEF Fresh, FreshUpTo
<1> QED BY <1>6

-----------------------------------------------------------------------------
(* The inductive invariant *)

(* Every parked packet is parked under the session it belongs to. *)
ParkedTruly ==
  \A i \in DOMAIN pending : pending[i].sid4 = Sid4(pending[i].pkt.obj)

(* Nothing is absorbed, reassembled or delivered before a beacon. *)
NothingUnannounced == beacon = None => seen = {} /\ object = None /\ ~done

(* What is reassembled is Garbage or the announced object, and then enough of *)
(* its own packets were absorbed.                                             *)
ObjectSound ==
  object \in Object => /\ object = beacon
                       /\ Cardinality({p \in seen : p.obj = beacon}) >= K[beacon]

(* A delivery is the reassembled object, opened with its key. *)
DoneSound ==
  /\ done => object \in Object /\ object = beacon /\ delivered = beacon /\ key = beacon
  /\ ~done => delivered = None

IInv ==
  /\ TypeOK
  /\ IsFiniteSet(seen) /\ IsFiniteSet(ids)
  /\ CountersAgree
  /\ OneSession
  /\ ParkedTruly
  /\ NothingLost
  /\ NothingUnannounced
  /\ ObjectSound
  /\ DoneSound
  /\ NoStrandedObject

LEMMA InitIInv == Init => IInv
<1> SUFFICES ASSUME Init PROVE IInv
  OBVIOUS
<1> USE DEF Init
<1>1. TypeOK
  <2>1. pending \in Seq(Parked)
    BY EmptySeq
  <2> QED BY <2>1 DEF TypeOK, Key
<1>2. IsFiniteSet(seen) /\ IsFiniteSet(ids) /\ CountersAgree
  BY FS_EmptySet DEF CountersAgree
<1>3. OneSession /\ ParkedTruly /\ NothingLost /\ NothingUnannounced
  BY DEF OneSession, ParkedTruly, NothingLost, NothingUnannounced
<1>4. ObjectSound /\ DoneSound /\ NoStrandedObject
  BY ReceiverAssumption DEF ObjectSound, DoneSound, NoStrandedObject
<1> QED BY <1>1, <1>2, <1>3, <1>4 DEF IInv

(* What absorb works on, and what it takes from it. *)
Queue(o, run) == pending \o Tagged(o, run)
NewPkts(q) == {q[i].pkt : i \in Fresh(q)}
NewIds(q) == {q[i].pkt.id : i \in Fresh(q)}

(* Every packet of a queue is tagged with the session it came from. *)
TrulyTagged(q) == \A i \in 1..Len(q) : q[i].sid4 = Sid4(q[i].pkt.obj)

(* The queue: what is parked, then the packets just offered, all tagged with  *)
(* their own session.                                                         *)
LEMMA QueueFacts ==
  ASSUME TypeOK, ParkedTruly, NEW o \in Object, NEW run \in Seq(Nat)
  PROVE  LET q == Queue(o, run) IN
         /\ q \in Seq(Parked)
         /\ TrulyTagged(q)
         /\ \A i \in DOMAIN pending : i \in 1..Len(q) /\ q[i] = pending[i]
         /\ \A p \in Packets(Tagged(o, run)) : \E i \in 1..Len(q) : q[i].pkt = p
<1> DEFINE t == Tagged(o, run)
           q == Queue(o, run)
<1>1. pending \in Seq(Parked) /\ t \in Seq(Parked) /\ Len(t) = Len(run)
  BY TaggedPackets DEF TypeOK
<1>2. \A i \in 1..Len(t) : t[i].sid4 = Sid4(t[i].pkt.obj)
  BY TaggedPackets
<1> HIDE DEF t
<1>3. /\ Len(pending) \in Nat /\ DOMAIN pending = 1..Len(pending)
      /\ Len(t) \in Nat /\ DOMAIN t = 1..Len(t)
  BY <1>1, LenProperties
<1>4. /\ q \in Seq(Parked)
      /\ Len(q) = Len(pending) + Len(t)
      /\ \A i \in 1..(Len(pending) + Len(t)) :
           q[i] = IF i <= Len(pending) THEN pending[i] ELSE t[i - Len(pending)]
  BY <1>1, ConcatProperties DEF t, Queue
<1> HIDE DEF q
<1>5. \A i \in DOMAIN pending : i \in 1..Len(q) /\ q[i] = pending[i]
  BY <1>3, <1>4
<1>6. ASSUME NEW i \in 1..Len(t)
      PROVE  Len(pending) + i \in 1..Len(q) /\ q[Len(pending) + i] = t[i]
  <2>1. /\ Len(pending) + i \in 1..(Len(pending) + Len(t))
        /\ ~(Len(pending) + i <= Len(pending))
        /\ (Len(pending) + i) - Len(pending) = i
    BY <1>3
  <2> QED BY <1>4, <2>1
<1>7. ASSUME NEW i \in 1..Len(q)
      PROVE  q[i].sid4 = Sid4(q[i].pkt.obj)
  <2>1. CASE i <= Len(pending)
    <3>1. i \in DOMAIN pending
      BY <1>3, <1>4, <2>1
    <3>2. q[i] = pending[i]
      BY <1>5, <3>1
    <3> QED BY <3>1, <3>2 DEF ParkedTruly
  <2>2. CASE ~(i <= Len(pending))
    <3>1. i - Len(pending) \in 1..Len(t) /\ q[i] = t[i - Len(pending)]
      BY <1>3, <1>4, <2>2
    <3> QED BY <3>1, <1>2
  <2> QED BY <2>1, <2>2
<1>8. ASSUME NEW p \in Packets(t)
      PROVE  \E i \in 1..Len(q) : q[i].pkt = p
  <2>1. PICK i \in 1..Len(t) : t[i].pkt = p
    BY <1>3 DEF Packets
  <2> QED BY <2>1, <1>6
<1> QED BY <1>4, <1>5, <1>7, <1>8 DEF t, q, TrulyTagged

(* What absorb adds: packets of the session, new ones, as many as their ids.  *)
LEMMA NewPackets ==
  ASSUME IInv, beacon \in Object, NEW q \in Seq(Parked), TrulyTagged(q)
  PROVE  LET P == NewPkts(q)
             I == NewIds(q)
         IN
         /\ P \subseteq Packet /\ I \subseteq Nat /\ I = {p.id : p \in P}
         /\ IsFiniteSet(P) /\ IsFiniteSet(I) /\ Cardinality(Fresh(q)) \in Nat
         /\ Cardinality(P) = Cardinality(Fresh(q)) /\ Cardinality(I) = Cardinality(Fresh(q))
         /\ P \cap seen = {} /\ I \cap ids = {}
         /\ \A p \in P : Sid4(p.obj) = Sid4(beacon)
<1> DEFINE P == NewPkts(q)
           I == NewIds(q)
<1> USE DEF NewPkts, NewIds
<1>1. Len(q) \in Nat
  BY LenProperties
<1>2. /\ Fresh(q) \subseteq 1..Len(q) /\ IsFiniteSet(Fresh(q))
      /\ \A i, j \in Fresh(q) : q[i].pkt.id = q[j].pkt.id => i = j
  BY <1>1, FreshPositions DEF Fresh
<1>3. /\ IsFiniteSet(P) /\ IsFiniteSet(I)
      /\ Cardinality(P) = Cardinality(Fresh(q)) /\ Cardinality(I) = Cardinality(Fresh(q))
  <2> DEFINE f == [i \in Fresh(q) |-> q[i].pkt]
             g == [i \in Fresh(q) |-> q[i].pkt.id]
  <2>1. /\ f \in [Fresh(q) -> P] /\ \A x \in P : \E i \in Fresh(q) : f[i] = x
        /\ g \in [Fresh(q) -> I] /\ \A x \in I : \E i \in Fresh(q) : g[i] = x
    OBVIOUS
  <2>2. /\ \A i, j \in Fresh(q) : f[i] = f[j] => i = j
        /\ \A i, j \in Fresh(q) : g[i] = g[j] => i = j
    BY <1>2
  <2> HIDE DEF f, g, P, I
  <2>3. IsFiniteSet(P) /\ Cardinality(P) = Cardinality(Fresh(q))
    BY <1>2, <2>1, <2>2, CarriedOnce
  <2>4. IsFiniteSet(I) /\ Cardinality(I) = Cardinality(Fresh(q))
    BY <1>2, <2>1, <2>2, CarriedOnce
  <2> QED BY <2>3, <2>4
<1>4. \A i \in Fresh(q) : q[i] \in Parked
  BY <1>2, ElementOfSeq
<1>5. P \subseteq Packet /\ I \subseteq Nat /\ I = {p.id : p \in P}
  BY <1>4 DEF Parked, Packet
<1>6. \A i \in Fresh(q) : q[i].pkt.id \notin ids /\ q[i].sid4 = Sid4(beacon)
  BY DEF Fresh, FreshUpTo
<1>7. I \cap ids = {}
  BY <1>6
<1>8. P \cap seen = {}
  BY <1>6 DEF IInv, CountersAgree
<1>9. \A p \in P : Sid4(p.obj) = Sid4(beacon)
  BY <1>2, <1>6 DEF TrulyTagged
<1> HIDE DEF NewPkts, NewIds
<1> QED BY <1>2, <1>3, <1>5, <1>7, <1>8, <1>9, FS_CardinalityType

(* The decoder keeps what it has; otherwise it has nothing yet, or Garbage,   *)
(* or the announced object after enough of its own packets.                   *)
LEMMA DecodeSound ==
  ASSUME IInv, beacon \in Object, NEW q \in Seq(Parked),
         TrulyTagged(q), NEW threshold \in K[beacon]..(K[beacon] + Slack)
  PROVE  LET obj == Decode(q, threshold)
             P == NewPkts(q)
         IN
         /\ Fresh(q) = {} => obj = object
         /\ \/ obj = object
            \/ object = None /\ obj = Garbage
            \/ /\ object = None /\ obj = beacon
               /\ Cardinality({p \in seen \cup P : p.obj = beacon}) >= K[beacon]
<1> DEFINE obj == Decode(q, threshold)
           P == NewPkts(q)
           reached == {i \in Fresh(q) : Cardinality(Fed(q, i)) >= threshold}
<1>1. Len(q) \in Nat /\ Fresh(q) \subseteq 1..Len(q)
  BY LenProperties, FreshPositions DEF Fresh
<1>2. Fresh(q) = {} => obj = object
  BY DEF Decode
<1>3. CASE object # None \/ reached = {}
  BY <1>2, <1>3 DEF Decode
<1>4. CASE object = None /\ reached # {}
  <2> DEFINE first == CHOOSE i \in reached : \A j \in reached : i <= j
  <2>1. reached \in SUBSET Nat
    BY <1>1
  <2>2. \E i \in reached : \A j \in reached : i <= j
    BY <1>4, <2>1, LeastOfNaturals
  <2>3. first \in reached
    BY <2>2
  <2>4. obj = Reassemble(Fed(q, first))
    BY <1>4 DEF Decode
  <2> HIDE DEF first
  <2>5. first \in 1..Len(q) /\ Cardinality(Fed(q, first)) >= threshold
    BY <1>1, <2>3
  <2> HIDE DEF reached
  <2>6. CASE \A p \in Fed(q, first) : p.obj = beacon
    <3>1. first \in 0..Len(q)
      BY <1>1, <2>5
    <3>2. FreshUpTo(q, first) \subseteq Fresh(q)
      BY <3>1, FreshPositions
    <3>3. Fed(q, first) \subseteq {p \in seen \cup P : p.obj = beacon}
      BY <2>6, <3>2 DEF Fed, NewPkts
    <3>4. IsFiniteSet(seen \cup P)
      <4>1. IsFiniteSet(seen) /\ IsFiniteSet(P)
        BY NewPackets DEF IInv
      <4> QED BY <4>1, FS_Union
    <3>5. IsFiniteSet({p \in seen \cup P : p.obj = beacon})
      BY <3>4, FS_Subset
    <3>6. /\ IsFiniteSet(Fed(q, first))
          /\ Cardinality(Fed(q, first)) <= Cardinality({p \in seen \cup P : p.obj = beacon})
      BY <3>3, <3>5, FS_Subset
    <3>7. /\ Cardinality(Fed(q, first)) \in Nat
          /\ Cardinality({p \in seen \cup P : p.obj = beacon}) \in Nat
      BY <3>5, <3>6, FS_CardinalityType
    <3>8. K[beacon] \in Nat /\ threshold \in Nat /\ threshold >= K[beacon]
      BY ReceiverAssumption
    <3>9. Cardinality({p \in seen \cup P : p.obj = beacon}) >= K[beacon]
      BY <2>5, <3>6, <3>7, <3>8
    <3> QED BY <1>4, <2>4, <2>6, <3>9, <1>2 DEF Reassemble
  <2>7. CASE ~ \A p \in Fed(q, first) : p.obj = beacon
    BY <1>2, <1>4, <2>4, <2>7 DEF Reassemble
  <2> QED BY <2>6, <2>7
<1> QED BY <1>3, <1>4

(* Nothing of the session that is in the queue is lost by absorbing it. *)
LEMMA QueueAbsorbed ==
  ASSUME IInv, beacon \in Object, NEW q \in Seq(Parked), NEW i \in 1..Len(q),
         TrulyTagged(q)
  PROVE  Sid4(q[i].pkt.obj) # Sid4(beacon) \/ q[i].pkt.id \in ids \cup NewIds(q)
<1> USE DEF TrulyTagged, NewIds
<1>1. CASE q[i].sid4 = Sid4(beacon) /\ q[i].pkt.id \notin ids
  BY <1>1, EveryIdTaken
<1> QED BY <1>1

LEMMA AbsorbIInv ==
  ASSUME IInv, NEW o \in Object, NEW run \in Seq(Nat), Absorb(o, run)
  PROVE  IInv'
<1> DEFINE q == Queue(o, run)
           n == Fresh(q)
           P == NewPkts(q)
           I == NewIds(q)
<1>1. /\ beacon \in Object /\ beacon' = beacon /\ key' = key /\ needed' = needed
      /\ ~done /\ pending' = <<>> /\ done' = (result' = "done")
      /\ delivered' = IF done' THEN object' ELSE delivered
      /\ heard' = heard \cup Packets(Tagged(o, run))
  BY DEF Absorb, Listening, IInv, TypeOK
<1>2. seen' = seen \cup P /\ ids' = ids \cup I /\ received' = received + Cardinality(n)
  BY DEF Absorb, Queue, NewPkts, NewIds
<1>3. result' = Outcome(IF n = {} THEN None ELSE object')
  BY DEF Absorb, Queue
<1>4. PICK threshold \in K[beacon]..(K[beacon] + Slack) : object' = Decode(q, threshold)
  BY DEF Absorb, Queue
<1>5. /\ q \in Seq(Parked)
      /\ TrulyTagged(q)
      /\ \A i \in DOMAIN pending : i \in 1..Len(q) /\ q[i] = pending[i]
      /\ \A p \in Packets(Tagged(o, run)) : \E i \in 1..Len(q) : q[i].pkt = p
  <2>1. TypeOK /\ ParkedTruly
    BY DEF IInv
  <2> QED BY <2>1, QueueFacts
<1> HIDE DEF q
<1>6. /\ P \subseteq Packet /\ I \subseteq Nat /\ I = {p.id : p \in P}
      /\ IsFiniteSet(P) /\ IsFiniteSet(I) /\ Cardinality(n) \in Nat
      /\ Cardinality(P) = Cardinality(n) /\ Cardinality(I) = Cardinality(n)
      /\ P \cap seen = {} /\ I \cap ids = {}
      /\ \A p \in P : Sid4(p.obj) = Sid4(beacon)
  BY <1>1, <1>5, NewPackets
<1>7. /\ n = {} => object' = object
      /\ \/ object' = object
         \/ object = None /\ object' = Garbage
         \/ /\ object = None /\ object' = beacon
            /\ Cardinality({p \in seen \cup P : p.obj = beacon}) >= K[beacon]
  BY <1>1, <1>4, <1>5, DecodeSound
<1>8. \A i \in 1..Len(q) :
        Sid4(q[i].pkt.obj) # Sid4(beacon) \/ q[i].pkt.id \in ids \cup I
  BY <1>1, <1>5, QueueAbsorbed
<1> HIDE DEF n, P, I
<1>9. TypeOK'
  <2>1. object' \in Object \cup {None, Garbage}
    BY <1>1, <1>7 DEF IInv, TypeOK
  <2>2. result' \in {"progress", "auth", "inflate", "done"}
    BY <1>3 DEF Outcome
  <2>3. result' = "done" => object' \in Object
    BY <1>3, <2>1, ReceiverAssumption DEF Outcome, Opens
  <2>4. delivered' \in Object \cup {None} /\ done' \in BOOLEAN
    BY <1>1, <2>3 DEF IInv, TypeOK
  <2>5. Packets(Tagged(o, run)) \subseteq Packet
    <3>1. ASSUME NEW i \in 1..Len(q)
          PROVE  q[i].pkt \in Packet
      <4>1. q[i] \in Parked
        BY <1>5, ElementOfSeq
      <4> QED BY <4>1 DEF Parked
    <3> QED BY <1>5, <3>1
  <2>6. seen' \subseteq Packet /\ ids' \subseteq Nat /\ received' \in Nat
    <3>1. seen \subseteq Packet /\ ids \subseteq Nat /\ received \in Nat
      BY DEF IInv, TypeOK
    <3>2. P \subseteq Packet /\ I \subseteq Nat
      BY <1>6
    <3>3. Cardinality(n) \in Nat
      BY <1>6
    <3>4. received' \in Nat
      BY <1>2, <3>1, <3>3
    <3> QED BY <1>2, <3>1, <3>2, <3>4
  <2>7. pending' \in Seq(Parked)
    BY <1>1, EmptySeq
  <2> QED BY <1>1, <2>1, <2>2, <2>4, <2>5, <2>6, <2>7 DEF IInv, TypeOK
<1>10. IsFiniteSet(seen)' /\ IsFiniteSet(ids)' /\ CountersAgree'
  <2>1. /\ IsFiniteSet(seen) /\ IsFiniteSet(ids)
        /\ received = Cardinality(ids) /\ Cardinality(seen) = Cardinality(ids)
        /\ ids = {p.id : p \in seen}
    BY DEF IInv, CountersAgree
  <2>2. /\ IsFiniteSet(seen \cup P)
        /\ Cardinality(seen \cup P) = Cardinality(seen) + Cardinality(P) - Cardinality(seen \cap P)
    BY <2>1, <1>6, FS_Union
  <2>3. /\ IsFiniteSet(ids \cup I)
        /\ Cardinality(ids \cup I) = Cardinality(ids) + Cardinality(I) - Cardinality(ids \cap I)
    BY <2>1, <1>6, FS_Union
  <2>4. Cardinality(seen \cap P) = 0 /\ Cardinality(ids \cap I) = 0
    <3>1. seen \cap P = {} /\ ids \cap I = {}
      BY <1>6
    <3> QED BY <3>1, FS_EmptySet
  <2>5. Cardinality(ids) \in Nat /\ Cardinality(n) \in Nat
        /\ Cardinality(P) = Cardinality(n) /\ Cardinality(I) = Cardinality(n)
    BY <1>6, <2>1, FS_CardinalityType
  <2>6. ids' = {p.id : p \in seen'}
    BY <1>2, <1>6, <2>1
  <2>7. /\ received + Cardinality(n) = Cardinality(ids \cup I)
        /\ Cardinality(seen \cup P) = Cardinality(ids \cup I)
    BY <2>1, <2>2, <2>3, <2>4, <2>5
  <2> QED BY <1>2, <2>2, <2>3, <2>6, <2>7 DEF CountersAgree
<1>11. OneSession'
  <2>1. beacon # None
    BY <1>1, ReceiverAssumption
  <2>2. \A p \in seen' : Sid4(p.obj) = Sid4(beacon)
    BY <1>2, <1>6 DEF IInv, OneSession
  <2> QED BY <1>1, <2>1, <2>2 DEF OneSession, Sid4
<1>12. ParkedTruly' /\ NothingUnannounced'
  BY <1>1, ReceiverAssumption DEF ParkedTruly, NothingUnannounced
<1>13. NothingLost'
  <2>1. ASSUME NEW p \in heard'
        PROVE  Sid4(p.obj) # Sid4(beacon) \/ p.id \in ids'
    <3>1. CASE \E i \in 1..Len(q) : q[i].pkt = p
      BY <3>1, <1>2, <1>8
    <3>2. CASE p \in heard
      <4>1. \/ Sid4(p.obj) # Sid4(beacon) \/ p.id \in ids
            \/ \E i \in DOMAIN pending : pending[i].pkt = p
        BY <1>1, <3>2 DEF IInv, NothingLost
      <4>2. CASE \E i \in DOMAIN pending : pending[i].pkt = p
        BY <1>5, <3>1, <4>2
      <4> QED BY <1>2, <4>1, <4>2
    <3> QED BY <1>1, <1>5, <2>1, <3>1, <3>2
  <2>2. beacon # None
    BY <1>1, ReceiverAssumption
  <2> QED BY <1>1, <2>1, <2>2 DEF NothingLost, Sid4
<1>14. ObjectSound'
  <2>1. SUFFICES ASSUME object' \in Object
                 PROVE  /\ object' = beacon
                        /\ Cardinality({p \in seen' : p.obj = beacon}) >= K[beacon]
    BY <1>1 DEF ObjectSound
  <2>2. CASE object' = object
    <3> DEFINE own == {p \in seen : p.obj = beacon}
               own2 == {p \in seen' : p.obj = beacon}
    <3>1. object = beacon /\ Cardinality(own) >= K[beacon]
      BY <2>1, <2>2 DEF IInv, ObjectSound
    <3>2. IsFiniteSet(own2)
      BY <1>10, FS_Subset
    <3>3. own \subseteq own2
      BY <1>2
    <3>4. IsFiniteSet(own) /\ Cardinality(own) <= Cardinality(own2)
      BY <3>2, <3>3, FS_Subset
    <3>5. Cardinality(own) \in Nat /\ Cardinality(own2) \in Nat /\ K[beacon] \in Nat
      BY <1>1, <3>2, <3>4, FS_CardinalityType, ReceiverAssumption
    <3>6. Cardinality(own2) >= K[beacon]
      BY <3>1, <3>4, <3>5
    <3> QED BY <2>2, <3>1, <3>6
  <2>3. CASE object' # object
    BY <1>2, <1>7, <2>1, <2>3, ReceiverAssumption
  <2> QED BY <2>2, <2>3
<1>15. DoneSound'
  <2>1. delivered = None
    BY <1>1 DEF IInv, DoneSound
  <2>2. SUFFICES ASSUME done'
                 PROVE  object' \in Object /\ object' = beacon /\ key = beacon
    BY <1>1, <2>1 DEF DoneSound
  <2>3. n # {} /\ Opens(key, object')
    BY <1>1, <1>3, <2>2 DEF Outcome
  <2>4. object' \in Object /\ key = object'
    BY <2>3 DEF Opens
  <2>5. object' = beacon
    BY <1>1, <1>14, <2>4 DEF ObjectSound
  <2> QED BY <2>4, <2>5
<1>16. NoStrandedObject'
  <2>1. SUFFICES ASSUME object' = beacon, key = beacon, beacon \in Inflatable
                 PROVE  result' = "done"
    BY <1>1 DEF NoStrandedObject
  <2>2. n # {}
    BY <1>1, <1>7, <2>1 DEF IInv, NoStrandedObject
  <2>3. beacon # None /\ Opens(key, object')
    BY <1>1, <2>1, ReceiverAssumption DEF Opens
  <2> QED BY <1>3, <2>1, <2>2, <2>3 DEF Outcome
<1> QED
  BY <1>9, <1>10, <1>11, <1>12, <1>13, <1>14, <1>15, <1>16 DEF IInv

-----------------------------------------------------------------------------
(* The other actions *)

(* Parking packets, live or from a checkpoint, of a session that may be the   *)
(* one received.                                                              *)
LEMMA HoldIInv ==
  ASSUME IInv, NEW o \in Object, NEW run \in Seq(Nat),
         Hold(Sid4(o), Tagged(o, run)),
         heard' = heard \cup Packets(Tagged(o, run)),
         UNCHANGED <<beacon, key, seen, ids, received, needed, object, delivered, done>>
  PROVE  /\ pending' \in Seq(Parked)
         /\ heard' \subseteq Packet
         /\ ParkedTruly'
         /\ NothingLost'
<1> DEFINE q == Queue(o, run)
           foreign == beacon # None /\ Sid4(o) # Sid4(beacon)
<1>1. /\ q \in Seq(Parked)
      /\ TrulyTagged(q)
      /\ \A i \in DOMAIN pending : i \in 1..Len(q) /\ q[i] = pending[i]
      /\ \A p \in Packets(Tagged(o, run)) : \E i \in 1..Len(q) : q[i].pkt = p
  BY QueueFacts DEF IInv
<1>2. pending' = IF foreign THEN pending ELSE q
  BY DEF Hold, Queue
<1>3. pending \in Seq(Parked) /\ heard \subseteq Packet
  BY DEF IInv, TypeOK
<1>4. \A p \in Packets(Tagged(o, run)) : p.obj = o
  <2>1. Tagged(o, run) \in Seq(Parked) /\ Len(Tagged(o, run)) = Len(run)
    BY TaggedPackets
  <2>2. DOMAIN Tagged(o, run) = 1..Len(run)
    BY <2>1, LenProperties
  <2> QED BY <2>2, TaggedPackets DEF Packets
<1> HIDE DEF q
<1>5. DOMAIN q = 1..Len(q)
  BY <1>1, LenProperties
<1>6. Packets(Tagged(o, run)) \subseteq Packet
  <2>1. ASSUME NEW i \in 1..Len(q)
        PROVE  q[i].pkt \in Packet
    <3>1. q[i] \in Parked
      BY <1>1, ElementOfSeq
    <3> QED BY <3>1 DEF Parked
  <2> QED BY <1>1, <2>1
<1>7. ParkedTruly'
  <2>1. ParkedTruly
    BY DEF IInv
  <2>2. \A i \in DOMAIN pending' : pending'[i].sid4 = Sid4(pending'[i].pkt.obj)
    BY <1>1, <1>2, <1>5, <2>1 DEF ParkedTruly, TrulyTagged
  <2> QED BY <2>2 DEF ParkedTruly, Sid4
<1>8. NothingLost'
  <2>1. SUFFICES ASSUME ~done, NEW p \in heard'
                 PROVE  \/ beacon # None /\ Sid4(p.obj) # Sid4(beacon)
                        \/ beacon # None /\ p.id \in ids
                        \/ \E i \in DOMAIN pending' : pending'[i].pkt = p
    BY DEF NothingLost, Sid4
  <2>2. CASE p \in Packets(Tagged(o, run))
    BY <1>1, <1>2, <1>4, <1>5, <2>2
  <2>3. CASE p \in heard
    <3>1. \/ beacon # None /\ Sid4(p.obj) # Sid4(beacon)
          \/ beacon # None /\ p.id \in ids
          \/ \E i \in DOMAIN pending : pending[i].pkt = p
      BY <2>1, <2>3 DEF IInv, NothingLost
    <3>2. ASSUME NEW i \in DOMAIN pending, pending[i].pkt = p
          PROVE  \E j \in DOMAIN pending' : pending'[j].pkt = p
      BY <1>1, <1>2, <1>5, <3>2
    <3> QED BY <3>1, <3>2
  <2> QED BY <2>1, <2>2, <2>3
<1> QED BY <1>1, <1>2, <1>3, <1>6, <1>7, <1>8

LEMMA AcquireBeaconIInv ==
  ASSUME IInv, NEW o \in Object, AcquireBeacon(o)
  PROVE  IInv'
<1>1. /\ beacon = None /\ beacon' = o /\ needed' = K[o] /\ object' = None /\ ~done
      /\ key' = KeyFor[o] /\ result' \in {"nokey", "beacon"}
      /\ UNCHANGED <<pending, seen, ids, received, delivered, done, heard>>
  BY DEF AcquireBeacon, Listening
<1>2. seen = {} /\ None \notin Object /\ Garbage \notin Object
  BY <1>1, ReceiverAssumption DEF IInv, NothingUnannounced
<1>3. TypeOK'
  <2>1. K[o] \in Nat /\ KeyFor[o] \in Key
    BY ReceiverAssumption
  <2> QED BY <1>1, <2>1 DEF IInv, TypeOK
<1>4. IsFiniteSet(seen)' /\ IsFiniteSet(ids)' /\ CountersAgree' /\ ParkedTruly'
  BY <1>1 DEF IInv, CountersAgree, ParkedTruly, Sid4
<1>5. OneSession' /\ NothingUnannounced'
  BY <1>1, <1>2 DEF OneSession, NothingUnannounced
<1>6. NothingLost'
  <2>1. \A p \in heard : \E i \in DOMAIN pending : pending[i].pkt = p
    BY <1>1 DEF IInv, NothingLost
  <2> QED BY <1>1, <2>1 DEF NothingLost
<1>7. ObjectSound' /\ DoneSound' /\ NoStrandedObject'
  BY <1>1, <1>2 DEF IInv, ObjectSound, DoneSound, NoStrandedObject
<1> QED BY <1>3, <1>4, <1>5, <1>6, <1>7 DEF IInv

(* A step that changes at most the reported result. *)
LEMMA QuietIInv ==
  ASSUME IInv,
         result' \in {"none", "ignored", "beacon", "nokey", "progress", "done",
                      "foreign", "auth", "inflate", "badframe"},
         UNCHANGED <<beacon, key, pending, seen, ids, received, needed, object,
                     delivered, done, heard>>
  PROVE  IInv'
<1>1. TypeOK'
  BY DEF IInv, TypeOK
<1>2. IsFiniteSet(seen)' /\ IsFiniteSet(ids)' /\ CountersAgree' /\ ParkedTruly'
  BY DEF IInv, CountersAgree, ParkedTruly, Sid4
<1>3. OneSession' /\ NothingUnannounced' /\ NothingLost'
  BY DEF IInv, OneSession, NothingUnannounced, NothingLost, Sid4
<1>4. ObjectSound' /\ DoneSound' /\ NoStrandedObject'
  BY DEF IInv, ObjectSound, DoneSound, NoStrandedObject
<1> QED BY <1>1, <1>2, <1>3, <1>4 DEF IInv

LEMMA ParkIInv ==
  ASSUME IInv, NEW o \in Object, NEW run \in Seq(Nat),
         HoldSymbols(o, run) \/ Restore(o, run)
  PROVE  IInv'
<1>1. /\ Hold(Sid4(o), Tagged(o, run))
      /\ heard' = heard \cup Packets(Tagged(o, run))
      /\ UNCHANGED <<beacon, key, seen, ids, received, needed, object, delivered, done>>
      /\ result' \in {"ignored", result}
  BY DEF HoldSymbols, Restore
<1>2. pending' \in Seq(Parked) /\ heard' \subseteq Packet /\ ParkedTruly' /\ NothingLost'
  BY <1>1, HoldIInv
<1>3. TypeOK'
  BY <1>1, <1>2 DEF IInv, TypeOK
<1>4. IsFiniteSet(seen)' /\ IsFiniteSet(ids)' /\ CountersAgree'
  BY <1>1 DEF IInv, CountersAgree
<1>5. OneSession' /\ NothingUnannounced'
  BY <1>1 DEF IInv, OneSession, NothingUnannounced, Sid4
<1>6. ObjectSound' /\ DoneSound' /\ NoStrandedObject'
  BY <1>1 DEF IInv, ObjectSound, DoneSound, NoStrandedObject
<1> QED BY <1>2, <1>3, <1>4, <1>5, <1>6 DEF IInv

(* Every frame preserves the invariant, whatever ids it carries. *)
LEMMA IngestIInv ==
  ASSUME IInv, NEW o \in Object, NEW run \in Seq(Nat),
         IngestBeacon(o) \/ IngestSymbols(o, run) \/ AfterDone
  PROVE  IInv'
<1>1. CASE AcquireBeacon(o)
  BY <1>1, AcquireBeaconIInv
<1>2. CASE RepeatBeacon(o)
  BY <1>2, QuietIInv DEF RepeatBeacon
<1>3. CASE HoldSymbols(o, run)
  BY <1>3, ParkIInv
<1>4. CASE ForeignSymbols(o)
  BY <1>4, QuietIInv DEF ForeignSymbols
<1>5. CASE Absorb(o, run)
  BY <1>5, AbsorbIInv
<1>6. CASE AfterDone
  BY <1>6, QuietIInv DEF AfterDone
<1> QED BY <1>1, <1>2, <1>3, <1>4, <1>5, <1>6 DEF IngestBeacon, IngestSymbols

LEMMA StutterIInv ==
  ASSUME IInv, UNCHANGED vars
  PROVE  IInv'
<1>1. result \in {"none", "ignored", "beacon", "nokey", "progress", "done",
                  "foreign", "auth", "inflate", "badframe"}
  BY DEF IInv, TypeOK
<1> QED BY <1>1, QuietIInv DEF vars

LEMMA NextIInv == IInv /\ [Next]_vars => IInv'
<1> SUFFICES ASSUME IInv, [Next]_vars PROVE IInv'
  OBVIOUS
<1>1. ASSUME NEW o \in Object, IngestBeacon(o) PROVE IInv'
  <2>1. <<>> \in Seq(Nat)
    BY EmptySeq
  <2> QED BY <1>1, <2>1, IngestIInv
<1>2. ASSUME NEW o \in Object, NEW run \in Runs[o],
             IngestSymbols(o, run) \/ Restore(o, run)
      PROVE  IInv'
  <2>1. run \in Seq(Nat)
    BY ReceiverAssumption
  <2> QED BY <1>2, <2>1, IngestIInv, ParkIInv
<1>3. CASE BadFrame
  BY <1>3, QuietIInv DEF BadFrame
<1>4. CASE AfterDone
  BY <1>4, QuietIInv DEF AfterDone
<1>5. CASE UNCHANGED vars
  BY <1>5, StutterIInv
<1> QED BY <1>1, <1>2, <1>3, <1>4, <1>5 DEF Next

-----------------------------------------------------------------------------
(* What the world outside can rely on *)

(* Every packet the receiver has anything of. *)
Known == seen \cup heard \cup Packets(pending)

(* A frame of o tells the receiver of no packet of any other object. *)
LEMMA Provenance ==
  ASSUME IInv, NEW o \in Object, NEW run \in Seq(Nat), IngestSymbols(o, run),
         NEW p \in Known'
  PROVE  p \in Known \/ p.obj = o
<1> DEFINE q == Queue(o, run)
           t == Tagged(o, run)
<1>1. /\ t \in Seq(Parked) /\ DOMAIN t = 1..Len(t) /\ Len(t) \in Nat
      /\ \A x \in Packets(t) : x.obj = o
  <2>1. t \in Seq(Parked) /\ Len(t) = Len(run)
    BY TaggedPackets
  <2>2. DOMAIN t = 1..Len(t) /\ Len(t) \in Nat
    BY <2>1, LenProperties
  <2> QED BY <2>1, <2>2, TaggedPackets DEF Packets
<1> HIDE DEF t
<1>2. Packets(q) \subseteq Packets(pending) \cup Packets(t)
  <2>1. pending \in Seq(Parked)
    BY DEF IInv, TypeOK
  <2>2. DOMAIN pending = 1..Len(pending) /\ Len(pending) \in Nat
    BY <2>1, LenProperties
  <2>3. /\ q \in Seq(Parked) /\ Len(q) = Len(pending) + Len(t)
        /\ \A i \in 1..(Len(pending) + Len(t)) :
             q[i] = IF i <= Len(pending) THEN pending[i] ELSE t[i - Len(pending)]
    BY <1>1, <2>1, ConcatProperties DEF t, Queue
  <2> HIDE DEF q
  <2>4. DOMAIN q = 1..(Len(pending) + Len(t))
    BY <2>3, LenProperties
  <2>5. ASSUME NEW i \in 1..(Len(pending) + Len(t))
        PROVE  q[i].pkt \in Packets(pending) \cup Packets(t)
    <3>1. CASE i <= Len(pending)
      <4>1. i \in DOMAIN pending /\ q[i] = pending[i]
        BY <2>2, <2>3, <1>1, <3>1
      <4> QED BY <4>1 DEF Packets
    <3>2. CASE ~(i <= Len(pending))
      <4>1. i - Len(pending) \in DOMAIN t /\ q[i] = t[i - Len(pending)]
        BY <2>2, <2>3, <1>1, <3>2
      <4> QED BY <4>1 DEF Packets
    <3> QED BY <3>1, <3>2
  <2> QED BY <2>4, <2>5 DEF Packets
<1>3. CASE HoldSymbols(o, run)
  <2>1. /\ pending' \in {pending, q} /\ seen' = seen
        /\ heard' = heard \cup Packets(t)
    BY <1>3 DEF HoldSymbols, Hold, Queue, t
  <2>2. Packets(pending') \subseteq Packets(pending) \cup Packets(q)
    BY <2>1
  <2>3. Known' = seen' \cup heard' \cup Packets(pending')
    BY DEF Known, Packets
  <2> HIDE DEF q
  <2> QED BY <1>1, <1>2, <2>1, <2>2, <2>3 DEF Known
<1>4. CASE ForeignSymbols(o)
  BY <1>4 DEF ForeignSymbols, Known, Packets
<1>5. CASE Absorb(o, run)
  <2>1. /\ seen' = seen \cup NewPkts(q) /\ heard' = heard \cup Packets(t)
        /\ pending' = <<>>
    BY <1>5 DEF Absorb, Queue, NewPkts, t
  <2>2. NewPkts(q) \subseteq Packets(q)
    <3>1. q \in Seq(Parked)
      BY QueueFacts DEF IInv
    <3>2. DOMAIN q = 1..Len(q) /\ Fresh(q) \subseteq 1..Len(q)
      BY <3>1, LenProperties DEF Fresh, FreshUpTo
    <3> QED BY <3>2 DEF NewPkts, Packets
  <2>3. Packets(pending') = {}
    BY <2>1, EmptySeq DEF Packets
  <2>4. Known' = seen' \cup heard' \cup Packets(pending')
    BY DEF Known, Packets
  <2> HIDE DEF q
  <2> QED BY <1>1, <1>2, <2>1, <2>2, <2>3, <2>4 DEF Known
<1> QED BY <1>3, <1>4, <1>5 DEF IngestSymbols

(* A delivered object has had a packet absorbed, and nothing is delivered     *)
(* before done.                                                               *)
LEMMA DeliveredHasPacket ==
  ASSUME IInv
  PROVE  /\ done => /\ delivered \in Object
                    /\ \E p \in seen : p.obj = delivered
         /\ ~done => delivered = None
<1>1. ~done => delivered = None
  BY DEF IInv, DoneSound
<1>2. ASSUME done
      PROVE  delivered \in Object /\ \E p \in seen : p.obj = delivered
  <2> DEFINE own == {p \in seen : p.obj = beacon}
  <2>1. delivered = beacon /\ beacon \in Object /\ Cardinality(own) >= K[beacon]
    BY <1>2 DEF IInv, DoneSound, ObjectSound
  <2>2. K[beacon] \in Nat \ {0}
    BY <2>1, ReceiverAssumption
  <2>3. own # {}
    <3>1. Cardinality({}) = 0
      BY FS_EmptySet
    <3>2. own = {} => Cardinality(own) = 0
      BY <3>1
    <3> HIDE DEF own
    <3> QED BY <2>1, <2>2, <3>2
  <2> QED BY <2>1, <2>3
<1> QED BY <1>1, <1>2

-----------------------------------------------------------------------------
(* The theorems *)

(* IInv holds in every reachable state of the receiver. *)
THEOREM Invariance == Spec => []IInv
  BY InitIInv, NextIInv, PTL DEF Spec

(* The receiver's fields have their types: nothing but packets of announced   *)
(* objects is ever parked, absorbed or counted.                               *)
THEOREM TypeCorrect == Spec => []TypeOK
<1>1. IInv => TypeOK
  BY DEF IInv
<1> QED BY <1>1, Invariance, PTL

(* The progress counter is the number of payload ids absorbed and of packets  *)
(* checkpoint() would save, after any mix of frames and restores.             *)
THEOREM CountersNeverDiverge == Spec => []CountersAgree
<1>1. IInv => CountersAgree
  BY DEF IInv
<1> QED BY <1>1, Invariance, PTL

(* No packet of another session is absorbed, so none is checkpointed either.  *)
THEOREM SessionsNeverMix == Spec => []OneSession
<1>1. IInv => OneSession
  BY DEF IInv
<1> QED BY <1>1, Invariance, PTL

(* Done hands out the announced object, opened with its own key, after at     *)
(* least K of its packets, whatever else shares its session id.               *)
THEOREM DeliveryIsAnnounced == Spec => []DeliveredIsAnnounced
<1>1. IInv => DeliveredIsAnnounced
  BY DEF IInv, DoneSound, ObjectSound, DeliveredIsAnnounced
<1> QED BY <1>1, Invariance, PTL

(* A packet of the received session, once offered, is parked or absorbed      *)
(* until the object is delivered.                                             *)
THEOREM NoPacketLost == Spec => []NothingLost
<1>1. IInv => NothingLost
  BY DEF IInv
<1> QED BY <1>1, Invariance, PTL

(* With the right key the reassembled object is always delivered at once.     *)
THEOREM NothingStranded == Spec => []NoStrandedObject
<1>1. IInv => NoStrandedObject
  BY DEF IInv
<1> QED BY <1>1, Invariance, PTL

(* No step takes back a delivery, changes it or repeats it, and none forgets  *)
(* the session or a packet absorbed.                                          *)
THEOREM DeliveryIsFinal == Spec => DoneIsFinal
<1> DEFINE Keeps == /\ seen \subseteq seen'
                    /\ beacon # None => beacon' = beacon
                    /\ done => done' /\ delivered' = delivered /\ seen' = seen
                               /\ result' \in {result, "ignored"}
<1>1. ASSUME [Next]_vars PROVE [Keeps]_vars
  <2>1. ASSUME NEW o \in Object, AcquireBeacon(o) PROVE Keeps
    BY <2>1 DEF AcquireBeacon, Listening
  <2>2. ASSUME NEW o \in Object, RepeatBeacon(o) PROVE Keeps
    BY <2>2 DEF RepeatBeacon, Listening
  <2>3. ASSUME NEW o \in Object, NEW run \in Runs[o], HoldSymbols(o, run) PROVE Keeps
    BY <2>3 DEF HoldSymbols, Listening
  <2>4. ASSUME NEW o \in Object, ForeignSymbols(o) PROVE Keeps
    BY <2>4 DEF ForeignSymbols, Listening
  <2>5. ASSUME NEW o \in Object, NEW run \in Runs[o], Absorb(o, run) PROVE Keeps
    BY <2>5 DEF Absorb, Listening
  <2>6. ASSUME NEW o \in Object, NEW run \in Runs[o], Restore(o, run) PROVE Keeps
    BY <2>6 DEF Restore
  <2>7. ASSUME BadFrame \/ AfterDone PROVE Keeps
    BY <2>7 DEF BadFrame, AfterDone, Listening
  <2> QED
    BY <1>1, <2>1, <2>2, <2>3, <2>4, <2>5, <2>6, <2>7
    DEF Next, IngestBeacon, IngestSymbols
<1> QED BY <1>1, PTL DEF Spec, DoneIsFinal
=============================================================================
