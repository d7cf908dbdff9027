------------------------------ MODULE Receiver ------------------------------
(***************************************************************************)
(* The receiving half of the pipeline: struct Receiver of                  *)
(* core/src/pipeline.rs, as struct Receive of core/src/wasm.rs drives it.  *)
(*                                                                         *)
(* Each optical frame the camera decodes is one call of ingest().  A       *)
(* BEACON names the object being sent, a SYMBOL frame carries some of its  *)
(* packets, and nothing else about a packet than its payload id tells it   *)
(* from a packet of another object: ids start over in every object.        *)
(*                                                                         *)
(* An object is one Transmitter's ciphertext.  Its beacon is determined by *)
(* it, so a beacon is represented by the object it announces, a key by the *)
(* object it opens, and a packet by the pair (object, id).  RaptorQ is     *)
(* external: any K..K+Slack distinct packets reassemble something, and     *)
(* what they reassemble is the announced object only if all are its own.   *)
(***************************************************************************)
EXTENDS Naturals, Sequences, FiniteSets

CONSTANTS
  Object,      \* the encrypted objects on air
  Sid,         \* 8-byte session ids
  Prefix,      \* their first four bytes, all that a SYMBOL frame carries
  SidOf,       \* [Object -> Sid]; two senders may answer one PAIR_REQ
  PrefixOf,    \* [Sid -> Prefix]
  K,           \* [Object -> Nat \ {0}]: source symbols of the object
  Slack,       \* extra packets RaptorQ may want beyond K
  KeyFor,      \* what derive_and_set obtains from the object's beacon here
  Inflatable,  \* the objects whose body passes maybe_decompress and the length check
  Runs,        \* [Object -> set of id sequences one SYMBOL frame can carry]
  None, Garbage, WrongKey,
  MaxPending   \* bound on the packets parked while no beacon is known

Packet == [obj : Object, id : Nat]
Key == Object \cup {WrongKey, None}

ASSUME ReceiverAssumption ==
  /\ SidOf \in [Object -> Sid]
  /\ PrefixOf \in [Sid -> Prefix]
  /\ K \in [Object -> Nat \ {0}]
  /\ Slack \in Nat
  /\ KeyFor \in [Object -> Key]
  /\ \A o \in Object : KeyFor[o] \in {o, WrongKey, None}
  /\ Inflatable \subseteq Object
  /\ \A o \in Object : Runs[o] \subseteq Seq(Nat)
  /\ MaxPending \in Nat
  /\ {None, Garbage, WrongKey} \cap Object = {}
  /\ None # Garbage /\ None # WrongKey /\ Garbage # WrongKey

VARIABLES
  beacon,      \* the object announced by the first beacon, or None
  key,         \* the session key, or None
  pending,     \* packets parked until a beacon says which session is received
  seen,        \* packets absorbed: what checkpoint() hands to the shell
  ids,         \* the payload ids of seen
  received,    \* the progress counter
  needed,      \* the progress denominator
  object,      \* what the decoder has reassembled: None, the object or Garbage
  delivered,   \* the plaintext handed out by Done, or None
  done,
  result,      \* the outcome of the latest ingest
  heard        \* history: every packet ever offered, by ingest or restore

vars == <<beacon, key, pending, seen, ids, received, needed, object,
          delivered, done, result, heard>>

Sid4(o) == PrefixOf[SidOf[o]]

Parked == [sid4 : Prefix, pkt : Packet]

(* The packets of one SYMBOL frame of o, each with the session it came from. *)
Tagged(o, run) ==
  [i \in 1..Len(run) |-> [sid4 |-> Sid4(o), pkt |-> [obj |-> o, id |-> run[i]]]]

Packets(q) == {q[i].pkt : i \in DOMAIN q}

TypeOK ==
  /\ beacon \in Object \cup {None}
  /\ key \in Key
  /\ pending \in Seq(Parked)
  /\ seen \subseteq Packet
  /\ ids \subseteq Nat
  /\ received \in Nat
  /\ needed \in Nat
  /\ object \in Object \cup {None, Garbage}
  /\ delivered \in Object \cup {None}
  /\ done \in BOOLEAN
  /\ result \in {"none", "ignored", "beacon", "nokey", "progress", "done",
                 "foreign", "auth", "inflate", "badframe"}
  /\ heard \subseteq Packet

Init ==
  /\ beacon = None
  /\ key = None
  /\ pending = <<>>
  /\ seen = {}
  /\ ids = {}
  /\ received = 0
  /\ needed = 0
  /\ object = None
  /\ delivered = None
  /\ done = FALSE
  /\ result = "none"
  /\ heard = {}

-----------------------------------------------------------------------------
(* Mutant of Listening: ingest without its early return. *)
AlwaysListening == TRUE

(* ingest() acts on nothing once the object is delivered. *)
Listening == ~done

-----------------------------------------------------------------------------
(* BEACON *)

(* The first beacon fixes the session for the life of this receiver, whoever *)
(* sent it, and wasm derives the key before it looks at another frame.       *)
AcquireBeacon(o) ==
  /\ Listening
  /\ beacon = None
  /\ beacon' = o
  /\ needed' = K[o]
  /\ object' = None
  /\ key' = KeyFor[o]
  /\ result' = IF KeyFor[o] = None THEN "nokey" ELSE "beacon"
  /\ UNCHANGED <<pending, seen, ids, received, delivered, done, heard>>

RepeatBeacon(o) ==
  /\ Listening
  /\ beacon # None
  /\ result' = IF SidOf[beacon] = SidOf[o] THEN "ignored" ELSE "foreign"
  /\ UNCHANGED <<beacon, key, pending, seen, ids, received, needed, object,
                 delivered, done, heard>>

-----------------------------------------------------------------------------
(* SYMBOL *)

(* Mutants of Hold: the session is not parked with the packet; what comes     *)
(* ahead of the beacon is dropped.                                            *)
HoldUntagged(sid4, q) == pending' = pending \o [i \in DOMAIN q |-> q[i].pkt]
HoldKnown(sid4, q) ==
  pending' = IF beacon = None \/ sid4 # Sid4(beacon) THEN pending ELSE pending \o q

(* Parking: before a beacon everything is kept; after it, only its session. *)
Hold(sid4, q) ==
  pending' = IF beacon # None /\ sid4 # Sid4(beacon) THEN pending ELSE pending \o q

HoldSymbols(o, run) ==
  /\ Listening
  /\ beacon = None
  /\ Len(pending) + Len(run) <= MaxPending
  /\ Hold(Sid4(o), Tagged(o, run))
  /\ heard' = heard \cup Packets(Tagged(o, run))
  /\ result' = "ignored"
  /\ UNCHANGED <<beacon, key, seen, ids, received, needed, object, delivered, done>>

ForeignSymbols(o) ==
  /\ Listening
  /\ beacon # None
  /\ Sid4(o) # Sid4(beacon)
  /\ result' = "foreign"
  /\ UNCHANGED <<beacon, key, pending, seen, ids, received, needed, object,
                 delivered, done, heard>>

(* Mutants of FreshUpTo: a packet absorbed before counts again; a packet of   *)
(* another session is taken.                                                  *)
FreshAgain(q, n) == {i \in 1..n : q[i].sid4 = Sid4(beacon)}
FreshAnySession(q, n) ==
  {i \in 1..n : /\ q[i].pkt.id \notin ids
                /\ \A j \in 1..(i - 1) : q[j].pkt.id # q[i].pkt.id}

(* The positions of queue q that absorb accepts: of the beacon's session, and *)
(* the first to carry a payload id not absorbed before.                       *)
FreshUpTo(q, n) ==
  {i \in 1..n :
     /\ q[i].sid4 = Sid4(beacon)
     /\ q[i].pkt.id \notin ids
     /\ \A j \in 1..(i - 1) :
          q[j].sid4 = Sid4(beacon) => q[j].pkt.id # q[i].pkt.id}

Fresh(q) == FreshUpTo(q, Len(q))

(* What the decoder holds after position n of the queue. *)
Fed(q, n) == seen \cup {q[i].pkt : i \in FreshUpTo(q, n)}

Reassemble(fed) ==
  IF \A p \in fed : p.obj = beacon THEN beacon ELSE Garbage

(* The decoder reports the object at the first packet that brings it to the *)
(* threshold, and again for every later packet it is given.                 *)
Decode(q, threshold) ==
  LET reached == {i \in Fresh(q) : Cardinality(Fed(q, i)) >= threshold}
  IN  IF object # None \/ reached = {} THEN object
      ELSE Reassemble(Fed(q, CHOOSE i \in reached : \A j \in reached : i <= j))

(* Mutants of Opens: no tag is checked; the tag covers fields that are filled *)
(* in after encryption.                                                       *)
OpensAnything(k, obj) == k # None
OpensNothing(k, obj) == FALSE

(* A key opens the object it was derived for, and the tag rejects the rest. *)
Opens(k, obj) == k = obj /\ obj \in Object

Outcome(finished) ==
  IF finished = None \/ key = None THEN "progress"
  ELSE IF ~Opens(key, finished) THEN "auth"
  ELSE IF finished \notin Inflatable THEN "inflate"
  ELSE "done"

Absorb(o, run) ==
  /\ Listening
  /\ beacon # None
  /\ Sid4(o) = Sid4(beacon)
  /\ LET q == pending \o Tagged(o, run)
         news == Fresh(q)
     IN  /\ seen' = seen \cup {q[i].pkt : i \in news}
         /\ ids' = ids \cup {q[i].pkt.id : i \in news}
         /\ received' = received + Cardinality(news)
         /\ \E threshold \in K[beacon]..(K[beacon] + Slack) :
              object' = Decode(q, threshold)
         /\ result' = Outcome(IF news = {} THEN None ELSE object')
  /\ pending' = <<>>
  /\ done' = (result' = "done")
  /\ delivered' = IF done' THEN object' ELSE delivered
  /\ heard' = heard \cup Packets(Tagged(o, run))
  /\ UNCHANGED <<beacon, key, needed>>

-----------------------------------------------------------------------------
(* The rest of ingest, and restore *)

(* A frame type ingest does not act on, or one torn by a screen change. *)
BadFrame ==
  /\ Listening
  /\ result' = "badframe"
  /\ UNCHANGED <<beacon, key, pending, seen, ids, received, needed, object,
                 delivered, done, heard>>

AfterDone ==
  /\ ~Listening
  /\ result' = "ignored"
  /\ UNCHANGED <<beacon, key, pending, seen, ids, received, needed, object,
                 delivered, done, heard>>

(* restore() takes a checkpoint under the session it was saved for, before or *)
(* after the beacon, and does not look at done.                               *)
Restore(o, run) ==
  /\ Len(pending) + Len(run) <= MaxPending
  /\ Hold(Sid4(o), Tagged(o, run))
  /\ heard' = heard \cup Packets(Tagged(o, run))
  /\ UNCHANGED <<beacon, key, seen, ids, received, needed, object, delivered,
                 done, result>>

IngestBeacon(o) == AcquireBeacon(o) \/ RepeatBeacon(o)

IngestSymbols(o, run) == HoldSymbols(o, run) \/ ForeignSymbols(o) \/ Absorb(o, run)

Next ==
  \/ \E o \in Object :
       \/ IngestBeacon(o)
       \/ \E run \in Runs[o] : IngestSymbols(o, run) \/ Restore(o, run)
  \/ BadFrame
  \/ AfterDone

Spec == Init /\ [][Next]_vars

-----------------------------------------------------------------------------
(* Properties *)

(* The progress counter, the set of payload ids and the checkpoint never     *)
(* diverge, whatever mix of live, parked, repeated and restored packets      *)
(* arrives (Receiver::distinct: "so a caller can assert the two never        *)
(* diverge").                                                                *)
CountersAgree ==
  /\ received = Cardinality(ids)
  /\ Cardinality(seen) = Cardinality(ids)
  /\ ids = {p.id : p \in seen}

(* Every packet absorbed, hence every packet a checkpoint saves, comes from  *)
(* the session of the acquired beacon: neither parked packets nor a stale    *)
(* checkpoint leak from one session into another.                            *)
OneSession ==
  \A p \in seen : beacon # None /\ Sid4(p.obj) = Sid4(beacon)

(* What is handed out as the plaintext is the object the beacon announced,   *)
(* opened with its own key, after at least K of its packets: reassembling a  *)
(* mixture of two senders' packets is never reported as a delivery.          *)
DeliveredIsAnnounced ==
  done => /\ delivered = beacon
          /\ key = beacon
          /\ Cardinality({p \in seen : p.obj = beacon}) >= K[beacon]

(* No packet of the received session is lost: once offered, by a frame that  *)
(* came before the beacon, by a checkpoint or live, it is parked or its id   *)
(* is absorbed ("Symbols before beacon acquisition are kept, not dropped").  *)
NothingLost ==
  ~done => \A p \in heard :
    \/ beacon # None /\ Sid4(p.obj) # Sid4(beacon)
    \/ beacon # None /\ p.id \in ids
    \/ \E i \in DOMAIN pending : pending[i].pkt = p

(* A receiver holding the right key never sits on the reassembled object     *)
(* without opening it: the key is there before the decoder can finish, so    *)
(* the step that completes the object also delivers it.                      *)
NoStrandedObject ==
  object = beacon /\ key = beacon /\ beacon \in Inflatable => done

(* Once a transfer is delivered nothing that arrives later can undo it or    *)
(* deliver again, and what was absorbed is never forgotten.                  *)
DoneIsFinal ==
  [][/\ seen \subseteq seen'
     /\ beacon # None => beacon' = beacon
     /\ done => done' /\ delivered' = delivered /\ seen' = seen
                /\ result' \in {result, "ignored"}]_vars
=============================================================================
