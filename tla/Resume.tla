------------------------------- MODULE Resume -------------------------------
(***************************************************************************)
(* A receiving device across page loads: the checkpoint that app/app.js    *)
(* keeps in IndexedDB while pages come and go under it.                    *)
(*                                                                         *)
(* A page can die at any moment (the phone is locked, the tab is evicted). *)
(* Everything in wasm memory dies with it, including the session id and    *)
(* the ephemeral key of the page's PAIR_REQ; what survives is the slot,    *)
(* written every two seconds by a timer, and the device identity.  The     *)
(* sending screens know nothing of it and go on cycling their packets.     *)
(***************************************************************************)
EXTENDS Naturals, Sequences, FiniteSets

CONSTANTS
  Transfer,    \* the objects on the sending screens
  Pair,        \* those sent in PAIR mode: bound to one page's session and key
  Symbols,     \* packet ids of an object
  K,           \* how many reassemble it
  None,
  MaxLoads,    \* bound on page loads
  MaxQueue     \* bound on storage requests in flight

ASSUME ResumeAssumption ==
  /\ Pair \subseteq Transfer
  /\ K \in Nat \ {0}
  /\ MaxLoads \in Nat \ {0}
  /\ MaxQueue \in Nat \ {0}
  /\ None \notin Transfer

VARIABLES
  page,        \* "down", "reading", "up", "done" or "auth"
  epoch,       \* page loads so far; each makes a fresh session and key pair
  slot,        \* the checkpoint on disk: None or [sid, syms]
  queue,       \* storage requests issued and not yet performed
  timer,       \* the checkpoint writer is running
  beacon, pending, seen,       \* the page's Receiver
  bound,       \* [Pair -> the epoch whose PAIR_REQ the sender answered, or 0]
  released,    \* the PAIR transfers whose human has confirmed
  resumed,     \* history: the checkpoint this page read
  delivered    \* history: the transfers delivered

vars == <<page, epoch, slot, queue, timer, beacon, pending, seen, bound,
          released, resumed, delivered>>

memory == <<beacon, pending, seen>>
peers == <<bound, released>>

(* A PAIR sender transmits under the session of the PAIR_REQ it scanned, any  *)
(* other under one of its own.                                                *)
SidOf(t) == IF t \in Pair THEN <<"page", bound[t]>> ELSE <<"sender", t>>

Symbol == Transfer \X Symbols
Sid == {"page", "sender"} \X (0..MaxLoads \cup Transfer)
Checkpoint == [sid : Sid, syms : SUBSET Symbol]

TypeOK ==
  /\ page \in {"down", "reading", "up", "done", "auth"}
  /\ epoch \in 0..MaxLoads
  /\ {slot, resumed} \subseteq Checkpoint \cup {None}
  /\ queue \in Seq(Checkpoint \cup {None})
  /\ timer \in BOOLEAN
  /\ beacon \in Transfer \cup {None}
  /\ pending \subseteq [sid : Sid, sym : Symbol]
  /\ seen \subseteq Symbol
  /\ bound \in [Pair -> 0..MaxLoads]
  /\ released \subseteq Pair
  /\ delivered \subseteq Transfer

Init ==
  /\ page = "down"
  /\ epoch = 0
  /\ slot = None
  /\ queue = <<>>
  /\ timer = FALSE
  /\ beacon = None
  /\ pending = {}
  /\ seen = {}
  /\ bound = [t \in Pair |-> 0]
  /\ released = {}
  /\ resumed = None
  /\ delivered = {}

-----------------------------------------------------------------------------
(* The page *)

Load ==
  /\ page = "down"
  /\ epoch < MaxLoads
  /\ page' = "reading"
  /\ epoch' = epoch + 1
  /\ UNCHANGED <<slot, queue, timer, memory, peers, resumed, delivered>>

(* beReceiver awaits the slot, hands it to Receive::restore under its session *)
(* and, once the camera runs, starts the writer.                              *)
ReadCheckpoint ==
  /\ page = "reading"
  /\ page' = "up"
  /\ timer' = TRUE
  /\ resumed' = slot
  /\ pending' = IF slot = None THEN {}
                ELSE {[sid |-> slot.sid, sym |-> x] : x \in slot.syms}
  /\ UNCHANGED <<epoch, slot, queue, beacon, seen, peers, delivered>>

(* Requests not yet performed die with the page. *)
Die ==
  /\ page # "down"
  /\ page' = "down"
  /\ queue' = <<>>
  /\ timer' = FALSE
  /\ beacon' = None
  /\ pending' = {}
  /\ seen' = {}
  /\ resumed' = None
  /\ UNCHANGED <<epoch, slot, peers, delivered>>

-----------------------------------------------------------------------------
(* The sending screens *)

(* A PAIR sender scans this page's PAIR_REQ, on display until a beacon lands. *)
Answer(t) ==
  /\ t \in Pair
  /\ bound[t] = 0
  /\ page = "up" /\ beacon = None
  /\ bound' = [bound EXCEPT ![t] = epoch]
  /\ UNCHANGED <<page, epoch, slot, queue, timer, memory, released, resumed, delivered>>

(* Its human confirms: the digits agree only between it and this page. *)
Confirm(t) ==
  /\ t \in Pair
  /\ page = "up" /\ beacon = t /\ bound[t] = epoch
  /\ released' = released \cup {t}
  /\ UNCHANGED <<page, epoch, slot, queue, timer, memory, bound, resumed, delivered>>

OnAir(t) == t \in Pair => bound[t] # 0
Showing(t) == t \in Pair => t \in released

-----------------------------------------------------------------------------
(* Receiving *)

(* The first beacon is taken whatever session it names. *)
Beacon(t) ==
  /\ page = "up"
  /\ beacon = None
  /\ OnAir(t)
  /\ beacon' = t
  /\ UNCHANGED <<page, epoch, slot, queue, timer, pending, seen, peers, resumed, delivered>>

(* Symbols ahead of the beacon are parked under the session they name. *)
Park(t, id) ==
  /\ page = "up"
  /\ beacon = None
  /\ Showing(t)
  /\ pending' = pending \cup {[sid |-> SidOf(t), sym |-> <<t, id>>]}
  /\ UNCHANGED <<page, epoch, slot, queue, timer, beacon, seen, peers, resumed, delivered>>

(* Mutant of HasKey: only a PAIR transfer is keyed. *)
HasKeyPaired(t) == t \in Pair /\ bound[t] = epoch

(* A PAIR key is agreed with the ephemeral of the page that was answered. *)
HasKey(t) == t \in Pair => bound[t] = epoch

(* Mutants of Mine: parked symbols are absorbed whatever their session; they  *)
(* are forgotten.                                                             *)
MineAnySession == {p.sym : p \in pending}
MineForgotten == {}

(* absorb() drains what is parked and keeps the beacon's session. *)
Mine == {p.sym : p \in {q \in pending : q.sid = SidOf(beacon)}}

(* Mutant of Finish: the writer is left running. *)
FinishStillWriting ==
  /\ page' = "done"
  /\ queue' = Append(queue, None)
  /\ delivered' = delivered \cup {beacon}
  /\ UNCHANGED timer

(* finish() stops the writer before it issues the delete. *)
Finish ==
  /\ page' = "done"
  /\ timer' = FALSE
  /\ queue' = Append(queue, None)
  /\ delivered' = delivered \cup {beacon}

Absorb(t, id) ==
  /\ page = "up"
  /\ beacon # None
  /\ Showing(t)
  /\ SidOf(t) = SidOf(beacon)
  /\ seen' = seen \cup Mine \cup {<<t, id>>}
  /\ pending' = {}
  /\ IF seen' = seen \/ Cardinality(seen') < K
     THEN UNCHANGED <<page, timer, queue, delivered>>
     ELSE IF HasKey(beacon) /\ \A x \in seen' : x[1] = beacon
          THEN Finish
          ELSE page' = "auth" /\ UNCHANGED <<timer, queue, delivered>>
  /\ UNCHANGED <<epoch, slot, beacon, peers, resumed>>

-----------------------------------------------------------------------------
(* Storage *)

Snapshot == [sid |-> SidOf(beacon), syms |-> seen]

(* The writer snapshots the symbols absorbed, if there are any.  It is not    *)
(* stopped by a failed tag: the role is still "receive".                      *)
WriteCheckpoint ==
  /\ timer
  /\ beacon # None /\ seen # {}
  /\ Len(queue) < MaxQueue
  /\ queue' = Append(queue, Snapshot)
  /\ UNCHANGED <<page, epoch, slot, timer, memory, peers, resumed, delivered>>

(* IndexedDB performs the requests of one store in the order they were made. *)
Perform ==
  /\ queue # <<>>
  /\ slot' = Head(queue)
  /\ queue' = Tail(queue)
  /\ UNCHANGED <<page, epoch, timer, memory, peers, resumed, delivered>>

Receive(t) ==
  \/ Beacon(t)
  \/ \E id \in Symbols : Park(t, id) \/ Absorb(t, id)

Next ==
  \/ Load \/ ReadCheckpoint \/ Die
  \/ \E t \in Transfer : Answer(t) \/ Confirm(t) \/ Receive(t)
  \/ WriteCheckpoint \/ Perform

(* The stream cycles its whole pool, the timer and the storage come round.    *)
(* Nothing obliges a page to load, to die, or a person to confirm.            *)
Fairness ==
  /\ \A t \in Transfer, id \in Symbols : WF_vars(Absorb(t, id))
  /\ WF_vars(Perform)
  /\ WF_vars(ReadCheckpoint)

Spec == Init /\ [][Next]_vars /\ Fairness

-----------------------------------------------------------------------------
(* Properties *)

(* What is on disk, or on its way there, belongs wholly to the session it is  *)
(* filed under: a page that reads it back can trust the label.                *)
CheckpointIsPure ==
  \A c \in {slot} \cup {queue[i] : i \in DOMAIN queue} :
    c # None => \A x \in c.syms : SidOf(x[1]) = c.sid

(* Resuming really resumes: when a page that read a checkpoint absorbs its    *)
(* first symbol of that session, everything saved is back.                    *)
ResumeRestoresAll ==
  resumed # None /\ beacon # None /\ seen # {} /\ resumed.sid = SidOf(beacon)
    => resumed.syms \subseteq seen

(* Saved progress never shrinks: a page overwrites the checkpoint of the      *)
(* session it receives only with at least as much, however early its writer   *)
(* runs after a reload.                                                       *)
SavedNeverShrinks ==
  [][slot # None /\ slot' # None /\ slot.sid = slot'.sid
       => slot.syms \subseteq slot'.syms]_vars

(* A delivered transfer leaves no checkpoint behind once storage is quiet: no *)
(* write of the finished page lands after its delete.                         *)
DeliveredIsForgotten == page = "done" /\ queue = <<>> => slot = None

(* A failed tag is not the receiver's own doing: the only object it cannot    *)
(* open is one paired with a page that is gone.                               *)
OnlyStalePairingFails ==
  page = "auth" => beacon \in Pair /\ bound[beacon] # epoch

(* A page that stays up and has the key ends up delivered, with whatever part *)
(* of the object earlier pages had saved.                                     *)
Delivery ==
  \A t \in Transfer \ Pair : beacon = t ~> (page = "done" \/ page = "down")
=============================================================================
