------------------------------ MODULE Pairing ------------------------------
(***************************************************************************)
(* Several devices in one room: the sessions of core/src/wasm.rs, keyed by *)
(* core/src/crypto.rs, as app/app.js conducts them.                        *)
(*                                                                         *)
(* Every device rests as a receiver showing its PAIR_REQ.  One that has    *)
(* chosen to send encrypted becomes the sender of the first PAIR_REQ it    *)
(* reads.  A first meeting is a PAIR: the sender shows a beacon and        *)
(* withholds its symbols; the receiver that reads the beacon shows five    *)
(* digits and its REVEAL; the sender checks the REVEAL against the         *)
(* commitment, shows its own digits, and a person compares the two         *)
(* screens.  Between devices that have stored each other's identity it is  *)
(* a SESSION, without digits.  A device may also send with no handshake,   *)
(* sealed to an identity it has stored (SEAL) or in the open (OPEN).  A    *)
(* camera reads whatever is in its view, so with more than two devices     *)
(* anyone may read anyone's frame at any stage.                            *)
(*                                                                         *)
(* The shell passes no stored identity and offers no SEAL: it is the case  *)
(* Peer = [d |-> None].  Symbols are abstracted to the K ids that          *)
(* reassemble an object; one read before a beacon is parked in the code    *)
(* and stands here for the same symbol read again later.                   *)
(***************************************************************************)
EXTENDS Naturals, FiniteSets, Keys

CONSTANTS
  Device,
  Identified,  \* the devices that pass their identity to Session and Send
  Peer,        \* [Device -> Device or None]: whose identity each has stored
  K            \* distinct symbols that reassemble an object

ASSUME PairingAssumption ==
  /\ K \in Nat \ {0}
  /\ None \notin Device
  /\ \A d \in Device : <<"id", d>> # None   \* no identity is the absent one
  /\ Identified \subseteq Device
  /\ Peer \in [Device -> Identified \cup {None}]

VARIABLES
  view,        \* [Device -> SUBSET Device]: the screens each camera can read
  wants,       \* the devices armed to send encrypted
  req,         \* [Device -> Device or None]: whose PAIR_REQ the sender answered
  mode,        \* [Device -> "none" or a Mode]: how the device is sending
  pc,          \* [Device -> the stage of its send]
  held,        \* [Device -> BOOLEAN]: the transmitter shows beacons only
  got,         \* [Device -> Device or None]: whose beacon the receiver acquired
  have,        \* [Device -> SUBSET (Device \X 1..K)]: symbols absorbed
  face         \* [Device -> what a receiver displays, and whether its loop still runs]

vars == <<view, wants, req, mode, pc, held, got, have, face>>

TypeOK ==
  /\ view \in [Device -> SUBSET Device]
  /\ wants \subseteq Device
  /\ req \in [Device -> Device \cup {None}]
  /\ mode \in [Device -> {"none", "pair", "session", "seal", "open"}]
  /\ pc \in [Device -> {"idle", "starting", "scanReveal", "confirm",
                        "scanComplete", "verified", "mismatch", "aborted"}]
  /\ held \in [Device -> BOOLEAN]
  /\ got \in [Device -> Device \cup {None}]
  /\ have \in [Device -> SUBSET (Device \X (1..K))]
  /\ face \in [Device -> {"req", "reveal", "complete", "failed"}]
  /\ \A d \in Device : /\ (mode[d] \in {"pair", "session"}) = (req[d] # None)
                        /\ (mode[d] = "none") = (pc[d] = "idle")

Init ==
  /\ view \in [Device -> SUBSET Device]
  /\ \A d \in Device : d \notin view[d]
  /\ wants = {}
  /\ req = [d \in Device |-> None]
  /\ mode = [d \in Device |-> "none"]
  /\ pc = [d \in Device |-> "idle"]
  /\ held = [d \in Device |-> FALSE]
  /\ got = [d \in Device |-> None]
  /\ have = [d \in Device |-> {}]
  /\ face = [d \in Device |-> "req"]

-----------------------------------------------------------------------------
(* What can be read *)

(* Mutant of Resting: a device that already sends may start another send. *)
RestingAlways(d) == TRUE

Resting(d) == mode[d] = "none"

(* Mutant of OnScreen: the sender scans for the REVEAL before it displays. *)
OnScreenAfterScan(s) == pc[s] \notin {"idle", "starting", "scanReveal"}

(* The display loop repaints the screen only once it has started. *)
OnScreen(s) == pc[s] \notin {"idle", "starting"}

ShowsReq(d) == ~OnScreen(d) /\ face[d] = "req"
ShowsReveal(d) == ~OnScreen(d) /\ face[d] = "reveal"
ShowsComplete(d) == ~OnScreen(d) /\ face[d] = "complete"
ShowsBeacon(s) == OnScreen(s)

(* Mutant of ShowsSymbols: symbols are displayed ahead of the confirmation. *)
ShowsSymbolsHeld(s) == OnScreen(s)

ShowsSymbols(s) == OnScreen(s) /\ ~held[s]

-----------------------------------------------------------------------------
(* Keys and digits *)

REph(d) == <<"r_eph", d>>
SEph(d) == <<"s_eph", d>>
Id(d) == IF d \in Identified THEN <<"id", d>> ELSE None
PeerId(d) == IF Peer[d] = None THEN None ELSE Id(Peer[d])

(* The stored key that matches the hint of e's PAIR_REQ. *)
Known(d, e) == IF Peer[d] = e THEN PeerId(d) ELSE None

(* The session a sender transmits under: its receiver's, or one of its own. *)
SessionOf(s) == IF req[s] # None THEN <<"receiver", req[s]>> ELSE <<"sender", s>>

SenderKey(s) ==
  CASE mode[s] \in {"pair", "session"} ->
         derive_for_mode(mode[s], "sender", SEph(s), Id(s), REph(req[s]),
                         Known(s, req[s]), SessionOf(s))
    [] mode[s] = "seal" -> seal_sender(SEph(s), Id(s), PeerId(s))
    [] mode[s] = "open" -> derive_open(SessionOf(s), SEph(s))

(* derive_and_set: in SEAL the device identity does the agreement, and the    *)
(* sender's is whichever one set_peer_identity supplied.                      *)
ReceiverKey(r, s) ==
  IF mode[s] = "seal" /\ Id(r) = None THEN NoKey
  ELSE derive_for_mode(mode[s], "receiver",
                       IF mode[s] = "seal" THEN Id(r) ELSE REph(r),
                       Id(r), SEph(s), PeerId(r), SessionOf(s))

ReceiverDigits(r) == sas(SessionOf(got[r]), REph(r), SEph(got[r]), <<"nonce", r>>)
SenderDigits(s) ==
  sas(<<"receiver", req[s]>>, REph(req[s]), SEph(s), <<"nonce", req[s]>>)

-----------------------------------------------------------------------------
(* Becoming a sender *)

ChooseEncrypted(d) ==
  /\ Resting(d)
  /\ d \notin wants
  /\ wants' = wants \cup {d}
  /\ UNCHANGED <<view, req, mode, pc, held, got, have, face>>

Listening(d) == Resting(d) /\ face[d] \in {"req", "reveal"}

(* The receive loop of an armed device reads a PAIR_REQ.  Send.reply chooses  *)
(* SESSION when both identities are there; otherwise it builds a transmitter  *)
(* held for the digits.                                                       *)
Flip(d, e) ==
  /\ d \in wants
  /\ Listening(d)
  /\ e \in view[d] /\ ShowsReq(e)
  /\ wants' = wants \ {d}
  /\ req' = [req EXCEPT ![d] = e]
  /\ mode' = [mode EXCEPT ![d] =
       IF Id(d) # None /\ Known(d, e) # None THEN "session" ELSE "pair"]
  /\ held' = [held EXCEPT ![d] = (mode'[d] = "pair")]
  /\ pc' = [pc EXCEPT ![d] = "starting"]
  /\ UNCHANGED <<view, got, have, face>>

(* Send.seal and Send.open: nothing is scanned and nothing is held back.      *)
SendUnasked(d, m) ==
  /\ Resting(d)
  /\ m = "seal" => Peer[d] # None
  /\ wants' = wants \ {d}
  /\ mode' = [mode EXCEPT ![d] = m]
  /\ pc' = [pc EXCEPT ![d] = "starting"]
  /\ UNCHANGED <<view, req, held, got, have, face>>

(* The display loop starts before the scan: each side waits for a frame of    *)
(* the other's.                                                               *)
StartShowing(d) ==
  /\ pc[d] = "starting"
  /\ pc' = [pc EXCEPT ![d] = IF held[d] THEN "scanReveal" ELSE "scanComplete"]
  /\ UNCHANGED <<view, wants, req, mode, held, got, have, face>>

-----------------------------------------------------------------------------
(* Receiving *)

(* Receive::ingest takes the first beacon whoever it is meant for; a PAIR     *)
(* beacon brings up the digits and the REVEAL.                                *)
SeeBeacon(r, s) ==
  /\ Listening(r)
  /\ got[r] = None
  /\ s \in view[r] /\ ShowsBeacon(s)
  /\ got' = [got EXCEPT ![r] = s]
  /\ face' = [face EXCEPT ![r] = IF mode[s] = "pair" THEN "reveal" ELSE @]
  /\ UNCHANGED <<view, wants, req, mode, pc, held, have>>

(* A symbol of the session acquired counts once per id, whoever sent it.  Ids  *)
(* are interchangeable: the next one stands for any that is fresh.  The tag    *)
(* decides what the K-th one completes, if there is a key to try.              *)
SeeSymbol(r, s) ==
  /\ Listening(r)
  /\ got[r] # None
  /\ s \in view[r] /\ ShowsSymbols(s)
  /\ SessionOf(s) = SessionOf(got[r])
  /\ Cardinality(have[r]) < K
  /\ have' = [have EXCEPT ![r] = @ \cup {<<s, Cardinality(@) + 1>>}]
  /\ face' = [face EXCEPT ![r] =
       IF Cardinality(have'[r]) < K \/ ReceiverKey(r, got[r]) = NoKey THEN @
       ELSE IF /\ ReceiverKey(r, got[r]) = SenderKey(got[r])
               /\ \A x \in have'[r] : x[1] = got[r] THEN "complete"
       ELSE "failed"]
  /\ UNCHANGED <<view, wants, req, mode, pc, held, got>>

-----------------------------------------------------------------------------
(* The sender's scans *)

(* accept_reveal: the session and the commitment of the PAIR_REQ answered     *)
(* must match; a REVEAL of another session ends the send for good.            *)
ScanReveal(s, r) ==
  /\ pc[s] = "scanReveal"
  /\ r \in view[s] /\ ShowsReveal(r)
  /\ pc' = [pc EXCEPT ![s] =
       IF /\ SessionOf(s) = <<"receiver", r>>
          /\ verify_commit(SessionOf(s), REph(req[s]), <<"nonce", r>>,
                           commit(<<"receiver", req[s]>>, REph(req[s]), <<"nonce", req[s]>>))
       THEN "confirm" ELSE "aborted"]
  /\ UNCHANGED <<view, wants, req, mode, held, got, have, face>>

(* The person confirms only digits that agree on the two screens; release()   *)
(* lets the symbols out.                                                      *)
Confirm(s) ==
  /\ pc[s] = "confirm"
  /\ \E r \in Device :
       ShowsReveal(r) /\ got[r] # None /\ ReceiverDigits(r) = SenderDigits(s)
  /\ held' = [held EXCEPT ![s] = FALSE]
  /\ pc' = [pc EXCEPT ![s] = "scanComplete"]
  /\ UNCHANGED <<view, wants, req, mode, got, have, face>>

(* The plaintext a receiver has opened is its sender's. *)
HashAgrees(s, r) ==
  complete_hash(SessionOf(got[r]), got[r]) = complete_hash(SessionOf(s), s)

(* verify_complete compares the hash and nothing else: any device's COMPLETE  *)
(* ends the scan.                                                             *)
ScanComplete(s, r) ==
  /\ pc[s] = "scanComplete"
  /\ r \in view[s] /\ ShowsComplete(r)
  /\ pc' = [pc EXCEPT ![s] = IF HashAgrees(s, r) THEN "verified" ELSE "mismatch"]
  /\ UNCHANGED <<view, wants, req, mode, held, got, have, face>>

Next ==
  \E d \in Device :
    \/ ChooseEncrypted(d) \/ StartShowing(d) \/ Confirm(d)
    \/ \E m \in {"seal", "open"} : SendUnasked(d, m)
    \/ \E e \in Device :
         \/ Flip(d, e) \/ SeeBeacon(d, e) \/ SeeSymbol(d, e)
         \/ ScanReveal(d, e) \/ ScanComplete(d, e)

(* A screen in view keeps coming back to its beacon and its symbols, so a     *)
(* frame that stays readable is read; and a person who sees the digits agree  *)
(* says so.                                                                   *)
Fairness ==
  \A d \in Device :
    /\ WF_vars(StartShowing(d))
    /\ WF_vars(Confirm(d))
    /\ \A e \in Device :
         /\ WF_vars(SeeBeacon(d, e))
         /\ WF_vars(ScanReveal(d, e))
         /\ WF_vars(ScanComplete(d, e))
         /\ WF_vars(SeeSymbol(d, e))

Spec == Init /\ [][Next]_vars /\ Fairness

-----------------------------------------------------------------------------
(* Properties *)

(* Symbols leave a PAIR sender only for the receiver whose code it scanned,   *)
(* and only when that receiver is listening to this very sender: agreeing     *)
(* digits rule out every crossing of beacons and REVEALs in between.          *)
ReleasedToItsPeer ==
  \A s \in Device : mode[s] = "pair" /\ ~held[s] => got[req[s]] = s

(* Who is to read what s sends: the device whose PAIR_REQ it answered, the one *)
(* it sealed to, or anyone; and where identities count, the receiver must have *)
(* stored the sender's, or none if the sender has shown none.                  *)
Meant(s, r) ==
  CASE mode[s] = "pair" -> req[s] = r
    [] mode[s] = "session" -> req[s] = r /\ Peer[s] = r /\ Peer[r] = s
    [] mode[s] = "seal" -> /\ Peer[s] = r
                           /\ Peer[r] = IF s \in Identified THEN s ELSE None
    [] mode[s] = "open" -> TRUE
    [] OTHER -> FALSE

(* A payload opens only at a receiver it was meant for and, in SESSION and     *)
(* authenticated SEAL, only as coming from the device whose identity that      *)
(* receiver has stored: whichever beacon of whatever mode it took first, no    *)
(* other combination of ephemerals, identities and session derives the key.    *)
OnlyMeantOpens == \A r \in Device : face[r] = "complete" => Meant(got[r], r)

(* Senders that answered the same PAIR_REQ share its session id, and nothing  *)
(* but the session id is looked at when a symbol is absorbed: yet among them  *)
(* the receiver absorbs only what its own PAIR sender shows, because the      *)
(* others stay held.  A SESSION sender is not held, and its symbols do mix    *)
(* with another's; and so do they in a bystander that took the beacon of one  *)
(* sender of a session and sees the symbols of another, to no end.            *)
NeverMixed ==
  \A r \in Device : \A x \in have[r] :
    mode[x[1]] = "pair" /\ req[x[1]] = r => x[1] = got[r]

(* "Verified delivered. The receiver has exactly what you sent": some device  *)
(* has opened this sender's payload, the one it answered if it was paired.    *)
VerifiedMeansDelivered ==
  \A s \in Device : pc[s] = "verified" =>
    \E r \in Device : /\ face[r] = "complete" /\ got[r] = s
                      /\ req[s] # None => r = req[s]

(* Two devices facing each other and seeing no one else complete the transfer  *)
(* in every mode the two are equipped for, with its handshake if it has one,   *)
(* unless the receiver turns to sending: neither side waits for a frame the    *)
(* other withholds, and both derive one key from what the screens carried.     *)
LoneTransferDelivers ==
  \A s, r \in Device :
    (view[s] = {r} /\ view[r] = {s} /\ pc[s] \in {"scanReveal", "scanComplete"}
       /\ Meant(s, r) /\ (got[r] = None \/ got[r] = s) /\ Listening(r))
      ~> (pc[s] = "verified" \/ ~Resting(r))
=============================================================================
