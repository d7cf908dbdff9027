--------------------------- MODULE Pairing_proof ---------------------------
(***************************************************************************)
(* Proofs about key agreement and the handshake, for any number of devices *)
(* with any views of each other's screens, any stored identities, and      *)
(* transfers of every mode at once.  The primitives are symbolic, so what  *)
(* is proved is that the code feeds them enough.                           *)
(***************************************************************************)
EXTENDS Pairing, TLAPS, FiniteSetTheorems

-----------------------------------------------------------------------------
(* Keys *)

LEMMA DhCommutes ==
  ASSUME NEW a, NEW b
  PROVE  dh(a, b) = dh(b, a)
BY DEF dh

(* Between peers that hold each other's public keys, sender and receiver      *)
(* derive one key, in every mode ("PAIR must agree", "SESSION must agree",    *)
(* "SEAL must agree" of the harness).                                         *)
THEOREM PeersAgree ==
  ASSUME NEW m \in {"pair", "session", "seal", "open"}, NEW p
  PROVE  keys_for(m, p)[1] = keys_for(m, p)[2]
<1>1. CASE m = "pair"
  BY <1>1, DhCommutes DEF keys_for, derive_pair
<1>2. CASE m = "session"
  <2>1. /\ dh(p.s_eph, p.r_id) = dh(p.r_id, p.s_eph)
        /\ dh(p.s_id, p.r_eph) = dh(p.r_eph, p.s_id)
        /\ dh(p.s_eph, p.r_eph) = dh(p.r_eph, p.s_eph)
    BY DhCommutes
  <2>. QED
    BY <1>2, <2>1 DEF keys_for, derive_session
<1>3. CASE m = "seal"
  <2>1. /\ dh(p.s_eph, p.r_id) = dh(p.r_id, p.s_eph)
        /\ dh(p.s_id, p.r_id) = dh(p.r_id, p.s_id)
    BY DhCommutes
  <2>. QED
    BY <1>3, <2>1 DEF keys_for, seal_sender, seal_receiver
<1>4. CASE m = "open"
  BY <1>4 DEF keys_for
<1>. QED
  BY <1>1, <1>2, <1>3, <1>4

(* The key of the second of two equal pairs is that of the first.             *)
LEMMA DhOfOne ==
  ASSUME NEW a, NEW b, NEW c, dh(a, b) = dh(b, c)
  PROVE  a = c
BY DEF dh

(* A receiver that derives its sender's key is the one the sender meant it    *)
(* for, in each mode: the salt holds both ephemerals, and both identities     *)
(* where they count.                                                          *)
LEMMA PairKeyMeans ==
  ASSUME NEW r \in Device, NEW s \in Device, mode[s] = "pair",
         ReceiverKey(r, s) = SenderKey(s)
  PROVE  req[s] = r
<1>1. ReceiverKey(r, s).salt = <<SessionOf(s), REph(r), SEph(s)>>
  BY DEF ReceiverKey, derive_for_mode, derive_pair, hkdf32
<1>2. SenderKey(s).salt = <<SessionOf(s), REph(req[s]), SEph(s)>>
  BY DEF SenderKey, derive_for_mode, derive_pair, hkdf32
<1>. QED
  BY <1>1, <1>2 DEF REph

LEMMA SessionKeyMeans ==
  ASSUME NEW r \in Device, NEW s \in Device, mode[s] = "session",
         ReceiverKey(r, s) = SenderKey(s), ReceiverKey(r, s) # NoKey
  PROVE  req[s] = r /\ Peer[s] = r /\ Peer[r] = s
<1>1. /\ Id(r) # None /\ PeerId(r) # None
      /\ ReceiverKey(r, s)
           = derive_session("receiver", REph(r), Id(r), SEph(s), PeerId(r), SessionOf(s))
  BY DEF ReceiverKey, derive_for_mode
<1>2. /\ Id(s) # None /\ Known(s, req[s]) # None
      /\ SenderKey(s)
           = derive_session("sender", SEph(s), Id(s), REph(req[s]), Known(s, req[s]), SessionOf(s))
  BY DEF SenderKey, derive_for_mode
<1>3. ReceiverKey(r, s).salt = <<SessionOf(s), REph(r), SEph(s), Id(r), PeerId(r)>>
  BY <1>1 DEF derive_session, hkdf32
<1>4. SenderKey(s).salt = <<SessionOf(s), REph(req[s]), SEph(s), Known(s, req[s]), Id(s)>>
  BY <1>2 DEF derive_session, hkdf32
<1>5. req[s] = r /\ PeerId(r) = Id(s)
  BY <1>3, <1>4 DEF REph
<1>6. Peer[s] = r
  BY <1>2, <1>5 DEF Known
<1>7. Peer[r] = s
  BY <1>1, <1>2, <1>5 DEF PeerId, Id
<1>. QED
  BY <1>5, <1>6, <1>7

LEMMA SealKeyMeans ==
  ASSUME NEW r \in Device, NEW s \in Device, mode[s] = "seal",
         ReceiverKey(r, s) = SenderKey(s), ReceiverKey(r, s) # NoKey
  PROVE  Peer[s] = r /\ Peer[r] = IF s \in Identified THEN s ELSE None
<1>1. Id(r) # None /\ ReceiverKey(r, s) = seal_receiver(Id(r), SEph(s), PeerId(r))
  BY DEF ReceiverKey, derive_for_mode
<1>2. SenderKey(s) = seal_sender(SEph(s), Id(s), PeerId(s))
  BY DEF SenderKey
<1>3. /\ ReceiverKey(r, s).salt = <<SEph(s), Id(r)>>
      /\ ReceiverKey(r, s).info = IF PeerId(r) = None THEN "seal" ELSE "seal-auth"
      /\ PeerId(r) # None =>
           ReceiverKey(r, s).ikm = <<dh(Id(r), SEph(s)), dh(Id(r), PeerId(r))>>
  BY <1>1 DEF seal_receiver, hkdf32
<1>4. /\ SenderKey(s).salt = <<SEph(s), PeerId(s)>>
      /\ SenderKey(s).info = IF Id(s) = None THEN "seal" ELSE "seal-auth"
      /\ Id(s) # None =>
           SenderKey(s).ikm = <<dh(SEph(s), PeerId(s)), dh(Id(s), PeerId(s))>>
  BY <1>2 DEF seal_sender, hkdf32
<1>5. PeerId(s) = Id(r)
  BY <1>3, <1>4
<1>6. Peer[s] = r
  BY <1>1, <1>5 DEF PeerId, Id
<1>7. (Id(s) = None) <=> (PeerId(r) = None)
  BY <1>3, <1>4
<1>8. CASE Id(s) = None
  <2>1. s \notin Identified
    BY <1>8, PairingAssumption DEF Id
  <2>2. PeerId(r) = None
    BY <1>7, <1>8
  <2>3. Peer[r] \notin Identified
    BY <2>2, PairingAssumption DEF PeerId, Id
  <2>. QED
    BY <1>6, <2>1, <2>3, PairingAssumption
<1>9. CASE Id(s) # None
  <2>1. dh(Id(s), Id(r)) = dh(Id(r), PeerId(r))
    BY <1>3, <1>4, <1>5, <1>7, <1>9
  <2>2. Id(s) = PeerId(r)
    BY <2>1, DhOfOne
  <2>3. s \in Identified /\ Peer[r] = s
    BY <1>9, <2>2 DEF PeerId, Id
  <2>. QED
    BY <1>6, <2>3
<1>. QED
  BY <1>8, <1>9

LEMMA KeyMeans ==
  ASSUME TypeOK, NEW r \in Device, NEW s \in Device, mode[s] # "none",
         ReceiverKey(r, s) = SenderKey(s), ReceiverKey(r, s) # NoKey
  PROVE  Meant(s, r)
<1>1. mode[s] \in {"pair", "session", "seal", "open"}
  BY DEF TypeOK
<1>. QED
  BY <1>1, PairKeyMeans, SessionKeyMeans, SealKeyMeans DEF Meant

(* Agreeing digits name both devices.                                         *)
LEMMA DigitsName ==
  ASSUME NEW r \in Device, NEW s \in Device, ReceiverDigits(r) = SenderDigits(s)
  PROVE  r = req[s] /\ got[r] = s
<1>1. ReceiverDigits(r).data = <<SessionOf(got[r]), REph(r), SEph(got[r]), <<"nonce", r>>>>
  BY DEF ReceiverDigits, sas
<1>2. SenderDigits(s).data
        = <<<<"receiver", req[s]>>, REph(req[s]), SEph(s), <<"nonce", req[s]>>>>
  BY DEF SenderDigits, sas
<1>. QED
  BY <1>1, <1>2 DEF REph, SEph

-----------------------------------------------------------------------------
(* The invariant *)

(* What a receiver has taken came from a device that sends, and a device that *)
(* sends keeps its mode and its receiver: a device that rests can still turn  *)
(* into any sender.                                                           *)
FromSenders ==
  \A r \in Device :
    /\ got[r] # None => mode[got[r]] # "none"
    /\ \A x \in have[r] : mode[x[1]] # "none"
    /\ face[r] = "complete" => got[r] # None

(* A receiver has counted what it holds, one id at a time.                    *)
Counted == \A r \in Device : IsFiniteSet(have[r])

IInv ==
  /\ TypeOK
  /\ Counted
  /\ FromSenders
  /\ ReleasedToItsPeer
  /\ NeverMixed
  /\ OnlyMeantOpens
  /\ VerifiedMeansDelivered

LEMMA InitIInv == Init => IInv
<1>. SUFFICES ASSUME Init PROVE IInv
  OBVIOUS
<1>. USE PairingAssumption DEF Init
<1>1. TypeOK
  BY DEF TypeOK
<1>2. FromSenders /\ NeverMixed /\ Counted
  BY FS_EmptySet DEF FromSenders, NeverMixed, Counted
<1>3. ReleasedToItsPeer
  BY DEF ReleasedToItsPeer
<1>4. OnlyMeantOpens
  BY DEF OnlyMeantOpens
<1>5. VerifiedMeansDelivered
  BY DEF VerifiedMeansDelivered
<1>. QED
  BY <1>1, <1>2, <1>3, <1>4, <1>5 DEF IInv

(* Type correctness, action by action.                                        *)
LEMMA TypePreserved ==
  ASSUME TypeOK, Counted, [Next]_vars
  PROVE  TypeOK'
<1>. USE PairingAssumption DEF TypeOK
<1>1. ASSUME NEW d \in Device, ChooseEncrypted(d) PROVE TypeOK'
  BY <1>1 DEF ChooseEncrypted
<1>2. ASSUME NEW d \in Device, StartShowing(d) PROVE TypeOK'
  BY <1>2 DEF StartShowing
<1>3. ASSUME NEW d \in Device, Confirm(d) PROVE TypeOK'
  BY <1>3 DEF Confirm
<1>4. ASSUME NEW d \in Device, NEW m \in {"seal", "open"}, SendUnasked(d, m) PROVE TypeOK'
  BY <1>4 DEF SendUnasked, Resting
<1>5. ASSUME NEW d \in Device, NEW e \in Device, Flip(d, e) PROVE TypeOK'
  BY <1>5 DEF Flip, Listening, Resting
<1>6. ASSUME NEW d \in Device, NEW e \in Device, SeeBeacon(d, e) PROVE TypeOK'
  BY <1>6 DEF SeeBeacon
<1>7. ASSUME NEW d \in Device, NEW e \in Device, SeeSymbol(d, e) PROVE TypeOK'
  <2>1. Cardinality(have[d]) \in Nat /\ Cardinality(have[d]) < K
    BY <1>7, FS_CardinalityType DEF SeeSymbol, Counted
  <2>2. <<e, Cardinality(have[d]) + 1>> \in Device \X (1..K)
    BY <2>1
  <2>. QED
    BY <1>7, <2>2 DEF SeeSymbol
<1>8. ASSUME NEW d \in Device, NEW e \in Device, ScanReveal(d, e) PROVE TypeOK'
  BY <1>8 DEF ScanReveal
<1>9. ASSUME NEW d \in Device, NEW e \in Device, ScanComplete(d, e) PROVE TypeOK'
  BY <1>9 DEF ScanComplete
<1>10. CASE UNCHANGED vars
  BY <1>10 DEF vars
<1>. QED
  BY <1>1, <1>2, <1>3, <1>4, <1>5, <1>6, <1>7, <1>8, <1>9, <1>10 DEF Next

LEMMA CountedPreserved ==
  ASSUME TypeOK, Counted, [Next]_vars
  PROVE  Counted'
<1>1. ASSUME NEW d \in Device, NEW e \in Device, SeeSymbol(d, e) PROVE Counted'
  <2>1. ASSUME NEW r \in Device PROVE IsFiniteSet(have'[r])
    <3>1. CASE r = d
      BY <1>1, <3>1, FS_AddElement DEF SeeSymbol, TypeOK, Counted
    <3>2. CASE r # d
      BY <1>1, <3>2 DEF SeeSymbol, TypeOK, Counted
    <3>. QED
      BY <3>1, <3>2
  <2>. QED
    BY <2>1 DEF Counted
<1>2. CASE UNCHANGED have
  BY <1>2 DEF Counted
<1>. QED
  BY <1>1, <1>2, ZenonT(60) DEF Next, ChooseEncrypted, StartShowing, Confirm, SendUnasked,
                                Flip, SeeBeacon, ScanReveal, ScanComplete, vars

(* Which actions touch what a receiver has, and which a sender's state.       *)
LEMMA ReceiverSteps ==
  ASSUME [Next]_vars
  PROVE  \/ UNCHANGED <<got, have, face>>
         \/ \E r, s \in Device : SeeBeacon(r, s)
         \/ \E r, s \in Device : SeeSymbol(r, s)
BY ZenonT(60) DEF Next, ChooseEncrypted, StartShowing, Confirm, SendUnasked, Flip,
                  ScanReveal, ScanComplete, vars

LEMMA SenderSteps ==
  ASSUME [Next]_vars
  PROVE  \/ UNCHANGED <<req, mode, held>>
         \/ \E d \in Device, m \in {"seal", "open"} : SendUnasked(d, m)
         \/ \E d, e \in Device : Flip(d, e)
         \/ \E s \in Device : Confirm(s)
BY ZenonT(60) DEF Next, ChooseEncrypted, StartShowing, SeeBeacon, SeeSymbol, ScanReveal,
                  ScanComplete, vars

LEMMA ScanSteps ==
  ASSUME TypeOK, [Next]_vars, NEW s \in Device, pc'[s] = "verified", pc[s] # "verified"
  PROVE  \E r \in Device : ScanComplete(s, r)
<1>1. CASE \E d, r \in Device : ScanComplete(d, r)
  BY <1>1 DEF ScanComplete, TypeOK
<1>2. CASE \E d, r \in Device : ScanReveal(d, r)
  BY <1>2 DEF ScanReveal, TypeOK
<1>3. CASE \E d \in Device : StartShowing(d) \/ Confirm(d)
  BY <1>3 DEF StartShowing, Confirm, TypeOK
<1>4. CASE \E d \in Device : \/ \E e \in Device : Flip(d, e)
                             \/ \E m \in {"seal", "open"} : SendUnasked(d, m)
  BY <1>4 DEF Flip, SendUnasked, TypeOK
<1>5. CASE UNCHANGED pc
  BY <1>5
<1>. QED
  BY <1>1, <1>2, <1>3, <1>4, <1>5 DEF Next, ChooseEncrypted, SeeBeacon, SeeSymbol, vars

(* A device that sends is settled: nothing changes its mode or the PAIR_REQ   *)
(* it answered.                                                               *)
LEMMA SendersSettled ==
  ASSUME TypeOK, [Next]_vars, NEW s \in Device, mode[s] # "none"
  PROVE  mode'[s] = mode[s] /\ req'[s] = req[s]
<1>1. CASE UNCHANGED <<req, mode, held>>
  BY <1>1
<1>2. CASE \E d \in Device, m \in {"seal", "open"} : SendUnasked(d, m)
  BY <1>2 DEF SendUnasked, Resting, TypeOK
<1>3. CASE \E d, e \in Device : Flip(d, e)
  BY <1>3 DEF Flip, Listening, Resting, TypeOK
<1>4. CASE \E d \in Device : Confirm(d)
  BY <1>4 DEF Confirm
<1>. QED
  BY <1>1, <1>2, <1>3, <1>4, SenderSteps

(* A beacon, once taken, is never exchanged for another.                      *)
LEMMA BeaconsKept ==
  ASSUME TypeOK, [Next]_vars, NEW r \in Device, got[r] # None
  PROVE  got'[r] = got[r]
BY ReceiverSteps DEF TypeOK, SeeBeacon, SeeSymbol

(* Only a beacon fills in what a receiver follows, and only a symbol adds to  *)
(* what it holds or completes it.                                             *)
LEMMA OnlyBeaconsAreFollowed ==
  ASSUME TypeOK, [Next]_vars, NEW r \in Device, got'[r] # None, got[r] = None
  PROVE  \E s \in Device : SeeBeacon(r, s)
BY ReceiverSteps DEF TypeOK, SeeBeacon, SeeSymbol

LEMMA OnlySymbolsAdd ==
  ASSUME TypeOK, [Next]_vars, NEW r \in Device, NEW x \in have'[r], x \notin have[r]
  PROVE  \E s \in Device : SeeSymbol(r, s) /\ x[1] = s
<1>1. PICK d \in Device, s \in Device : SeeSymbol(d, s)
  BY ReceiverSteps DEF SeeBeacon
<1>2. have' = [have EXCEPT ![d] = @ \cup {<<s, Cardinality(@) + 1>>}]
  BY <1>1 DEF SeeSymbol
<1>3. d = r
  BY <1>2 DEF TypeOK
<1>4. x = <<s, Cardinality(have[r]) + 1>>
  BY <1>2, <1>3 DEF TypeOK
<1>. QED
  BY <1>1, <1>3, <1>4

LEMMA OnlySymbolsComplete ==
  ASSUME TypeOK, [Next]_vars, NEW r \in Device,
         face'[r] = "complete", face[r] # "complete"
  PROVE  \E s \in Device : SeeSymbol(r, s)
<1>1. CASE \E d, s \in Device : SeeBeacon(d, s)
  BY <1>1 DEF SeeBeacon, TypeOK
<1>2. CASE \E d, s \in Device : SeeSymbol(d, s)
  <2>1. PICK d \in Device, s \in Device : SeeSymbol(d, s)
    BY <1>2
  <2>2. d = r
    BY <2>1 DEF SeeSymbol, TypeOK
  <2>. QED
    BY <2>1, <2>2
<1>. QED
  BY <1>1, <1>2, ReceiverSteps

(* A face that shows a delivery goes on showing it. *)
LEMMA CompleteStays ==
  ASSUME TypeOK, [Next]_vars, NEW r \in Device, face[r] = "complete"
  PROVE  face'[r] = "complete"
BY ReceiverSteps DEF TypeOK, Listening, SeeBeacon, SeeSymbol

-----------------------------------------------------------------------------
(* Each part of the invariant, from what disturbs it *)

LEMMA FromSendersPreserved ==
  ASSUME IInv, [Next]_vars
  PROVE  FromSenders'
<1>. USE DEF IInv
<1>1. ASSUME NEW r \in Device, got'[r] # None PROVE mode'[got'[r]] # "none"
  <2>1. CASE got[r] # None
    BY <2>1, BeaconsKept, SendersSettled DEF FromSenders, TypeOK
  <2>2. CASE got[r] = None
    <3>1. PICK s \in Device : SeeBeacon(r, s)
      BY <1>1, <2>2, OnlyBeaconsAreFollowed
    <3>. QED
      BY <3>1 DEF SeeBeacon, ShowsBeacon, OnScreen, TypeOK
  <2>. QED
    BY <2>1, <2>2
<1>2. ASSUME NEW r \in Device, NEW x \in have'[r] PROVE mode'[x[1]] # "none"
  <2>1. CASE x \in have[r]
    <3>1. x[1] \in Device /\ mode[x[1]] # "none"
      BY <2>1 DEF FromSenders, TypeOK
    <3>. QED
      BY <3>1, SendersSettled
  <2>2. CASE x \notin have[r]
    <3>1. PICK s \in Device : SeeSymbol(r, s) /\ x[1] = s
      BY <2>2, OnlySymbolsAdd
    <3>. QED
      BY <3>1 DEF SeeSymbol, ShowsSymbols, OnScreen, TypeOK
  <2>. QED
    BY <2>1, <2>2
<1>3. ASSUME NEW r \in Device, face'[r] = "complete" PROVE got'[r] # None
  <2>1. CASE face[r] = "complete"
    BY <2>1, BeaconsKept DEF FromSenders
  <2>2. CASE face[r] # "complete"
    BY <1>3, <2>2, OnlySymbolsComplete DEF SeeSymbol
  <2>. QED
    BY <2>1, <2>2
<1>. QED
  BY <1>1, <1>2, <1>3 DEF FromSenders

(* Only a person who sees the digits agree releases a PAIR sender.            *)
LEMMA ReleasePreserved ==
  ASSUME IInv, [Next]_vars
  PROVE  ReleasedToItsPeer'
<1>. USE DEF IInv
<1>. SUFFICES ASSUME NEW s \in Device, mode'[s] = "pair", ~held'[s]
              PROVE  got'[req'[s]] = s
  BY DEF ReleasedToItsPeer
<1>1. CASE mode[s] = "pair" /\ ~held[s]
  <2>1. req'[s] = req[s] /\ req[s] \in Device
    BY <1>1, SendersSettled DEF TypeOK
  <2>2. got[req[s]] = s
    BY <1>1 DEF ReleasedToItsPeer
  <2>. QED
    BY <2>1, <2>2, BeaconsKept, PairingAssumption
<1>2. CASE ~(mode[s] = "pair" /\ ~held[s])
  <2>1. CASE \E d \in Device : Confirm(d)
    <3>1. Confirm(s)
      <4>1. PICK d \in Device : Confirm(d)
        BY <2>1
      <4>2. mode' = mode /\ held' = [held EXCEPT ![d] = FALSE]
        BY <4>1 DEF Confirm
      <4>3. d = s
        BY <1>2, <4>2 DEF TypeOK
      <4>. QED
        BY <4>1, <4>3
    <3>2. PICK r \in Device : ReceiverDigits(r) = SenderDigits(s)
      BY <3>1 DEF Confirm
    <3>. QED
      BY <3>1, <3>2, DigitsName DEF Confirm
  <2>2. CASE \E d, e \in Device : Flip(d, e)
    <3>1. PICK d \in Device, e \in Device : Flip(d, e)
      BY <2>2
    <3>2. /\ held'[d] = (mode'[d] = "pair")
          /\ s # d => mode'[s] = mode[s] /\ held'[s] = held[s]
      BY <3>1 DEF Flip, TypeOK
    <3>. QED
      BY <1>2, <3>2
  <2>3. CASE \E d \in Device, m \in {"seal", "open"} : SendUnasked(d, m)
    BY <1>2, <2>3 DEF SendUnasked, TypeOK
  <2>. QED
    BY <1>2, <2>1, <2>2, <2>3, SenderSteps
<1>. QED
  BY <1>1, <1>2

LEMMA MixPreserved ==
  ASSUME IInv, [Next]_vars
  PROVE  NeverMixed'
<1>. USE DEF IInv
<1>. SUFFICES ASSUME NEW r \in Device, NEW x \in have'[r],
                     mode'[x[1]] = "pair", req'[x[1]] = r
              PROVE  x[1] = got'[r]
  BY DEF NeverMixed
<1>1. CASE x \in have[r]
  <2>1. x[1] \in Device /\ mode[x[1]] # "none"
    BY <1>1 DEF FromSenders, TypeOK
  <2>2. x[1] = got[r]
    BY <1>1, <2>1, SendersSettled DEF NeverMixed
  <2>. QED
    BY <2>1, <2>2, BeaconsKept, PairingAssumption
<1>2. CASE x \notin have[r]
  <2>1. PICK s \in Device : SeeSymbol(r, s) /\ x[1] = s
    BY <1>2, OnlySymbolsAdd
  <2>2. mode[s] = "pair" /\ req[s] = r /\ ~held[s] /\ got'[r] = got[r]
    BY <2>1 DEF SeeSymbol, ShowsSymbols
  <2>. QED
    BY <2>1, <2>2 DEF ReleasedToItsPeer
<1>. QED
  BY <1>1, <1>2

LEMMA MeantPreserved ==
  ASSUME IInv, [Next]_vars
  PROVE  OnlyMeantOpens'
<1>. USE DEF IInv
<1>. SUFFICES ASSUME NEW r \in Device, face'[r] = "complete"
              PROVE  Meant(got[r], r)' 
  BY DEF OnlyMeantOpens, Meant
<1>1. CASE face[r] = "complete"
  <2>1. /\ got[r] \in Device /\ mode[got[r]] # "none"
        /\ Meant(got[r], r) /\ got'[r] = got[r]
    BY <1>1, BeaconsKept DEF FromSenders, OnlyMeantOpens, TypeOK
  <2>. QED
    BY <2>1, SendersSettled DEF Meant
<1>2. CASE face[r] # "complete"
  <2>1. PICK s \in Device : SeeSymbol(r, s)
    BY <1>2, OnlySymbolsComplete
  <2>2. /\ got[r] \in Device /\ mode[got[r]] # "none"
        /\ got' = got /\ mode' = mode /\ req' = req
    BY <2>1 DEF SeeSymbol, FromSenders, TypeOK
  <2>3. ReceiverKey(r, got[r]) = SenderKey(got[r]) /\ ReceiverKey(r, got[r]) # NoKey
    BY <1>2, <2>1 DEF SeeSymbol, TypeOK
  <2>4. Meant(got[r], r)
    BY <2>2, <2>3, KeyMeans
  <2>. QED
    BY <2>2, <2>4 DEF Meant
<1>. QED
  BY <1>1, <1>2

(* The hash names the payload, and only one it was meant for has opened it.   *)
LEMMA VerifiedPreserved ==
  ASSUME IInv, [Next]_vars
  PROVE  VerifiedMeansDelivered'
<1>. USE DEF IInv
<1>. SUFFICES ASSUME NEW s \in Device, pc'[s] = "verified"
              PROVE  \E r \in Device : /\ face'[r] = "complete" /\ got'[r] = s
                                       /\ req'[s] # None => r = req'[s]
  BY DEF VerifiedMeansDelivered
<1>1. ASSUME NEW r \in Device, face[r] = "complete", got[r] = s, mode[s] # "none",
             req[s] # None => r = req[s]
      PROVE  face'[r] = "complete" /\ got'[r] = s /\ (req'[s] # None => r = req'[s])
  BY <1>1, CompleteStays, BeaconsKept, SendersSettled, PairingAssumption
<1>2. CASE pc[s] = "verified"
  <2>1. mode[s] # "none"
    BY <1>2 DEF TypeOK
  <2>. QED
    BY <1>1, <1>2, <2>1 DEF VerifiedMeansDelivered
<1>3. CASE pc[s] # "verified"
  <2>1. PICK r \in Device : ScanComplete(s, r)
    BY <1>3, ScanSteps
  <2>2. HashAgrees(s, r) /\ face[r] = "complete" /\ mode[s] # "none"
    BY <1>3, <2>1 DEF ScanComplete, ShowsComplete, TypeOK
  <2>3. /\ complete_hash(SessionOf(got[r]), got[r]).data = <<SessionOf(got[r]), got[r]>>
        /\ complete_hash(SessionOf(s), s).data = <<SessionOf(s), s>>
    BY DEF complete_hash
  <2>4. got[r] = s
    BY <2>2, <2>3 DEF HashAgrees
  <2>5. req[s] # None => r = req[s]
    BY <2>2, <2>4 DEF OnlyMeantOpens, Meant, TypeOK
  <2>. QED
    BY <1>1, <2>2, <2>4, <2>5
<1>. QED
  BY <1>2, <1>3

LEMMA StepIInv == IInv /\ [Next]_vars => IInv'
BY TypePreserved, CountedPreserved, FromSendersPreserved, ReleasePreserved, MixPreserved,
   MeantPreserved, VerifiedPreserved DEF IInv

-----------------------------------------------------------------------------
(* Theorems *)

(* The handshake's invariant holds throughout. *)
THEOREM Invariance == Spec => []IInv
BY InitIInv, StepIInv, PTL DEF Spec

(* Every field keeps its type, a send its mode and a PAIR or SESSION send the *)
(* PAIR_REQ it answered.                                                      *)
THEOREM TypeCorrect == Spec => []TypeOK
<1>1. IInv => TypeOK
  BY DEF IInv
<1>. QED
  BY Invariance, <1>1, PTL

(* A PAIR sender is released only while the receiver whose code it scanned is *)
(* listening to it.                                                           *)
THEOREM ReleaseIsToThePeer == Spec => []ReleasedToItsPeer
<1>1. IInv => ReleasedToItsPeer
  BY DEF IInv
<1>. QED
  BY Invariance, <1>1, PTL

(* Among the PAIR senders that answered a receiver, only the one it follows   *)
(* ever reaches its decoder.                                                  *)
THEOREM PairsNeverMix == Spec => []NeverMixed
<1>1. IInv => NeverMixed
  BY DEF IInv
<1>. QED
  BY Invariance, <1>1, PTL

(* A payload opens only where it was meant to, in every mode. *)
THEOREM OnlyTheMeantOpen == Spec => []OnlyMeantOpens
<1>1. IInv => OnlyMeantOpens
  BY DEF IInv
<1>. QED
  BY Invariance, <1>1, PTL

(* A sender that reports a verified delivery has had one. *)
THEOREM VerifiedIsDelivered == Spec => []VerifiedMeansDelivered
<1>1. IInv => VerifiedMeansDelivered
  BY DEF IInv
<1>. QED
  BY Invariance, <1>1, PTL
=============================================================================
