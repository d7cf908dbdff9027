-------------------------------- MODULE Keys --------------------------------
(***************************************************************************)
(* Key agreement and the human-facing values of core/src/crypto.rs.        *)
(*                                                                         *)
(* The primitives are external and symbolic: a Diffie-Hellman value is the *)
(* unordered pair of the key pairs that computed it, a derived key or a    *)
(* hash is the record of everything that went into it, so two are equal    *)
(* exactly when their inputs are.  A public key is represented by its key  *)
(* pair.  What is translated is what the code feeds them, and in which     *)
(* order, on each of the two sides.                                        *)
(***************************************************************************)
CONSTANT None      \* an identity that is not there

dh(own, peer) == {own, peer}

hkdf32(ikm, salt, info) == [info |-> info, ikm |-> ikm, salt |-> salt]

(* Error::MissingIdentity. *)
NoKey == hkdf32(<<>>, <<>>, "none")

(* Mutant of derive_pair: the key depends on the session id alone. *)
PairOfSession(role, own, peer, sid) == hkdf32(<<>>, <<sid>>, "pair")

derive_pair(role, own, peer, sid) ==
  hkdf32(<<dh(own, peer)>>,
         IF role = "sender" THEN <<sid, peer, own>> ELSE <<sid, own, peer>>,
         "pair")

(* DH1 binds the receiver's identity, DH2 the sender's, DH3 is ephemeral. *)
derive_session(role, own_eph, own_id, peer_eph, peer_id, sid) ==
  LET dh3 == dh(own_eph, peer_eph)
  IN  IF role = "sender"
      THEN hkdf32(<<dh(own_eph, peer_id), dh(own_id, peer_eph), dh3>>,
                  <<sid, peer_eph, own_eph, peer_id, own_id>>, "session")
      ELSE hkdf32(<<dh(own_id, peer_eph), dh(own_eph, peer_id), dh3>>,
                  <<sid, own_eph, peer_eph, own_id, peer_id>>, "session")

seal_sender(s_eph, s_id, r_id) ==
  IF s_id = None
  THEN hkdf32(<<dh(s_eph, r_id)>>, <<s_eph, r_id>>, "seal")
  ELSE hkdf32(<<dh(s_eph, r_id), dh(s_id, r_id)>>, <<s_eph, r_id>>, "seal-auth")

(* Whether the sender is authenticated is read off the receiver's own store,  *)
(* not off the beacon's SENDER_AUTH flag.                                     *)
seal_receiver(r_id, s_eph, s_id) ==
  IF s_id = None
  THEN hkdf32(<<dh(r_id, s_eph)>>, <<s_eph, r_id>>, "seal")
  ELSE hkdf32(<<dh(r_id, s_eph), dh(r_id, s_id)>>, <<s_eph, r_id>>, "seal-auth")

derive_open(sid, s_eph) == hkdf32(<<"no-confidentiality">>, <<sid, s_eph>>, "open")

(* In SEAL the receiver's own_eph is its identity: derive_and_set passes it.  *)
derive_for_mode(mode, role, own_eph, own_id, peer_eph, peer_id, sid) ==
  CASE mode = "pair" -> derive_pair(role, own_eph, peer_eph, sid)
    [] mode = "session" ->
         IF own_id = None \/ peer_id = None THEN NoKey
         ELSE derive_session(role, own_eph, own_id, peer_eph, peer_id, sid)
    [] mode = "seal" /\ role = "sender" ->
         IF peer_id = None THEN NoKey ELSE seal_sender(own_eph, own_id, peer_id)
    [] mode = "seal" /\ role = "receiver" -> seal_receiver(own_eph, peer_eph, peer_id)
    [] mode = "open" -> derive_open(sid, IF role = "sender" THEN own_eph ELSE peer_eph)

commit(sid, r_eph, r_nonce) == [of |-> "commit", data |-> <<sid, r_eph, r_nonce>>]

verify_commit(sid, r_eph, r_nonce, claimed) == commit(sid, r_eph, r_nonce) = claimed

(* Mutant of sas: the digits do not cover the sender's ephemeral key. *)
SasSenderless(sid, r_eph, s_eph, r_nonce) == [of |-> "sas", data |-> <<sid, r_eph, r_nonce>>]

sas(sid, r_eph, s_eph, r_nonce) == [of |-> "sas", data |-> <<sid, r_eph, s_eph, r_nonce>>]

(* Mutant of complete_hash: the hash covers the session alone. *)
HashOfSession(sid, plaintext) == [of |-> "complete", data |-> <<sid>>]

complete_hash(sid, plaintext) == [of |-> "complete", data |-> <<sid, plaintext>>]

(* The harness derives both keys of a transfer between peers p: each with its *)
(* two ephemerals and both identities.                                        *)
keys_for(mode, p) ==
  CASE mode = "pair" ->
         <<derive_pair("sender", p.s_eph, p.r_eph, p.sid),
           derive_pair("receiver", p.r_eph, p.s_eph, p.sid)>>
    [] mode = "session" ->
         <<derive_session("sender", p.s_eph, p.s_id, p.r_eph, p.r_id, p.sid),
           derive_session("receiver", p.r_eph, p.r_id, p.s_eph, p.s_id, p.sid)>>
    [] mode = "seal" ->
         <<seal_sender(p.s_eph, p.s_id, p.r_id), seal_receiver(p.r_id, p.s_eph, p.s_id)>>
    [] mode = "open" -> <<derive_open(p.sid, p.s_eph), derive_open(p.sid, p.s_eph)>>
=============================================================================
