------------------------------- MODULE Parcel -------------------------------
(***************************************************************************)
(* One file on its way through the bytes: enveloped (Payload), compressed  *)
(* or not, sealed, cut into packets, packed into frames (Wire) as large as *)
(* the rung carries (Qr), filmed, decoded, put together, opened, inflated  *)
(* and unwrapped.                                                          *)
(*                                                                         *)
(* What the camera hands over is a frame some screen shows, or a damaged   *)
(* one: cut short, with bytes to spare, torn between two frames, or of     *)
(* another version.  Compression, sealing and RaptorQ are external: what   *)
(* their bytes are named by is what went into them, and of the packets     *)
(* only the source symbols are here.                                       *)
(***************************************************************************)
EXTENDS Wire, Payload, Qr

CONSTANTS
  File,        \* [enveloped, body, name, mime, auth]: what may be staged
  Mtu,         \* CodecParams.symbol_size
  Cuts         \* where a camera's frame may break off

(* symbol_size is a u16, and RaptorQ wants eight bytes of it at least.        *)
ASSUME ParcelAssumption == Mtu \in 8..65535 /\ Cuts \subseteq Nat

VARIABLES
  file,        \* what the sender is sending, or None
  tx,          \* its Transmitter: the beacon and the packets, by payload id
  beacon,      \* the beacon the receiver decoded, or None
  got,         \* the packets it decoded
  out,         \* what it delivered, or None
  scanned      \* what another device's scan decoded last, or None

vars == <<qrvars, file, tx, beacon, got, out, scanned>>

Init ==
  /\ QrInit
  /\ file = None
  /\ tx = [beacon |-> None, packets |-> <<>>]
  /\ beacon = None
  /\ got = {}
  /\ out = None
  /\ scanned = None

-----------------------------------------------------------------------------
(* Compression *)

MIN_COMPRESS_BYTES == 256

(* Some of the magics that open an already compressed container, and the two  *)
(* families told by four bytes further in.                                    *)
Ascii(codes) == [i \in DOMAIN codes |-> Byte(codes[i])]
JPEG == Ascii(<<255, 216, 255>>)
GZIP == Ascii(<<31, 139>>)
FTYP == Ascii(<<102, 116, 121, 112>>)
RIFF == Ascii(<<82, 73, 70, 70>>)
WAVE == Ascii(<<87, 65, 86, 69>>)

is_already_compressed(b) ==
  \/ IsPrefix(JPEG, b) \/ IsPrefix(GZIP, b)
  \/ Len(b) >= 12 /\ Slice(b, 4, 8) = FTYP
  \/ Len(b) >= 12 /\ Slice(b, 0, 4) = RIFF /\ Slice(b, 8, 12) # WAVE

(* Deflate: the fewer different bytes, the shorter. *)
deflate(b) == [i \in 1..(Cardinality(Range(b)) + 4) |-> <<i, b, "deflate">>]

(* Taken only when it saves more than a thirty-second. *)
maybe_compress(plain) ==
  IF \/ Len(plain) < MIN_COMPRESS_BYTES
     \/ is_already_compressed(plain)
     \/ Len(deflate(plain)) + Len(plain) \div 32 >= Len(plain)
  THEN [body |-> plain, compressed |-> FALSE]
  ELSE [body |-> deflate(plain), compressed |-> TRUE]

(* Only deflated bytes inflate. *)
maybe_decompress(body, compressed) ==
  IF ~compressed THEN body
  ELSE IF body # <<>> /\ Len(body[1]) = 3 /\ deflate(body[1][2]) = body THEN body[1][2]
  ELSE None

-----------------------------------------------------------------------------
(* Sending: Transmitter::new *)

Plaintext(f) == IF f.enveloped THEN wrap(f.body, f.name, f.mime) ELSE f.body

SessionId == Fill(11, 8)

Draft(f) ==
  [type |-> BEACON, mode |-> 1,
   flags |-> (IF maybe_compress(Plaintext(f)).compressed THEN COMPRESSED ELSE 0)
             + (IF f.auth THEN SENDER_AUTH ELSE 0),
   session_id |-> SessionId, s_eph_pub |-> Fill(12, 32), nonce |-> Fill(13, 24),
   plaintext_len |-> Len(Plaintext(f)), oti |-> [i \in 1..12 |-> Byte(0)],
   symbol_size |-> Mtu, palette |-> 0, tile_px |-> 8, build_hash |-> Fill(14, 8)]

(* XChaCha20-Poly1305: sixteen bytes longer, bound to the aad.  A byte is     *)
(* named by its place, the file it seals and the aad.                         *)
encrypt(f, ad) == [i \in 1..(Len(maybe_compress(Plaintext(f)).body) + 16) |-> <<i, f, ad>>]

decrypt(ct, ad) ==
  IF ct # <<>> /\ Len(ct[1]) = 3 /\ ct = encrypt(ct[1][2], ad)
  THEN maybe_compress(Plaintext(ct[1][2])).body ELSE None

Ciphertext(f) == encrypt(f, aad(Draft(f)))

(* RaptorQ aligns the symbol size to eight bytes, and describes the object in *)
(* twelve: its length in five, big-endian, then the symbol size in two.       *)
SymbolSize(mtu) == mtu - (mtu % 8)
Oti(ct) ==
  <<Byte(0)>> \o Reverse(u32_bytes(Len(ct))) \o <<Byte(0)>>
  \o Reverse(u16_bytes(SymbolSize(Mtu))) \o Fill(15, 4)

transfer_length(oti) == u32_from(Reverse(SubSeq(oti, 2, 5)))
symbol_size(oti) == u16_from(Reverse(SubSeq(oti, 7, 8)))
Needed(oti) == div_ceil(transfer_length(oti), symbol_size(oti))

Announced(f) == [Draft(f) EXCEPT !.oti = Oti(Ciphertext(f))]

(* What is staged is bytes as Payload has them, of the file or of a trailer;  *)
(* it lies in the 32-bit memory of the page, sealed or not; and None is none  *)
(* of the things it stands in for.                                            *)
ASSUME FileAssumption ==
  /\ None \notin File /\ None \notin Seq(Nat) /\ None \notin MimeType
  /\ \A f \in File :
       /\ f.enveloped \in BOOLEAN /\ f.auth \in BOOLEAN
       /\ f.body \in Seq(Range(f.body))
       /\ \A byte \in Range(f.body) : byte[1] \in Nat /\ (Len(byte) = 2 => byte[2] \in MimeType)
       /\ f.enveloped => f.name \in Seq(Nat) /\ f.mime \in {None} \cup MimeType
       /\ (Len(Plaintext(f)) + 16) \div 65536 < 65536
       /\ None \notin {Plaintext(f), maybe_compress(Plaintext(f)).body, unwrap(Plaintext(f))}

(* A packet: its payload id, then its symbol, the last one padded. *)
payload_id(p) == u32_from(Reverse(SubSeq(p, 1, 4)))

Packet(f, e) ==
  LET ct == Ciphertext(f)
      s == SymbolSize(Mtu)
  IN  Reverse(u32_bytes(e))
      \o [i \in 1..s |-> IF e * s + i <= Len(ct) THEN ct[e * s + i] ELSE Byte(0)]

Transmitter(f) ==
  [beacon |-> Announced(f),
   packets |-> [e \in 0..(Needed(Announced(f).oti) - 1) |-> Packet(f, e)]]
PacketLen == SymbolSize(Mtu) + 4

(* next_frame_at: never fewer than one packet, from the cursor on. *)
PerFrame(capacity) ==
  LET n == packets_per_frame(capacity, PacketLen) IN IF n = 0 THEN 1 ELSE n

Symbols(cursor, capacity) ==
  [type |-> SYMBOL, sid4 |-> Slice(SessionId, 0, 4), frame_id |-> cursor + 1,
   packet_len |-> PacketLen,
   packets |-> [j \in 1..PerFrame(capacity) |->
                  tx.packets[(cursor + j - 1) % Cardinality(DOMAIN tx.packets)]]]

-----------------------------------------------------------------------------
(* What is in view *)

SymbolFrames ==
  {EncodeSymbols(Symbols(e, known[r])) : e \in DOMAIN tx.packets, r \in Rung}

(* Another pair's handshake, in the same room. *)
Controls ==
  {[type |-> PAIR_REQ, flags |-> 4, session_id |-> Fill(21, 8), r_eph_pub |-> Fill(22, 32),
    id_hint |-> Fill(23, 4), r_commit |-> Fill(24, 16)],
   [type |-> REVEAL, sid4 |-> Fill(21, 4), r_nonce |-> Fill(25, 16)],
   [type |-> COMPLETE, sid4 |-> Fill(21, 4), status |-> 0, hash8 |-> Fill(26, 8)]}

EncodeControl(c) ==
  CASE c.type = PAIR_REQ -> EncodePairReq(c)
    [] c.type = REVEAL -> EncodeReveal(c)
    [] c.type = COMPLETE -> EncodeComplete(c)

InView ==
  {EncodeBeacon(tx.beacon)} \cup SymbolFrames \cup {EncodeControl(c) : c \in Controls}

(* A frame of a build that speaks another version, whole and checked. *)
OtherVersion(a) ==
  LET body == ReplaceAt(Slice(a, 0, Len(a) - 4), 3, Byte(VERSION + 1)) IN seal_crc(body)

CutAt(a, k) == SubSeq(a, 1, Min({k, Len(a)}))
Torn(a, b, k) == CutAt(a, k) \o SubSeq(b, k + 1, Len(b))

Damaged(frames) ==
  {Torn(a, b, k) : a \in frames, b \in frames, k \in Cuts}
  \cup {CutAt(a, k) : a \in frames, k \in Cuts}
  \cup {a \o <<Byte(0)>> : a \in frames}
  \cup {OtherVersion(a) : a \in frames}

-----------------------------------------------------------------------------
(* Receiving: Receiver::ingest *)

Measured == \A r \in Rung : known[r] # Unknown

(* The file is staged once the display knows what its rungs carry. *)
Send(f) ==
  /\ Measured
  /\ file = None
  /\ file' = f
  /\ tx' = Transmitter(f)
  /\ UNCHANGED <<qrvars, beacon, got, out, scanned>>

(* All that is needed is there: it is put together in order, opened, inflated *)
(* and of the length announced, or an error is reported and nothing changes.  *)
Deliver(b, packets) ==
  LET source == {p \in packets : payload_id(p) < Needed(b.oti)}
      Of(e) == CHOOSE p \in source : payload_id(p) = e
      ct == SubSeq(FlattenSeq([e \in 1..Needed(b.oti) |-> SubSeq(Of(e - 1), 5, Len(Of(e - 1)))]),
                   1, transfer_length(b.oti))
      body == decrypt(ct, aad(b))
      plain == IF body = None THEN None ELSE maybe_decompress(body, Compressed(b))
  IN  IF {payload_id(p) : p \in source} # 0..(Needed(b.oti) - 1) \/ plain = None
         \/ Len(plain) # b.plaintext_len
      THEN None ELSE unwrap(plain)

(* The first to carry a payload id. *)
Absorbed(packets) ==
  got \cup {packets[j] : j \in {i \in DOMAIN packets :
              \A q \in got \cup {packets[l] : l \in 1..(i - 1)} :
                SubSeq(q, 1, 4) # SubSeq(packets[i], 1, 4)}}

(* The receiver tries the first beacon and, once it has one, symbols of its   *)
(* session; what does not decode costs nothing but time.  Symbols ahead of    *)
(* the beacon are parked in the code and stand here for reading them later.   *)
Ingest(bytes) ==
  /\ out = None
  /\ \/ /\ peek_type(bytes) = BEACON
        /\ beacon = None
        /\ DecodeBeacon(bytes) # Refused
        /\ beacon' = DecodeBeacon(bytes)
        /\ UNCHANGED <<got, out>>
     \/ /\ peek_type(bytes) = SYMBOL
        /\ beacon # None
        /\ LET sf == DecodeSymbols(bytes)
           IN  /\ sf # Refused
               /\ sf.sid4 = Slice(beacon.session_id, 0, 4)
               /\ got' = Absorbed(sf.packets)
        /\ out' = IF got' # got THEN Deliver(beacon, got') ELSE None
        /\ UNCHANGED beacon
  /\ UNCHANGED <<qrvars, file, tx, scanned>>

(* A device that scans for a PAIR_REQ, a REVEAL or a COMPLETE. *)
Scan(bytes) ==
  /\ \E c \in {DecodePairReq(bytes), DecodeReveal(bytes), DecodeComplete(bytes)} \ {Refused} :
       scanned' = c
  /\ UNCHANGED <<qrvars, file, tx, beacon, got, out>>

Look ==
  /\ file # None
  /\ \E bytes \in InView \cup Damaged(InView) : Ingest(bytes) \/ Scan(bytes)

Measure == QrNext /\ UNCHANGED <<file, tx, beacon, got, out, scanned>>

Next == Measure \/ (\E f \in File : Send(f)) \/ Look

Spec == Init /\ [][Next]_vars

-----------------------------------------------------------------------------
(* Properties *)

(* Nothing is taken for a frame that no screen showed whole: a frame cut off, *)
(* torn between two, padded or of another version is refused by every         *)
(* decoder, and one that is accepted has, field by field, what was encoded,   *)
(* whichever decoder it was offered to.                                       *)
OnlyShownIsRead ==
  /\ beacon # None => beacon = tx.beacon
  /\ got \subseteq Range(tx.packets)
  /\ scanned \in Controls \cup {None}

(* Whoever has the beacon and every packet has the file: the tag covers       *)
(* nothing that is filled in after sealing, the flags say what was done to    *)
(* the body, and the length announced is the one that comes out.              *)
CompleteSetOpens ==
  beacon # None /\ got = Range(tx.packets) => out # None

(* A name that sanitising leaves alone, unless it is too long, and that has   *)
(* an extension worth keeping; and that extension.                            *)
Tidy(label) ==
  /\ Trim(label) = label /\ ExtensionAt(label) # 0
  /\ \A i \in DOMAIN label : ~IsControl(label[i])
Extension(label) == SubSeq(label, ExtensionAt(label), Len(label))

(* The bytes of the file arrive as they were, with or without an envelope,    *)
(* whatever they look like ("the bytes are exactly what the peer sent either  *)
(* way"); a name or a type that needs no cleaning arrives with them, and of a *)
(* name that is too long the extension.                                       *)
DeliveredAsSent ==
  out # None =>
    /\ out.body = file.body
    /\ file.enveloped =>
         /\ safe_name(file.name) = file.name => out.name = file.name
         /\ safe_mime(file.mime) = file.mime => out.mime = file.mime
         /\ Tidy(Base(file.name)) =>
              out.name # None /\ Extension(out.name) = Extension(Base(file.name))

(* The files for which it holds: the length of the name fits its byte, and a  *)
(* file sent bare does not end like an envelope.                              *)
Sendable(f) ==
  IF f.enveloped THEN Len(NameField(f.name)) <= 255 ELSE unwrap(f.body).body = f.body

(* Whatever was claimed, the name handed to the download has no separator and *)
(* no control character and is neither empty nor longer than MAX_NAME; and no *)
(* type comes out but those safe_mime lets through.                           *)
HarmlessLabel ==
  out # None =>
    /\ out.name # None =>
         /\ Len(out.name) \in 1..MAX_NAME
         /\ \A i \in DOMAIN out.name :
              ~IsControl(out.name[i]) /\ out.name[i] \notin {Slash, Backslash}
    /\ out.mime # None =>
         /\ <<out.mime.ty, out.mime.sub>> # <<"image", "svg+xml">>
         /\ \/ out.mime.ty \in {"image", "audio", "video"}
            \/ <<out.mime.ty, out.mime.sub>> \in {<<"text", "plain">>, <<"application", "pdf">>}

(* A frame packed for a rung can be drawn on it, unless the rung cannot carry *)
(* a single packet, and no further packet would have fitted.                  *)
FramesFit ==
  file # None =>
    \A r \in Rung : \A e \in DOMAIN tx.packets :
      LET bytes == Len(EncodeSymbols(Symbols(e, known[r])))
      IN  frame_size(1, PacketLen) <= Holds[r] =>
            bytes <= Holds[r] /\ (bytes + PacketLen > Holds[r] \/ PerFrame(Holds[r]) = 255)
=============================================================================
