-------------------------------- MODULE Wire --------------------------------
(***************************************************************************)
(* The five frames of core/src/wire.rs, byte by byte.                      *)
(*                                                                         *)
(* A byte is a tuple that starts with a number.  Where the value matters   *)
(* it is <<v>>; the bytes of a key, an id or a hash are <<v, i>>, told     *)
(* apart by their place; the four bytes of a CRC are named by what they    *)
(* cover, so a CRC fits its bytes and no others, and are the only bytes of *)
(* four parts.  Decoding either gives the fields or Refused: which of the  *)
(* errors it is only reaches the log.                                      *)
(***************************************************************************)
EXTENDS Naturals, Sequences, SequencesExt

Refused == [type |-> 0]

Byte(v) == <<v>>
Fill(v, n) == [i \in 1..n |-> <<v, i>>]

(* u16 and u32: to_le_bytes and from_le_bytes. *)
u16_bytes(v) == <<Byte(v % 256), Byte((v \div 256) % 256)>>
u32_bytes(v) ==
  <<Byte(v % 256), Byte((v \div 256) % 256), Byte((v \div 65536) % 256),
    Byte((v \div 16777216) % 256)>>
u16_from(b) == b[1][1] + 256 * b[2][1]
u32_from(b) == b[1][1] + 256 * b[2][1] + 65536 * b[3][1] + 16777216 * b[4][1]

(* b[from..to] of the code. *)
Slice(b, from, to) == SubSeq(b, from + 1, to)

MAGIC == <<Byte(82), Byte(66)>>
VERSION == 2
PAIR_REQ == 1
BEACON == 2
SYMBOL == 3
COMPLETE == 4
REVEAL == 5
PAIR_REQ_LEN == 69
REVEAL_LEN == 28
BEACON_LEN == 102
COMPLETE_LEN == 21
SYMBOL_OVERHEAD == 19

COMPRESSED == 1
SENDER_AUTH == 2

(* Mutant of crc32: the checksum covers the common header alone. *)
CrcOfHeader(bytes) == [i \in 1..4 |-> <<i, SubSeq(bytes, 1, 4), "crc", 32>>]

crc32(bytes) == [i \in 1..4 |-> <<i, bytes, "crc", 32>>]

seal_crc(buf) == buf \o crc32(buf)
common_header(ty) == MAGIC \o <<Byte(VERSION), Byte(ty)>>

(* Whether open_frame accepts: the length a fixed frame must have (0 for one  *)
(* of any length), magic, version, type, and the CRC over all before it.      *)
open_frame(bytes, want_type, want_len) ==
  /\ IF want_len # 0 THEN Len(bytes) = want_len ELSE Len(bytes) >= 8
  /\ Slice(bytes, 0, 2) = MAGIC
  /\ bytes[3] = Byte(VERSION)
  /\ bytes[4] = Byte(want_type)
  /\ LET split == Len(bytes) - 4
     IN  Slice(bytes, split, Len(bytes)) = crc32(Slice(bytes, 0, split))

Body(bytes) == Slice(bytes, 4, Len(bytes) - 4)

(* What a frame claims to be, before anything else of it is checked. *)
peek_type(bytes) ==
  IF Len(bytes) >= 4 /\ Slice(bytes, 0, 2) = MAGIC /\ bytes[3] = Byte(VERSION)
  THEN bytes[4][1] ELSE 0

-----------------------------------------------------------------------------
EncodePairReq(f) ==
  seal_crc(common_header(PAIR_REQ) \o <<Byte(f.flags)>> \o f.session_id
           \o f.r_eph_pub \o f.id_hint \o f.r_commit)

DecodePairReq(bytes) ==
  LET body == Body(bytes)
  IN  IF ~open_frame(bytes, PAIR_REQ, PAIR_REQ_LEN) THEN Refused
      ELSE [type |-> PAIR_REQ, flags |-> body[1][1], session_id |-> Slice(body, 1, 9),
            r_eph_pub |-> Slice(body, 9, 41), id_hint |-> Slice(body, 41, 45),
            r_commit |-> Slice(body, 45, 61)]

EncodeReveal(f) == seal_crc(common_header(REVEAL) \o f.sid4 \o f.r_nonce)

DecodeReveal(bytes) ==
  IF ~open_frame(bytes, REVEAL, REVEAL_LEN) THEN Refused
  ELSE [type |-> REVEAL, sid4 |-> Slice(Body(bytes), 0, 4),
        r_nonce |-> Slice(Body(bytes), 4, 20)]

EncodeComplete(f) ==
  seal_crc(common_header(COMPLETE) \o f.sid4 \o <<Byte(f.status)>> \o f.hash8)

(* An unknown status reads as Aborted. *)
DecodeComplete(bytes) ==
  LET body == Body(bytes)
  IN  IF ~open_frame(bytes, COMPLETE, COMPLETE_LEN) THEN Refused
      ELSE [type |-> COMPLETE, sid4 |-> Slice(body, 0, 4),
            status |-> IF body[5][1] \in {0, 1} THEN body[5][1] ELSE 2,
            hash8 |-> Slice(body, 5, 13)]

EncodeBeacon(f) ==
  seal_crc(common_header(BEACON) \o <<Byte(f.mode), Byte(f.flags)>> \o f.session_id
           \o f.s_eph_pub \o f.nonce \o u32_bytes(f.plaintext_len) \o f.oti
           \o u16_bytes(f.symbol_size) \o <<Byte(f.palette), Byte(f.tile_px)>>
           \o f.build_hash)

DecodeBeacon(bytes) ==
  LET body == Body(bytes)
  IN  IF ~open_frame(bytes, BEACON, BEACON_LEN) \/ body[1][1] \notin 1..4 THEN Refused
      ELSE [type |-> BEACON, mode |-> body[1][1], flags |-> body[2][1],
            session_id |-> Slice(body, 2, 10), s_eph_pub |-> Slice(body, 10, 42),
            nonce |-> Slice(body, 42, 66),
            plaintext_len |-> u32_from(Slice(body, 66, 70)),
            oti |-> Slice(body, 70, 82),
            symbol_size |-> u16_from(Slice(body, 82, 84)),
            palette |-> body[85][1], tile_px |-> body[86][1],
            build_hash |-> Slice(body, 86, 94)]

Compressed(b) == b.flags % 2 = 1

(* Mutant of aad: the tag covers a field that is filled in after sealing. *)
AadWithOti(b) ==
  <<VERSION, b.mode, b.flags, b.session_id, b.s_eph_pub, b.nonce, b.plaintext_len, b.oti>>

(* All of fixed width: the tuple stands for their concatenation. *)
aad(b) == <<VERSION, b.mode, b.flags, b.session_id, b.s_eph_pub, b.nonce, b.plaintext_len>>

(* The count is one byte, whatever the number of packets. *)
EncodeSymbols(f) ==
  seal_crc(common_header(SYMBOL) \o f.sid4 \o u32_bytes(f.frame_id)
           \o <<Byte(Len(f.packets) % 256)>> \o u16_bytes(f.packet_len)
           \o FlattenSeq(f.packets))

(* A packet_len of zero, on which the code's chunks_exact would panic, is     *)
(* written by no encoder: a packet has at least its payload id.               *)
DecodeSymbols(bytes) ==
  LET body == Body(bytes)
      count == body[9][1]
      packet_len == u16_from(Slice(body, 9, 11))
  IN  IF \/ Len(bytes) < SYMBOL_OVERHEAD
         \/ ~open_frame(bytes, SYMBOL, 0)
         \/ Len(body) # 11 + count * packet_len
      THEN Refused
      ELSE [type |-> SYMBOL, sid4 |-> Slice(body, 0, 4),
            frame_id |-> u32_from(Slice(body, 4, 8)), packet_len |-> packet_len,
            packets |-> [j \in 1..count |->
                           Slice(body, 11 + (j - 1) * packet_len, 11 + j * packet_len)]]

frame_size(count, packet_len) == SYMBOL_OVERHEAD + count * packet_len

(* Mutant of packets_per_frame: the frame's own bytes are not deducted. *)
PacketsOfRawFrame(capacity, packet_len) ==
  LET n == capacity \div packet_len IN IF n > 255 THEN 255 ELSE n

packets_per_frame(capacity, packet_len) ==
  LET usable == IF capacity < SYMBOL_OVERHEAD THEN 0 ELSE capacity - SYMBOL_OVERHEAD
      n == usable \div packet_len
  IN  IF n > 255 THEN 255 ELSE n
=============================================================================
