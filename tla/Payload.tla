------------------------------ MODULE Payload ------------------------------
(***************************************************************************)
(* The envelope of core/src/payload.rs: a name and a type appended to the  *)
(* bytes of a file, and the hygiene both ends apply to them.               *)
(*                                                                         *)
(* A name is a sequence of Unicode code points.  A byte of its UTF-8 form  *)
(* is <<c>> for an ASCII character and <<c, j, w>>, the j-th of w, for     *)
(* another.  A claimed type is [ty, sub, len, extra]: its two tokens, the  *)
(* length of "ty/sub", and whether parameters or capitals follow it.       *)
(***************************************************************************)
EXTENDS Naturals, Sequences, SequencesExt, FiniteSetsExt

CONSTANT None      \* no name, no type

ENVELOPE_MAGIC == <<<<82>>, <<66>>, <<75>>, <<80>>>>
ENVELOPE_VERSION == <<1>>
FIXED == 7
MAX_NAME == 96
MAX_MIME == 64

Slash == 47
Backslash == 92
Dot == 46
IsControl(c) == c < 32 \/ c \in 127..159
White == {32, 160, 5760, 8232, 8233, 8239, 8287, 12288} \cup 8192..8202

(* s.filter: the elements of s that are in keep. *)
Kept(s, keep) ==
  LET F[i \in 0..Len(s)] ==
        IF i = 0 THEN <<>> ELSE IF s[i] \in keep THEN Append(F[i - 1], s[i]) ELSE F[i - 1]
  IN  F[Len(s)]

-----------------------------------------------------------------------------
(* Names as bytes *)

Width(c) == IF c < 128 THEN 1 ELSE IF c < 2048 THEN 2 ELSE IF c < 65536 THEN 3 ELSE 4

as_bytes(name) ==
  FlattenSeq([i \in DOMAIN name |->
    IF Width(name[i]) = 1 THEN <<<<name[i]>>>>
    ELSE [j \in 1..Width(name[i]) |-> <<name[i], j, Width(name[i])>>]])

First(byte) == Len(byte) = 1 \/ (Len(byte) = 3 /\ byte[2] = 1)

(* The characters of a byte string, or None when one is not whole. *)
from_utf8(b) ==
  LET first == Kept(b, {byte \in Range(b) : First(byte)})
      name == [i \in DOMAIN first |-> first[i][1]]
  IN  IF as_bytes(name) = b THEN name ELSE None

-----------------------------------------------------------------------------
(* safe_name *)

TrimOf(s, drop) ==
  LET keep == {i \in DOMAIN s : s[i] \notin drop}
  IN  IF keep = {} THEN <<>> ELSE SubSeq(s, Min(keep), Max(keep))

Trim(s) == TrimOf(TrimOf(TrimOf(s, White), {Dot}), White)

(* What follows the last separator. *)
Base(raw) ==
  LET cuts == {i \in DOMAIN raw : raw[i] \in {Slash, Backslash}}
  IN  SubSeq(raw, 1 + Max(cuts \cup {0}), Len(raw))

(* Where the extension's dot is, or 0 when there is none worth keeping. *)
ExtensionAt(s) ==
  LET dot == Max({i \in DOMAIN s : s[i] = Dot} \cup {0})
  IN  IF dot # 0 /\ (Len(s) - dot) \in 1..16 THEN dot ELSE 0

(* The stem gives way to the extension, by characters. *)
Shorten(s) ==
  LET dot == ExtensionAt(s)
      ext == IF dot = 0 THEN <<>> ELSE SubSeq(s, dot, Len(s))
      stem == IF dot = 0 THEN s ELSE SubSeq(s, 1, dot - 1)
      keep == MAX_NAME - Len(ext)
  IN  SubSeq(stem, 1, Min({keep, Len(stem)})) \o ext

(* Mutant of safe_name: a control character stays. *)
NameWithControls(raw) ==
  LET trimmed == Trim(Base(raw))
      out == IF Len(trimmed) <= MAX_NAME THEN trimmed ELSE Trim(Shorten(trimmed))
  IN  IF out = <<>> THEN None ELSE out

safe_name(raw) ==
  LET base == Base(raw)
      trimmed == Trim(Kept(base, {c \in Range(base) : ~IsControl(c)}))
      out == IF Len(trimmed) <= MAX_NAME THEN trimmed ELSE Trim(Shorten(trimmed))
  IN  IF out = <<>> THEN None ELSE out

-----------------------------------------------------------------------------
(* safe_mime, and types as bytes *)

(* A claimed type.  That it has two tokens is all that is said of it. *)
MimeType == [ty : STRING, sub : STRING, len : Nat \ {0}, extra : BOOLEAN]

Tokens == {"image", "audio", "video", "text", "application",
           "jpeg", "svg+xml", "plain", "html", "pdf"}

safe_mime(m) ==
  IF /\ m # None
     /\ m.len <= MAX_MIME
     /\ {m.ty, m.sub} \subseteq Tokens
     /\ <<m.ty, m.sub>> # <<"image", "svg+xml">>
     /\ \/ m.ty \in {"image", "audio", "video"}
        \/ <<m.ty, m.sub>> \in {<<"text", "plain">>, <<"application", "pdf">>}
  THEN [m EXCEPT !.extra = FALSE] ELSE None

MimeBytes(m) == [i \in 1..m.len |-> <<i, m>>]

(* Only the whole of a type's bytes reads as that type. *)
MimeOf(b) == IF b # <<>> /\ Len(b[1]) = 2 /\ MimeBytes(b[1][2]) = b THEN b[1][2] ELSE None

-----------------------------------------------------------------------------
(* Mutant of Trailer: the type is written ahead of the name. *)
TrailerSwapped(n, m) == m \o n

Trailer(n, m) == n \o m

NameField(name) == IF safe_name(name) = None THEN <<>> ELSE as_bytes(safe_name(name))
MimeField(mime) == IF safe_mime(mime) = None THEN <<>> ELSE MimeBytes(safe_mime(mime))

(* The lengths are written as u8. *)
wrap(body, name, mime) ==
  LET n == NameField(name)
      m == MimeField(mime)
  IN  body \o Trailer(n, m) \o <<<<Len(n) % 256>>, <<Len(m) % 256>>, ENVELOPE_VERSION>>
      \o ENVELOPE_MAGIC

(* What is no trailer is returned whole, as the body. *)
unwrap(raw) ==
  LET end == Len(raw)
      name_len == raw[end - 6][1]
      mime_len == raw[end - 5][1]
      split == end - (FIXED + name_len + mime_len)
      name == from_utf8(SubSeq(raw, split + 1, split + name_len))
      mime == MimeOf(SubSeq(raw, split + name_len + 1, end - FIXED))
  IN  IF \/ end < FIXED
         \/ SubSeq(raw, end - 3, end) # ENVELOPE_MAGIC
         \/ raw[end - 4] # ENVELOPE_VERSION
         \/ FIXED + name_len + mime_len > end
      THEN [body |-> raw, name |-> None, mime |-> None]
      ELSE [body |-> SubSeq(raw, 1, split),
            name |-> IF name = None THEN None ELSE safe_name(name),
            mime |-> safe_mime(mime)]
=============================================================================
