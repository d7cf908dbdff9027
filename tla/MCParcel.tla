------------------------------ MODULE MCParcel ------------------------------
(* Seven files: plain, compressible, already compressed, empty, one that a    *)
(* sender without the envelope sends, one that ends like an envelope, and one *)
(* whose name is all path, controls and dots.  Three rungs: of one packet, of *)
(* two, and one that cannot carry any.                                        *)
EXTENDS Parcel, TLC

CONSTANTS one, two, dead

MCRung == {one, two, dead}
MCHolds == one :> 331 @@ two :> 362 @@ dead :> 84

Times(c, n) == [i \in 1..n |-> c]
Distinct(n) == [i \in 1..n |-> <<i % 256>>]

Text == [ty |-> "text", sub |-> "plain", len |-> 10, extra |-> FALSE]
Jpeg == [ty |-> "image", sub |-> "jpeg", len |-> 10, extra |-> FALSE]
Svg == [ty |-> "image", sub |-> "svg+xml", len |-> 13, extra |-> TRUE]

(* a.txt, a long name ending in .txt, accents, ../ and a newline, two dots *)
Short == <<97, 46, 116, 120, 116>>
Long == Times(97, 120) \o <<46, 116, 120, 116>>
Accents == Times(233, 60) \o <<46, 106, 112, 103>>
Path == <<46, 46, 47, 92, 97, 10, 46, 115, 104>>
Dots == <<32, 46, 46>>

Named(body, name, mime) ==
  [enveloped |-> TRUE, body |-> body, name |-> name, mime |-> mime, auth |-> FALSE]

MCFile ==
  {Named(Distinct(8), Short, Text),
   Named(Times(<<65>>, 400), Long, None),
   [Named(JPEG \o Times(<<9>>, 260), Accents, Jpeg) EXCEPT !.auth = TRUE],
   Named(<<>>, Dots, None),
   [Named(Distinct(20), <<>>, None) EXCEPT !.enveloped = FALSE],
   Named(wrap(Distinct(3), Short, Text), Short, None),
   Named(Times(<<65>>, 280), Path, Svg)}

ASSUME MCSendable == \A f \in MCFile : Sendable(f)

(* Ninety characters of three bytes, and .txt: within the 96 of MAX_NAME.     *)
Wide == Times(19968, 90) \o <<46, 116, 120, 116>>

MCWideFile ==
  {Named(Distinct(n), name, Text) : n \in {8, 30, 60}, name \in {Short, Wide}}

MCCuts == {3, 4, 12, 50, 95, 100, 190}
=============================================================================
