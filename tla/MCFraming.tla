----------------------------- MODULE MCFraming -----------------------------
(* The parsers and Sha256 on one stream, with its bytes also going through   *)
(* the encodings: the smallest values stand for bytes all over their range.  *)
EXTENDS Sha256, Codecs

CONSTANT Encoded  \* bound: the bytes of the stream that are encoded

Widened == [i \in DOMAIN fed |-> CASE fed[i] = 0 -> 0 [] fed[i] = 1 -> 97 [] OTHER -> 255]

(* The encodings of a salt, a hash and a token can be undone, whatever the   *)
(* length and the bytes are (hex_encode, base64_encode and their decoders).  *)
EncodingsInvert == Len(fed) <= Encoded => Inverts(Widened)
=============================================================================
