------------------------------- MODULE Codecs -------------------------------
(***************************************************************************)
(* The conversions that passwords and tokens go through: hexadecimal and   *)
(* base64 (src/common/util.cpp).  A character is its code.                 *)
(***************************************************************************)
EXTENDS Integers, Sequences

\* kHex[k] and kB64[k]
HexDigit(k) == IF k < 10 THEN 48 + k ELSE 87 + k

B64Digit(k) ==
  CASE k < 26 -> 65 + k
    [] 26 <= k /\ k < 52 -> 71 + k
    [] 52 <= k /\ k < 62 -> k - 4
    [] k = 62 -> 43
    [] 62 < k -> 47

\* '=', which fills up base64, and what its decoder passes over: that, '\n', '\r', ' '
Filler == 61
Skipped == {Filler, 10, 13, 32}

\* hex_encode
HexEncode(data) ==
  [j \in 1..(2 * Len(data)) |->
     HexDigit(IF j % 2 = 1 THEN data[(j + 1) \div 2] \div 16 ELSE data[j \div 2] % 16)]

\* hex_val: '0'..'9', 'a'..'f', 'A'..'F'
HexVal(c) ==
  IF 48 <= c /\ c <= 57 THEN c - 48
  ELSE IF 97 <= c /\ c <= 102 THEN 10 + (c - 97)
  ELSE IF 65 <= c /\ c <= 70 THEN 10 + (c - 65)
  ELSE -1

\* hex_decode: an odd length or another character makes it empty.
HexDecode(s) ==
  LET v == [i \in DOMAIN s |-> HexVal(s[i])] IN
  IF Len(s) % 2 # 0 \/ \E i \in DOMAIN s : v[i] < 0 THEN <<>>
  ELSE [k \in 1..(Len(s) \div 2) |-> 16 * v[2 * k - 1] + v[2 * k]]

\* The four digits of three bytes.
Digits(x, y, z) ==
  LET v == 65536 * x + 256 * y + z IN
  <<B64Digit(v \div 262144), B64Digit((v \div 4096) % 64), B64Digit((v \div 64) % 64), B64Digit(v % 64)>>

Base64As(data, one) ==
  LET n == Len(data)
      digit(j) == LET k == (j + 3) \div 4  \* the group of three that it belongs to
                  IN Digits(data[3 * k - 2], data[3 * k - 1], data[3 * k])[((j - 1) % 4) + 1]
      tail == CASE n % 3 = 0 -> <<>>
                [] n % 3 = 1 -> SubSeq(Digits(data[n], 0, 0), 1, one) \o <<Filler, Filler>>
                [] n % 3 = 2 -> SubSeq(Digits(data[n - 1], data[n], 0), 1, 3) \o <<Filler>>
  IN [j \in 1..(4 * (n \div 3)) |-> digit(j)] \o tail

\* Mutant: a last single byte gets one digit.
Base64Cut(data) == Base64As(data, 1)

\* base64_encode
Base64Encode(data) == Base64As(data, 2)

\* T[c] of base64_decode
Value(c) ==
  IF \E k \in 0..63 : B64Digit(k) = c THEN CHOOSE k \in 0..63 : B64Digit(k) = c ELSE -1

\* An iteration of base64_decode: six bits go in at the low end of v, eight come
\* out once there are so many.  24 of the 32 bits of v are kept here: at most 14
\* are looked at.
Decode(acc, c) ==
  LET v == (64 * acc.v + Value(c)) % 16777216
      bits == acc.bits + 6
  IN IF c \in Skipped \/ acc.bad THEN acc
     ELSE IF Value(c) < 0 THEN [acc EXCEPT !.bad = TRUE]
     ELSE IF bits < 8 THEN [acc EXCEPT !.v = v, !.bits = bits]
     ELSE [acc EXCEPT !.v = v, !.bits = bits - 8,
                      !.out = Append(@, (v \div 2 ^ (bits - 8)) % 256)]

\* base64_decode: a character that is no digit makes it empty.
Base64Decode(s) ==
  LET after[i \in 0..Len(s)] ==
        IF i = 0 THEN [v |-> 0, bits |-> 0, out |-> <<>>, bad |-> FALSE]
        ELSE Decode(after[i - 1], s[i])
  IN IF after[Len(s)].bad THEN <<>> ELSE after[Len(s)].out
-----------------------------------------------------------------------------
(* Reference definitions *)

\* The i-th bit of a sequence of bytes, the highest of a byte first, with zeros behind.
Bit(data, i) ==
  IF i <= 8 * Len(data) THEN (data[((i - 1) \div 8) + 1] \div 2 ^ (7 - ((i - 1) % 8))) % 2 ELSE 0

\* RFC 4648: the bits, six to a digit, and "=" up to a multiple of four.
Base64Reference(data) ==
  LET n == (8 * Len(data) + 5) \div 6
      sextet(k) == 32 * Bit(data, 6 * k - 5) + 16 * Bit(data, 6 * k - 4) + 8 * Bit(data, 6 * k - 3)
                     + 4 * Bit(data, 6 * k - 2) + 2 * Bit(data, 6 * k - 1) + Bit(data, 6 * k)
  IN [k \in 1..(4 * ((n + 3) \div 4)) |-> IF k <= n THEN B64Digit(sextet(k)) ELSE Filler]

\* What the two encodings write is what their definition says, and what was
\* written is read back (hex_encode, hex_decode, base64_encode, base64_decode).
Inverts(data) ==
  /\ HexDecode(HexEncode(data)) = data
  /\ Base64Encode(data) = Base64Reference(data)
  /\ Base64Decode(Base64Encode(data)) = data
=============================================================================
