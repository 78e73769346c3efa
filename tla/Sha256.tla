------------------------------- MODULE Sha256 -------------------------------
(***************************************************************************)
(* The way Sha256 cuts what it is fed into blocks and pads the last        *)
(* (src/auth/crypto.cpp); it is fed the stream of Framing, in the pieces   *)
(* in which the parsers get it.  The mixing of a block is left out: a      *)
(* digest is the sequence of blocks compressed.                            *)
(***************************************************************************)
EXTENDS Framing

CONSTANTS
  Block,      \* the size of a block, 64
  LengthSize  \* the bytes of the length at its end, 8

ASSUME Sha256Assumption == Block \in Nat \ {0} /\ LengthSize \in 0..Block

VARIABLE hasher  \* a Sha256 that update() has been called on

(* Sha256: buf_ (its first blen_ bytes), the number of bytes fed, and the    *)
(* blocks compressed so far                                                  *)

Fresh == [buf |-> <<>>, n |-> 0, done |-> <<>>]

\* compress, when the buffer is full
Compress(h) == [h EXCEPT !.buf = <<>>, !.done = Append(@, h.buf)]

\* One iteration of update: fill the buffer, compress it when it is full.  What
\* is left of the data goes on to the next.
Absorb(s) ==
  LET h == s.hash
      take == IF Block - Len(h.buf) < Len(s.data) THEN Block - Len(h.buf) ELSE Len(s.data)
      filled == [h EXCEPT !.buf = @ \o SubSeq(s.data, 1, take)]
  IN IF s.data = <<>> THEN s
     ELSE [hash |-> IF Len(filled.buf) = Block THEN Compress(filled) ELSE filled,
           data |-> SubSeq(s.data, take + 1, Len(s.data))]

\* The loop; an iteration takes a byte or more.
Update(h, data) ==
  LET after[n \in 0..Len(data)] ==
        IF n = 0 THEN [hash |-> [h EXCEPT !.n = @ + Len(data)], data |-> data]
        ELSE Absorb(after[n - 1])
  IN after[Len(data)].hash

Zeros(k) == [i \in 1..k |-> 0]

\* bits_ as LengthSize bytes, the highest first
BitLength(n) == [i \in 1..LengthSize |-> ((8 * n) \div 256 ^ (LengthSize - i)) % 256]

FinishAs(h, limit) ==
  LET marked == [h EXCEPT !.buf = Append(@, 128)]
      room == IF Len(marked.buf) > limit
                THEN Compress([marked EXCEPT !.buf = @ \o Zeros(Block - Len(@))])
                ELSE marked
  IN Append(room.done, room.buf \o Zeros(Block - LengthSize - Len(room.buf)) \o BitLength(h.n))

\* Mutant: the length is taken to fit when it lacks a byte of room.
FinishLate(h) == FinishAs(h, Block - LengthSize + 1)

\* finish: the mark, zeros, and the length, in a block more if it does not fit.
Finish(h) == FinishAs(h, Block - LengthSize)

StreamInit == Init /\ hasher = Fresh

StreamNext == \E chunk \in Chunks : Receive(chunk) /\ hasher' = Update(hasher, chunk)

StreamSpec == StreamInit /\ [][StreamNext]_<<vars, hasher>>
-----------------------------------------------------------------------------
\* RFC 6234: the message, the mark, the fewest zeros that fill up a block, the length.
PaddedReference(data) ==
  LET n == Len(data)
      zeros == (-(n + 1 + LengthSize)) % Block
  IN data \o <<128>> \o Zeros(zeros) \o BitLength(n)

(* Sha256 compresses the padded message, whole blocks of it, and nothing     *)
(* else, however the message is cut into calls of update() and wherever in   *)
(* a block it ends (update, finish).                                         *)
DigestIsOfTheStream ==
  LET blocks == Finish(hasher) IN
  /\ \A i \in DOMAIN blocks : Len(blocks[i]) = Block
  /\ Join(blocks) = PaddedReference(fed)
=============================================================================
