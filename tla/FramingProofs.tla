---------------------------- MODULE FramingProofs ----------------------------
(***************************************************************************)
(* The parser of the server and the decoder of the client each undo        *)
(* frame(), Sha256 compresses the padded stream, and the decoders undo the *)
(* encodings, however the stream is cut into pieces: for bytes, frame      *)
(* sizes, pieces, blocks and streams of any size.  A loop is a recursive   *)
(* function here; what it computes is shown by a least counterexample.     *)
(***************************************************************************)
EXTENDS MCFraming, SequenceTheorems, WellFoundedInduction, TLAPS

\* Most leaves are first-order: Zenon is the default, SMT is cited by name.
USE Zenon

-----------------------------------------------------------------------------
(* Naturals and loops.                                                       *)

\* A set of naturals that is not empty has a least element.
LEMMA Least ==
  ASSUME NEW T, T \subseteq Nat, T # {}
  PROVE  \E x \in T : \A y \in T : x <= y
<1>1. \E x \in T : \A y \in T : <<y, x>> \notin OpToRel(<, Nat)
  BY WFMin, NatLessThanWellFounded
<1>2. ASSUME NEW x \in T, NEW y \in T, <<y, x>> \notin OpToRel(<, Nat)
      PROVE  x <= y
  BY <1>2, SMT DEF OpToRel
<1> QED
  BY <1>1, <1>2

\* Induction up to n, for the set of the numbers at which something holds.
LEMMA Climb ==
  ASSUME NEW n \in Nat, NEW H, 0 \in H, \A i \in 1..n : i - 1 \in H => i \in H
  PROVE  \A i \in 0..n : i \in H
<1> DEFINE Bad == {i \in Nat : i <= n /\ i \notin H}
<1>1. ASSUME Bad # {} PROVE FALSE
  <2>1. PICK m \in Bad : \A k \in Bad : m <= k
    BY <1>1, Least
  <2>2. m \in Nat /\ m <= n /\ m \notin H /\ m # 0
    OBVIOUS
  <2>3. m - 1 \in Nat /\ m - 1 <= n /\ ~(m <= m - 1) /\ m \in 1..n
    BY <2>2, SMT
  <2>4. m - 1 \in H
    BY <2>1, <2>3
  <2> QED
    BY <2>2, <2>3, <2>4
<1>2. \A i \in 0..n : i \in Nat /\ i <= n
  BY SMT
<1> QED
  BY <1>1, <1>2

\* f holds what a loop of n rounds has after each, g being what a round makes of the last.
Loop(f, T, base, n, g) == f \in [0..n -> T] /\ f[0] = base /\ \A i \in 1..n : f[i] = g[<<f[i - 1], i>>]

\* A loop has such values.
LEMMA LoopExists ==
  ASSUME NEW T, NEW base \in T, NEW n \in Nat, NEW g \in [T \X (1..n) -> T]
  PROVE  \E f : Loop(f, T, base, n, g)
<1> DEFINE Runs(m) == \E f : Loop(f, T, base, m, g)
           H == {m \in Nat : Runs(m)}
<1>1. 0 \in H
  <2> DEFINE f == [i \in 0..0 |-> base]
  <2>1. Loop(f, T, base, 0, g)
    BY SMT DEF Loop
  <2> HIDE DEF f
  <2> QED
    BY <2>1
<1>2. ASSUME NEW m \in 1..n, m - 1 \in H PROVE m \in H
  <2>1. PICK f \in [0..(m - 1) -> T] : f[0] = base /\ \A i \in 1..(m - 1) : f[i] = g[<<f[i - 1], i>>]
    BY <1>2 DEF Loop
  <2> DEFINE h == [i \in 0..m |-> IF i = m THEN g[<<f[m - 1], m>>] ELSE f[i]]
  <2>2. /\ m \in Nat /\ m # 0 /\ 0 \in 0..m /\ 0 \in 0..(m - 1)
        /\ m - 1 \in 0..(m - 1) /\ \A i \in 0..m : i # m => i \in 0..(m - 1)
    BY SMT
  <2>3. g[<<f[m - 1], m>>] \in T
    BY <2>2
  <2>4. h \in [0..m -> T]
    BY <2>2, <2>3
  <2>5. h[0] = base
    BY <2>1, <2>2
  <2>6. ASSUME NEW i \in 1..m PROVE h[i] = g[<<h[i - 1], i>>]
    <3>1. i \in 0..m /\ i - 1 \in 0..m /\ i - 1 # m /\ (i # m => i \in 1..(m - 1))
      BY SMT
    <3>2. h[i - 1] = f[i - 1] /\ h[i] = IF i = m THEN g[<<f[m - 1], m>>] ELSE f[i]
      BY <3>1
    <3> QED
      BY <2>1, <3>1, <3>2
  <2> HIDE DEF h
  <2>7. Loop(h, T, base, m, g)
    BY <2>4, <2>5, <2>6 DEF Loop
  <2> QED
    BY <2>2, <2>7
<1>3. \A m \in 0..n : m \in H
  <2> HIDE DEF H
  <2> QED
    BY <1>1, <1>2, Climb
<1>4. n \in 0..n
  BY SMT
<1> QED
  BY <1>3, <1>4

-----------------------------------------------------------------------------
(* Sequences put together.                                                   *)

\* f holds the concatenations of the first sequences of s.
Joins(f, s) == f = [i \in 0..Len(s) |-> IF i = 0 THEN <<>> ELSE f[i - 1] \o s[i]]

\* There are such concatenations.
LEMMA JoinsExist ==
  ASSUME NEW S, NEW s \in Seq(Seq(S))
  PROVE  \E f : Joins(f, s) /\ f \in [0..Len(s) -> Seq(S)]
<1> DEFINE n == Len(s)
           g == [x \in Seq(S) \X (1..n) |-> x[1] \o s[x[2]]]
<1>1. n \in Nat
  BY LenProperties
<1>2. \A i \in 1..n : s[i] \in Seq(S)
  BY ElementOfSeq
<1>3. g \in [Seq(S) \X (1..n) -> Seq(S)]
  <2>1. ASSUME NEW x \in Seq(S) \X (1..n) PROVE x[1] \o s[x[2]] \in Seq(S)
    <3>1. x[1] \in Seq(S) /\ s[x[2]] \in Seq(S)
      BY <1>2
    <3> QED
      BY <3>1, ConcatProperties
  <2> QED
    BY <2>1
<1>4. <<>> \in Seq(S)
  BY EmptySeq
<1>5. PICK f \in [0..n -> Seq(S)] : f[0] = <<>> /\ \A i \in 1..n : f[i] = g[<<f[i - 1], i>>]
  <2> HIDE DEF g, n
  <2>1. \E f : Loop(f, Seq(S), <<>>, n, g)
    BY <1>1, <1>3, <1>4, LoopExists
  <2> QED
    BY <2>1 DEF Loop
<1>6. ASSUME NEW i \in 0..n
      PROVE  f[i] = IF i = 0 THEN <<>> ELSE f[i - 1] \o s[i]
  <2>1. i # 0 => i \in 1..n /\ i - 1 \in 0..n
    BY <1>1, SMT
  <2> QED
    BY <1>5, <2>1
<1>7. f = [i \in 0..n |-> f[i]]
  BY <1>5
<1>8. Joins(f, s)
  BY <1>6, <1>7 DEF Joins
<1> QED
  BY <1>5, <1>8

\* Two sequences, and two functions of the rounds of a loop, that agree up to m.
Agree(s, t, m) == \A i \in 1..m : s[i] = t[i]
AgreeFrom0(f, g, m) == \A i \in 0..m : f[i] = g[i]

\* The concatenations depend on the first sequences alone.
LEMMA JoinsAgree ==
  ASSUME NEW s, NEW t, NEW f, NEW g, Joins(f, s), Joins(g, t), Len(s) \in Nat, Len(t) \in Nat,
         NEW m \in Nat, m <= Len(s), m <= Len(t), Agree(s, t, m)
  PROVE  AgreeFrom0(f, g, m)
<1> DEFINE H == {i \in Nat : f[i] = g[i]}
<1>1. 0 \in H
  <2>1. 0 \in 0..Len(s) /\ 0 \in 0..Len(t) /\ 0 \in Nat
    BY SMT
  <2>2. f[0] = <<>> /\ g[0] = <<>>
    BY <2>1 DEF Joins
  <2> QED
    BY <2>1, <2>2
<1>2. ASSUME NEW i \in 1..m, i - 1 \in H PROVE i \in H
  <2>1. i \in 0..Len(s) /\ i \in 0..Len(t) /\ i \in Nat /\ i # 0
    BY SMT
  <2>2. f[i] = f[i - 1] \o s[i]
    BY <2>1 DEF Joins
  <2>3. g[i] = g[i - 1] \o t[i]
    BY <2>1 DEF Joins
  <2> QED
    BY <1>2, <2>1, <2>2, <2>3 DEF Agree
<1>3. \A i \in 0..m : i \in H
  <2> HIDE DEF H
  <2> QED
    BY <1>1, <1>2, Climb
<1> QED
  BY <1>3 DEF AgreeFrom0

\* What Join returns.
LEMMA JoinChosen ==
  ASSUME NEW S, NEW s \in Seq(Seq(S))
  PROVE  \E f : Joins(f, s) /\ Join(s) = f[Len(s)]
<1>1. \E f : Joins(f, s)
  BY JoinsExist
<1>2. Join(s) = (CHOOSE f : Joins(f, s))[Len(s)]
  BY DEF Join, Joins
<1> QED
  BY <1>1, <1>2

LEMMA JoinEmpty == Join(<<>>) = <<>>
<1>1. <<>> \in Seq(Seq({})) /\ Len(<<>>) = 0
  BY EmptySeq
<1>2. PICK f : Joins(f, <<>>) /\ Join(<<>>) = f[Len(<<>>)]
  BY <1>1, JoinChosen
<1>3. 0 \in 0..Len(<<>>)
  BY <1>1, SMT
<1>4. f[0] = <<>>
  BY <1>2, <1>3 DEF Joins
<1> QED
  BY <1>1, <1>2, <1>4

\* Join goes on where it was.
LEMMA JoinAppend ==
  ASSUME NEW S, NEW s \in Seq(Seq(S)), NEW x \in Seq(S)
  PROVE  Join(Append(s, x)) = Join(s) \o x
<1> DEFINE t == Append(s, x)
           n == Len(s)
<1>1. t \in Seq(Seq(S)) /\ Len(t) = n + 1 /\ t[n + 1] = x /\ Agree(s, t, n)
  <2>1. t \in Seq(Seq(S)) /\ Len(t) = n + 1 /\ t[n + 1] = x
    BY AppendProperties
  <2>2. ASSUME NEW i \in 1..n PROVE s[i] = t[i]
    BY AppendProperties, SMT
  <2> QED
    BY <2>1, <2>2 DEF Agree
<1>2. n \in Nat
  BY LenProperties
<1> HIDE DEF t, n
<1>3. n + 1 # 0 /\ n + 1 \in Nat /\ n + 1 \in 0..(n + 1) /\ (n + 1) - 1 = n /\ n <= n + 1 /\ n <= n /\ n \in 0..n
  BY <1>2, SMT
<1>4. PICK g : Joins(g, t) /\ Join(t) = g[n + 1]
  BY <1>1, JoinChosen
<1>5. g[n + 1] = g[n] \o x
  BY <1>1, <1>3, <1>4 DEF Joins
<1>6. PICK f : Joins(f, s) /\ Join(s) = f[n]
  BY JoinChosen DEF n
<1>7. AgreeFrom0(f, g, n)
  <2>1. Len(s) \in Nat /\ Len(t) \in Nat /\ n <= Len(s) /\ n <= Len(t)
    BY <1>1, <1>2, <1>3 DEF n
  <2> QED
    BY <1>1, <1>2, <1>4, <1>6, <2>1, JoinsAgree
<1>8. f[n] = g[n]
  BY <1>3, <1>7 DEF AgreeFrom0
<1> QED
  BY <1>4, <1>5, <1>6, <1>8 DEF t

LEMMA JoinType ==
  ASSUME NEW S, NEW s \in Seq(Seq(S))
  PROVE  Join(s) \in Seq(S)
<1>1. Len(s) \in Nat
  BY LenProperties
<1>2. PICK f : Joins(f, s) /\ Join(s) = f[Len(s)]
  BY JoinChosen
<1>3. PICK g \in [0..Len(s) -> Seq(S)] : Joins(g, s)
  BY JoinsExist
<1>4. Len(s) <= Len(s) /\ Len(s) \in 0..Len(s)
  BY <1>1, SMT
<1>5. AgreeFrom0(f, g, Len(s))
  <2>1. Agree(s, s, Len(s))
    BY DEF Agree
  <2> QED
    BY <1>1, <1>2, <1>3, <1>4, <2>1, JoinsAgree
<1>6. f[Len(s)] = g[Len(s)]
  BY <1>4, <1>5 DEF AgreeFrom0
<1> QED
  BY <1>2, <1>3, <1>4, <1>6

\* Concatenation is associative, in a form that is easy to cite.
Assoc(s, t, u) == (s \o t) \o u = s \o (t \o u)

LEMMA Associative ==
  ASSUME NEW S, NEW s \in Seq(S), NEW t \in Seq(S), NEW u \in Seq(S)
  PROVE  Assoc(s, t, u)
BY ConcatAssociative, SMT DEF Assoc

\* So are two facts about Append.
Grown(S, s, x, t) ==
  /\ t \in Seq(S) /\ Len(t) = Len(s) + 1 /\ t[Len(s) + 1] = x
  /\ \A i \in 1..Len(s) : t[i] = s[i]

Appended(s, x) == Append(s, x) = s \o <<x>>

LEMMA AppendGrows ==
  ASSUME NEW S, NEW s \in Seq(S), NEW x \in S
  PROVE  Grown(S, s, x, Append(s, x))
<1> DEFINE t == Append(s, x)
<1>1. t \in Seq(S) /\ Len(t) = Len(s) + 1
  BY AppendProperties
<1>2. t[Len(s) + 1] = x
  BY AppendProperties
<1>3. \A i \in 1..Len(s) : t[i] = s[i]
  BY SMT
<1> HIDE DEF t
<1>4. Grown(S, s, x, t)
  BY <1>1, <1>2, <1>3 DEF Grown
<1> QED
  BY <1>4 DEF t

LEMMA AppendJoins ==
  ASSUME NEW S, NEW s \in Seq(S), NEW x \in S
  PROVE  Appended(s, x)
BY AppendIsConcat DEF Appended

-----------------------------------------------------------------------------
(* Frames.                                                                   *)

Octet == 0..255

\* The lengths that a header can hold.
Lengths == {n \in Nat : n < 4294967296}

\* The shifts and masks undo each other.
LEMMA HeaderInverts ==
  ASSUME NEW n \in Lengths
  PROVE  Header(n) \in Seq(Octet) /\ Len(Header(n)) = 4 /\ Length(Header(n)) = n
<1> DEFINE a == (n \div 16777216) % 256
           b == (n \div 65536) % 256
           c == (n \div 256) % 256
           d == n % 256
<1>1. a \in Octet /\ b \in Octet /\ c \in Octet /\ d \in Octet
  BY SMT DEF Octet, Lengths
<1>2. 16777216 * a + 65536 * b + 256 * c + d = n
  BY SMT DEF Lengths
<1>3. Header(n) = <<a, b, c, d>>
  BY SMT DEF Header
<1> HIDE DEF a, b, c, d
<1>4. <<a, b, c, d>> \in Seq(Octet) /\ Len(<<a, b, c, d>>) = 4
  BY <1>1, SMT
<1>5. Length(<<a, b, c, d>>) = n
  BY <1>1, <1>2, SMT DEF Length
<1> QED
  BY <1>3, <1>4, <1>5

LEMMA LengthInverts ==
  ASSUME NEW b \in Seq(Octet), Len(b) >= 4
  PROVE  Length(b) \in Lengths /\ Header(Length(b)) = SubSeq(b, 1, 4)
<1>1. Len(b) \in Nat
  BY LenProperties
<1>2. \A i \in 1..4 : b[i] \in Octet
  <2>1. \A i \in 1..4 : i \in 1..Len(b)
    BY <1>1, SMT
  <2> QED
    BY <2>1, ElementOfSeq
<1>3. PICK x \in Octet : b[1] = x
  BY <1>2, SMT
<1>4. PICK y \in Octet : b[2] = y
  BY <1>2, SMT
<1>5. PICK z \in Octet : b[3] = z
  BY <1>2, SMT
<1>6. PICK w \in Octet : b[4] = w
  BY <1>2, SMT
<1> DEFINE n == 16777216 * x + 65536 * y + 256 * z + w
<1>7. n \in Lengths /\ Length(b) = n
  BY <1>3, <1>4, <1>5, <1>6, SMT DEF Length, Lengths, Octet
<1>8. (n \div 16777216) % 256 = x
  <2>1. PICK r \in Nat : r = 65536 * y + 256 * z + w
    BY SMT DEF Octet
  <2>2. r < 16777216 /\ n = 16777216 * x + r /\ n \in Nat
    BY <2>1, SMT DEF Octet
  <2>3. n \div 16777216 = x
    BY <2>2, SMT DEF Octet
  <2> HIDE DEF n
  <2> QED
    BY <2>3, SMT DEF Octet
<1>9. (n \div 65536) % 256 = y
  <2>1. PICK r \in Nat : r = 256 * z + w
    BY SMT DEF Octet
  <2>2. r < 65536 /\ n = 16777216 * x + 65536 * y + r /\ n \in Nat
    BY <2>1, SMT DEF Octet
  <2>3. n \div 65536 = 256 * x + y
    BY <2>2, SMT DEF Octet
  <2> HIDE DEF n
  <2> QED
    BY <2>3, SMT DEF Octet
<1>10. (n \div 256) % 256 = z
  <2>1. PICK q \in Nat : q = 256 * x + y
    BY SMT DEF Octet
  <2>2. n = 65536 * q + 256 * z + w
    BY <2>1, SMT DEF Octet
  <2> HIDE DEF n
  <2>3. n \div 256 = 256 * q + z
    BY <2>2, SMT DEF Octet
  <2> QED
    BY <2>3, SMT DEF Octet
<1>11. n % 256 = w
  BY SMT DEF Octet
<1> HIDE DEF n
<1>12. Header(Length(b)) = <<x, y, z, w>>
  BY <1>3, <1>4, <1>5, <1>6, <1>7, <1>8, <1>9, <1>10, <1>11, SMT DEF Header
<1>13. SubSeq(b, 1, 4) = <<x, y, z, w>>
  <2> DEFINE t == SubSeq(b, 1, 4)
  <2>1. t \in Seq(Octet) /\ Len(t) = 4 /\ t[1] = b[1] /\ t[2] = b[2] /\ t[3] = b[3] /\ t[4] = b[4]
    BY <1>1, <1>2, SubSeqProperties, SMT
  <2> HIDE DEF t
  <2>2. t[1] = x /\ t[2] = y /\ t[3] = z /\ t[4] = w
    BY <1>3, <1>4, <1>5, <1>6, <2>1
  <2>3. t = <<x, y, z, w>>
    BY <2>1, <2>2, SMT
  <2> QED
    BY <2>3 DEF t
<1> QED
  BY <1>7, <1>12, <1>13

\* The bytes of some payloads, each framed.
Framed(payloads) == [i \in DOMAIN payloads |-> Frame(payloads[i])]
Wire(payloads) == Join(Framed(payloads))

LEMMA BytesAreOctets ==
  ASSUME NEW s \in Seq(Bytes)
  PROVE  s \in Seq(Octet)
<1>1. Bytes \subseteq Octet
  BY FramingAssumption DEF FramingAssumption, Octet
<1> QED
  BY <1>1, SMT

\* A payload of up to 2^32 - 1 bytes; the length that the parser read is one.
Payload == {x \in Seq(Bytes) : Len(x) \in Lengths}

LEMMA FrameType ==
  ASSUME NEW x \in Payload
  PROVE  Frame(x) \in Seq(Octet)
<1>1. x \in Seq(Octet) /\ Header(Len(x)) \in Seq(Octet)
  BY BytesAreOctets, HeaderInverts DEF Payload
<1> QED
  BY <1>1, ConcatProperties DEF Frame

LEMMA FramedType ==
  ASSUME NEW s \in Seq(Payload)
  PROVE  Framed(s) \in Seq(Seq(Octet)) /\ Len(Framed(s)) = Len(s)
<1>1. DOMAIN s = 1..Len(s) /\ Len(s) \in Nat
  BY LenProperties
<1>2. ASSUME NEW i \in 1..Len(s) PROVE Frame(s[i]) \in Seq(Octet)
  BY ElementOfSeq, FrameType
<1>3. Framed(s) = [i \in 1..Len(s) |-> Frame(s[i])]
  BY <1>1 DEF Framed
<1>4. Framed(s) \in [1..Len(s) -> Seq(Octet)]
  BY <1>2, <1>3
<1> HIDE DEF Framed
<1> QED
  BY <1>1, <1>4, SMT

LEMMA WireType ==
  ASSUME NEW s \in Seq(Payload)
  PROVE  Wire(s) \in Seq(Octet)
BY FramedType, JoinType DEF Wire

LEMMA WireEmpty == Wire(<<>>) = <<>>
<1>1. Framed(<<>>) = <<>>
  BY SMT DEF Framed
<1> QED
  BY <1>1, JoinEmpty DEF Wire

LEMMA WireAppend ==
  ASSUME NEW s \in Seq(Payload), NEW x \in Payload
  PROVE  Wire(Append(s, x)) = Wire(s) \o Frame(x)
<1> DEFINE t == Append(s, x)
           u == Append(Framed(s), Frame(x))
           n == Len(s)
<1>1. t \in Seq(Payload) /\ Len(t) = n + 1 /\ t[n + 1] = x
  BY AppendProperties
<1>2. ASSUME NEW i \in 1..n PROVE t[i] = s[i]
  BY AppendProperties, SMT
<1>3. n \in Nat /\ DOMAIN s = 1..n
  BY LenProperties
<1>4. Framed(s) \in Seq(Seq(Octet)) /\ Len(Framed(s)) = n /\ Frame(x) \in Seq(Octet)
  BY FramedType, FrameType
<1>5. u \in Seq(Seq(Octet)) /\ Len(u) = n + 1 /\ u[n + 1] = Frame(x)
  BY <1>4, AppendProperties, SMT
<1>6. ASSUME NEW i \in 1..n PROVE u[i] = Framed(s)[i]
  BY <1>4, AppendProperties, SMT
<1>7. Framed(t) \in Seq(Seq(Octet)) /\ Len(Framed(t)) = n + 1 /\ DOMAIN t = 1..(n + 1)
  BY <1>1, FramedType, LenProperties
<1> HIDE DEF t, u, n
<1>8. ASSUME NEW i \in 1..(n + 1) PROVE Framed(t)[i] = u[i]
  <2>1. Framed(t)[i] = Frame(t[i])
    BY <1>7 DEF Framed
  <2>2. i \in 1..n \/ i = n + 1
    BY <1>3, SMT
  <2>3. i \in 1..n => Framed(s)[i] = Frame(s[i])
    BY <1>3 DEF Framed
  <2> QED
    BY <1>1, <1>2, <1>5, <1>6, <2>1, <2>2, <2>3
<1>9. Framed(t) = u
  BY <1>5, <1>7, <1>8, SeqEqual
<1>10. Join(u) = Join(Framed(s)) \o Frame(x)
  BY <1>4, JoinAppend DEF u
<1> QED
  BY <1>9, <1>10 DEF Wire, t

\* A sequence cut in two.
LEMMA CutInTwo ==
  ASSUME NEW S, NEW b \in Seq(S), NEW k \in Nat, k <= Len(b)
  PROVE  /\ SubSeq(b, 1, k) \in Seq(S) /\ Len(SubSeq(b, 1, k)) = k
         /\ SubSeq(b, k + 1, Len(b)) \in Seq(S) /\ Len(SubSeq(b, k + 1, Len(b))) = Len(b) - k
         /\ SubSeq(b, 1, k) \o SubSeq(b, k + 1, Len(b)) = b
<1>1. Len(b) \in Nat
  BY LenProperties
<1>2. 1 \in 1..(Len(b) + 1) /\ k \in (1 - 1)..Len(b) /\ Len(b) \in k..Len(b)
  BY <1>1, SMT
<1>3. SubSeq(b, 1, k) \o SubSeq(b, k + 1, Len(b)) = SubSeq(b, 1, Len(b))
  BY <1>2, ConcatAdjacentSubSeq
<1>4. SubSeq(b, 1, Len(b)) = b
  BY SubSeqFull
<1>5. \A i \in 1..Len(b) : b[i] \in S
  BY ElementOfSeq
<1>6. SubSeq(b, 1, k) \in Seq(S) /\ Len(SubSeq(b, 1, k)) = k
  <2>1. \A i \in 1..k : b[i] \in S
    <3>1. \A i \in 1..k : i \in 1..Len(b)
      BY <1>1, SMT
    <3> QED
      BY <1>5, <3>1
  <2>2. 1 \in Int /\ k \in Int
    BY SMT
  <2>3. SubSeq(b, 1, k) \in Seq(S) /\ Len(SubSeq(b, 1, k)) = IF 1 <= k THEN k - 1 + 1 ELSE 0
    BY <2>1, <2>2, SubSeqProperties, SMT
  <2> QED
    BY <2>3, SMT
<1>7. SubSeq(b, k + 1, Len(b)) \in Seq(S) /\ Len(SubSeq(b, k + 1, Len(b))) = Len(b) - k
  <2>1. \A i \in (k + 1)..Len(b) : b[i] \in S
    <3>1. \A i \in (k + 1)..Len(b) : i \in 1..Len(b)
      BY <1>1, SMT
    <3> QED
      BY <1>5, <3>1
  <2>2. k + 1 \in Int /\ Len(b) \in Int
    BY <1>1, SMT
  <2>3. /\ SubSeq(b, k + 1, Len(b)) \in Seq(S)
        /\ Len(SubSeq(b, k + 1, Len(b))) = IF k + 1 <= Len(b) THEN Len(b) - (k + 1) + 1 ELSE 0
    BY <2>1, <2>2, SubSeqProperties, SMT
  <2> QED
    BY <1>1, <2>3, SMT
<1> QED
  BY <1>3, <1>4, <1>6, <1>7

-----------------------------------------------------------------------------
(* The parsing loops; m is the limit of the one or the other.                *)

LEMMA Limits == MaxFrame \in Nat /\ ClientMax \in Nat
BY FramingAssumption DEF FramingAssumption

\* A length that was read is one that a header can hold.
Parsers(m) == {p \in Parser(m) : p.want \in Lengths}

\* A loop does not go on after a bad length.
Results(m) ==
  {r \in [parser : Parsers(m), found : Seq(Payload), bad : BOOLEAN, more : BOOLEAN] : r.more => ~r.bad}

\* The parser waits for bytes: what it has is no complete header or payload.
Waits(p) == IF p.reading THEN Len(p.buf) < 4 ELSE Len(p.buf) < p.want

\* It has met a length that it does not accept.
Refuses(p, m) == p.reading /\ ~(Len(p.buf) < 4) /\ BadLength(Length(p.buf), m)

\* What was dispatched before, what the loop has found and what is pending, in bytes.
Total(d, r) == Wire(d \o r.found) \o Pending(r.parser)

LEMMA ParserFields ==
  ASSUME NEW m \in Nat, NEW p \in Parsers(m)
  PROVE  /\ p.buf \in Seq(Bytes) /\ p.reading \in BOOLEAN /\ p.want \in Lengths
         /\ p.reading => p.want = 4
         /\ ~p.reading => p.want \in 1..m
         /\ p = [buf |-> p.buf, reading |-> p.reading, want |-> p.want]
<1>1. CASE p \in [buf : Seq(Bytes), reading : {TRUE}, want : {4}]
  BY <1>1 DEF Parsers
<1>2. CASE p \in [buf : Seq(Bytes), reading : {FALSE}, want : 1..m]
  BY <1>2 DEF Parsers
<1> QED
  BY <1>1, <1>2 DEF Parsers, Parser

LEMMA ReadingParser ==
  ASSUME NEW m \in Nat, NEW b \in Seq(Bytes)
  PROVE  [buf |-> b, reading |-> TRUE, want |-> 4] \in Parsers(m)
<1>1. 4 \in Lengths
  BY SMT DEF Lengths
<1>2. [buf |-> b, reading |-> TRUE, want |-> 4] \in Parser(m)
  BY SMT DEF Parser
<1> QED
  BY <1>1, <1>2 DEF Parsers

LEMMA PayloadParser ==
  ASSUME NEW m \in Nat, NEW b \in Seq(Bytes), NEW n \in Lengths, ~BadLength(n, m)
  PROVE  [buf |-> b, reading |-> FALSE, want |-> n] \in Parsers(m)
<1>1. n \in 1..m
  BY SMT DEF BadLength, Lengths
<1>2. [buf |-> b, reading |-> FALSE, want |-> n] \in Parser(m)
  BY <1>1, SMT DEF Parser
<1> QED
  BY <1>2 DEF Parsers

LEMMA PendingType ==
  ASSUME NEW m \in Nat, NEW p \in Parsers(m)
  PROVE  Pending(p) \in Seq(Octet)
<1>1. p.buf \in Seq(Octet) /\ p.want \in Lengths
  BY ParserFields, BytesAreOctets
<1>2. Header(p.want) \in Seq(Octet)
  BY <1>1, HeaderInverts
<1> QED
  BY <1>1, <1>2, ConcatProperties DEF Pending

\* The length is read and cut off.
HeaderRead(r) == [r EXCEPT !.parser = ReadLength(r.parser)]

\* The payload is cut off and given out.
PayloadFound(r) ==
  LET p == r.parser IN
  [r EXCEPT !.parser = NextFrame(p), !.found = Append(@, SubSeq(p.buf, 1, p.want))]

\* The header that is read is the one frame() wrote: what was pending stays pending.
LEMMA HeaderReadKeeps ==
  ASSUME NEW m \in Nat, NEW r \in Results(m), r.parser.reading, ~Waits(r.parser),
         ~BadLength(Length(r.parser.buf), m), NEW d \in Seq(Payload)
  PROVE  /\ HeaderRead(r) \in Results(m)
         /\ HeaderRead(r).more = r.more
         /\ Len(HeaderRead(r).parser.buf) < Len(r.parser.buf)
         /\ Total(d, HeaderRead(r)) = Total(d, r)
<1> DEFINE b == r.parser.buf
           q == [buf |-> SubSeq(b, 5, Len(b)), reading |-> FALSE, want |-> Length(b)]
           h == HeaderRead(r)
<1>1. r.parser \in Parsers(m) /\ r.found \in Seq(Payload) /\ r.bad \in BOOLEAN /\ r.more \in BOOLEAN
  BY DEF Results
<1>2. b \in Seq(Bytes) /\ b \in Seq(Octet) /\ Len(b) \in Nat
  BY <1>1, ParserFields, BytesAreOctets, LenProperties
<1>3. Len(b) >= 4 /\ 4 \in Nat /\ 4 <= Len(b) /\ 4 + 1 = 5
  BY <1>2, SMT DEF Waits
<1>4. Length(b) \in Lengths /\ Header(Length(b)) = SubSeq(b, 1, 4)
  BY <1>2, <1>3, LengthInverts
<1>5. /\ SubSeq(b, 5, Len(b)) \in Seq(Bytes) /\ Len(SubSeq(b, 5, Len(b))) = Len(b) - 4
      /\ SubSeq(b, 1, 4) \o SubSeq(b, 5, Len(b)) = b
  <2> HIDE DEF b
  <2>1. /\ SubSeq(b, 4 + 1, Len(b)) \in Seq(Bytes) /\ Len(SubSeq(b, 4 + 1, Len(b))) = Len(b) - 4
        /\ SubSeq(b, 1, 4) \o SubSeq(b, 4 + 1, Len(b)) = b
    BY <1>2, <1>3, CutInTwo
  <2> QED
    BY <1>3, <2>1
<1>6. q \in Parsers(m)
  BY <1>4, <1>5, PayloadParser
<1>7. h = [r EXCEPT !.parser = q]
  BY DEF HeaderRead, ReadLength
<1>8. h.parser = q /\ h.found = r.found /\ h.more = r.more /\ h \in Results(m)
  BY <1>6, <1>7 DEF Results
<1>9. Pending(q) = b
  BY <1>4, <1>5 DEF Pending
<1>10. Pending(r.parser) = b
  BY DEF Pending
<1>11. Len(q.buf) < Len(b)
  BY <1>2, <1>5, SMT
<1> HIDE DEF h, q
<1> QED
  BY <1>8, <1>9, <1>10, <1>11 DEF Total, h

LEMMA AppendToJoined ==
  ASSUME NEW S, NEW d \in Seq(S), NEW f \in Seq(S), NEW x \in S
  PROVE  d \o f \in Seq(S) /\ d \o Append(f, x) = Append(d \o f, x)
<1>1. d \o f \in Seq(S) /\ <<x>> \in Seq(S)
  BY ConcatProperties, SMT
<1>2. d \o Append(f, x) = d \o (f \o <<x>>)
  BY AppendIsConcat
<1>3. Append(d \o f, x) = (d \o f) \o <<x>>
  BY <1>1, AppendIsConcat
<1>4. Assoc(d, f, <<x>>)
  BY <1>1, Associative
<1> QED
  BY <1>1, <1>2, <1>3, <1>4 DEF Assoc

\* A payload given out takes its frame from what was pending.
LEMMA PayloadFoundKeeps ==
  ASSUME NEW m \in Nat, NEW r \in Results(m), ~r.parser.reading, ~Waits(r.parser), NEW d \in Seq(Payload)
  PROVE  /\ PayloadFound(r) \in Results(m)
         /\ PayloadFound(r).more = r.more
         /\ Len(PayloadFound(r).parser.buf) < Len(r.parser.buf)
         /\ Total(d, PayloadFound(r)) = Total(d, r)
<1> DEFINE b == r.parser.buf
           n == r.parser.want
           x == SubSeq(b, 1, n)
           rest == SubSeq(b, n + 1, Len(b))
           q == [buf |-> rest, reading |-> TRUE, want |-> 4]
           h == PayloadFound(r)
           w == Wire(d \o r.found)
<1>1. r.parser \in Parsers(m) /\ r.found \in Seq(Payload) /\ r.bad \in BOOLEAN /\ r.more \in BOOLEAN
  BY DEF Results
<1>2. b \in Seq(Bytes) /\ b \in Seq(Octet) /\ Len(b) \in Nat
  BY <1>1, ParserFields, BytesAreOctets, LenProperties
<1>3. n \in Lengths /\ n \in 1..m
  BY <1>1, ParserFields
<1>4. n \in Nat /\ n > 0
  BY <1>3, SMT
<1>5. n <= Len(b)
  BY <1>2, <1>4, SMT DEF Waits
<1>6. x \in Seq(Bytes) /\ Len(x) = n /\ rest \in Seq(Bytes) /\ Len(rest) = Len(b) - n /\ x \o rest = b
  BY <1>2, <1>4, <1>5, CutInTwo
<1>7. q \in Parsers(m) /\ x \in Payload /\ x \in Seq(Octet) /\ rest \in Seq(Octet)
  BY <1>3, <1>6, ReadingParser, BytesAreOctets DEF Payload
<1>8. Append(r.found, x) \in Seq(Payload)
  BY <1>1, <1>7, AppendProperties
<1>9. h = [r EXCEPT !.parser = q, !.found = Append(r.found, x)]
  BY DEF PayloadFound, NextFrame
<1>10. h.parser = q /\ h.found = Append(r.found, x) /\ h.more = r.more /\ h \in Results(m)
  BY <1>7, <1>8, <1>9 DEF Results
<1>11. Len(q.buf) < Len(b)
  BY <1>2, <1>4, <1>6, SMT
<1>12. Pending(q) = rest /\ Pending(r.parser) = Header(n) \o b
  BY DEF Pending
<1>13. Total(d, h) = Wire(d \o Append(r.found, x)) \o rest /\ Total(d, r) = w \o (Header(n) \o b)
  BY <1>10, <1>12 DEF Total
<1>14. d \o r.found \in Seq(Payload) /\ d \o Append(r.found, x) = Append(d \o r.found, x)
  <2> DEFINE f == r.found
  <2> HIDE DEF x, f
  <2>1. f \in Seq(Payload) /\ x \in Payload
    BY <1>1, <1>7 DEF f
  <2>2. d \o f \in Seq(Payload) /\ d \o Append(f, x) = Append(d \o f, x)
    BY <2>1, AppendToJoined, SMT
  <2> QED
    BY <2>2 DEF f
<1>15. w \in Seq(Octet) /\ Header(n) \in Seq(Octet)
  BY <1>3, <1>14, WireType, HeaderInverts
<1>16. Wire(d \o Append(r.found, x)) = w \o (Header(n) \o x)
  BY <1>6, <1>7, <1>14, WireAppend DEF Frame
<1> HIDE DEF h, q, w, rest, x, n, b
<1>17. (w \o (Header(n) \o x)) \o rest = w \o (Header(n) \o b)
  <2>1. Header(n) \o x \in Seq(Octet)
    BY <1>7, <1>15, ConcatProperties
  <2>2. Assoc(w, Header(n) \o x, rest) /\ Assoc(Header(n), x, rest)
    BY <1>7, <1>15, <2>1, Associative
  <2> QED
    BY <1>6, <2>2 DEF Assoc
<1> QED
  BY <1>10, <1>11, <1>13, <1>16, <1>17 DEF h, b

\* What a turn of a loop does while the loop goes on: it takes a byte or more, or it
\* stops where bytes are missing or at a bad length.  No byte gets lost.
Advances(r, s, m) ==
  /\ s \in Results(m)
  /\ \A d \in Seq(Payload) : Total(d, s) = Total(d, r)
  /\ \/ s.more /\ ~s.bad /\ Len(s.parser.buf) < Len(r.parser.buf)
     \/ ~s.more /\ ~s.bad /\ Waits(s.parser)
     \/ ~s.more /\ s.bad /\ Refuses(s.parser, m)

Goes(r, m) == r \in Results(m) /\ r.more /\ ~r.bad

LEMMA StopsWaiting ==
  ASSUME NEW m \in Nat, NEW r, Goes(r, m), Waits(r.parser)
  PROVE  Advances(r, [r EXCEPT !.more = FALSE], m)
<1> DEFINE s == [r EXCEPT !.more = FALSE]
<1>1. s \in Results(m) /\ s.parser = r.parser /\ s.found = r.found /\ ~s.more /\ ~s.bad
  BY DEF Goes, Results
<1> HIDE DEF s
<1> QED
  BY <1>1 DEF Advances, Total, s

LEMMA StopsRefusing ==
  ASSUME NEW m \in Nat, NEW r, Goes(r, m), Refuses(r.parser, m)
  PROVE  Advances(r, [r EXCEPT !.more = FALSE, !.bad = TRUE], m)
<1> DEFINE s == [r EXCEPT !.more = FALSE, !.bad = TRUE]
<1>1. s \in Results(m) /\ s.parser = r.parser /\ s.found = r.found /\ ~s.more /\ s.bad
  BY DEF Goes, Results
<1> HIDE DEF s
<1> QED
  BY <1>1 DEF Advances, Total, s

\* A length is good when the parser reads on.
Accepts(p, m) == p.reading /\ ~Waits(p) /\ ~BadLength(Length(p.buf), m)

LEMMA ReadsHeader ==
  ASSUME NEW m \in Nat, NEW r, Goes(r, m), Accepts(r.parser, m)
  PROVE  Advances(r, HeaderRead(r), m) /\ Goes(HeaderRead(r), m) /\ ~HeaderRead(r).parser.reading
<1> DEFINE h == HeaderRead(r)
<1>1. <<>> \in Seq(Payload)
  BY EmptySeq
<1>2. h \in Results(m) /\ h.more /\ Len(h.parser.buf) < Len(r.parser.buf)
  BY <1>1, HeaderReadKeeps DEF Goes, Accepts
<1>3. \A d \in Seq(Payload) : Total(d, h) = Total(d, r)
  BY HeaderReadKeeps DEF Goes, Accepts
<1>4. ~h.bad /\ ~h.parser.reading
  BY DEF HeaderRead, ReadLength, Goes, Results
<1> HIDE DEF h
<1> QED
  BY <1>2, <1>3, <1>4 DEF Advances, Goes, h

LEMMA FindsPayload ==
  ASSUME NEW m \in Nat, NEW r, Goes(r, m), ~r.parser.reading, ~Waits(r.parser)
  PROVE  Advances(r, PayloadFound(r), m)
<1> DEFINE h == PayloadFound(r)
<1>1. <<>> \in Seq(Payload)
  BY EmptySeq
<1>2. h \in Results(m) /\ h.more /\ Len(h.parser.buf) < Len(r.parser.buf)
  BY <1>1, PayloadFoundKeeps DEF Goes
<1>3. \A d \in Seq(Payload) : Total(d, h) = Total(d, r)
  BY PayloadFoundKeeps DEF Goes
<1>4. ~h.bad
  BY DEF PayloadFound, Goes, Results
<1> HIDE DEF h
<1> QED
  BY <1>2, <1>3, <1>4 DEF Advances, h

\* Two halves of a turn.
LEMMA AdvancesTwice ==
  ASSUME NEW m \in Nat, NEW q, NEW r, NEW s, Goes(q, m), Goes(r, m), Advances(q, r, m), Advances(r, s, m)
  PROVE  Advances(q, s, m)
<1>1. \A d \in Seq(Payload) : Total(d, s) = Total(d, q)
  BY DEF Advances
<1>2. s.more => Len(s.parser.buf) < Len(q.parser.buf)
  <2> SUFFICES ASSUME s.more PROVE Len(s.parser.buf) < Len(q.parser.buf)
    OBVIOUS
  <2>1. Len(s.parser.buf) < Len(r.parser.buf) /\ Len(r.parser.buf) < Len(q.parser.buf)
    BY DEF Advances, Goes
  <2>2. q.parser \in Parsers(m) /\ r.parser \in Parsers(m) /\ s.parser \in Parsers(m)
    BY DEF Advances, Goes, Results
  <2>3. Len(q.parser.buf) \in Nat /\ Len(r.parser.buf) \in Nat /\ Len(s.parser.buf) \in Nat
    BY <2>2, ParserFields, LenProperties
  <2> QED
    BY ONLY <2>1, <2>3, SMT
<1> QED
  BY <1>1, <1>2 DEF Advances

\* The server's loop.
LEMMA IterationAdvances ==
  ASSUME NEW r, Goes(r, MaxFrame)
  PROVE  Advances(r, Iteration(r), MaxFrame)
<1> DEFINE p == r.parser
<1>1. MaxFrame \in Nat /\ r.more
  BY Limits DEF Goes
<1>2. CASE Waits(p)
  <2>1. Iteration(r) = [r EXCEPT !.more = FALSE]
    BY <1>1, <1>2 DEF Iteration, Waits, Await
  <2> QED
    BY <1>1, <1>2, <2>1, StopsWaiting
<1>3. CASE Refuses(p, MaxFrame)
  <2>1. Iteration(r) = [r EXCEPT !.more = FALSE, !.bad = TRUE]
    BY <1>1, <1>3 DEF Iteration, Refuses
  <2> QED
    BY <1>1, <1>3, <2>1, StopsRefusing
<1>4. CASE Accepts(p, MaxFrame)
  <2>1. Iteration(r) = HeaderRead(r)
    BY <1>1, <1>4 DEF Iteration, Accepts, Waits, HeaderRead
  <2> QED
    BY <1>1, <1>4, <2>1, ReadsHeader
<1>5. CASE ~p.reading /\ ~Waits(p)
  <2>1. Iteration(r) = PayloadFound(r)
    BY <1>1, <1>5 DEF Iteration, Waits, Await, PayloadFound
  <2> QED
    BY <1>1, <1>5, <2>1, FindsPayload
<1> QED
  BY <1>2, <1>3, <1>4, <1>5 DEF Refuses, Accepts, Waits

\* The client's loop: a turn reads the length and goes on to the payload.
LEMMA RoundAdvances ==
  ASSUME NEW r, Goes(r, ClientMax)
  PROVE  Advances(r, Round(r), ClientMax)
<1> DEFINE p == r.parser
           h == HeaderRead(r)
<1>1. ClientMax \in Nat /\ r.more /\ r \in Results(ClientMax)
  BY Limits DEF Goes
<1>2. CASE Waits(p)
  <2>1. Round(r) = [r EXCEPT !.more = FALSE]
    <3>1. CASE p.reading
      BY <1>1, <1>2, <3>1 DEF Round, Waits
    <3>2. CASE ~p.reading
      <4>1. Round(r) = [r EXCEPT !.parser = r.parser, !.more = FALSE]
        BY <1>1, <1>2, <3>2 DEF Round, Waits
      <4> QED
        BY <1>1, <4>1 DEF Results
    <3> QED
      BY <3>1, <3>2
  <2> QED
    BY <1>1, <1>2, <2>1, StopsWaiting
<1>3. CASE Refuses(p, ClientMax)
  <2>1. Round(r) = [r EXCEPT !.more = FALSE, !.bad = TRUE]
    BY <1>1, <1>3 DEF Round, Refuses
  <2> QED
    BY <1>1, <1>3, <2>1, StopsRefusing
<1>4. CASE Accepts(p, ClientMax)
  <2>1. Advances(r, h, ClientMax) /\ Goes(h, ClientMax) /\ ~h.parser.reading
    BY <1>1, <1>4, ReadsHeader
  <2>2. h = [r EXCEPT !.parser = ReadLength(p)] /\ h.parser = ReadLength(p) /\ h.found = r.found
    BY <1>1 DEF HeaderRead, Results
  <2>3. CASE Waits(h.parser)
    <3>1. Round(r) = [r EXCEPT !.parser = ReadLength(p), !.more = FALSE]
      BY <1>1, <1>4, <2>1, <2>2, <2>3 DEF Round, Accepts, Waits
    <3>2. Round(r) = [h EXCEPT !.more = FALSE]
      BY <1>1, <2>2, <3>1 DEF Results
    <3>3. Advances(h, Round(r), ClientMax)
      BY <1>1, <2>1, <2>3, <3>2, StopsWaiting
    <3> QED
      BY <1>1, <2>1, <3>3, AdvancesTwice
  <2>4. CASE ~Waits(h.parser)
    <3> DEFINE q == ReadLength(p)
    <3>1. Round(r) = [r EXCEPT !.parser = NextFrame(q), !.found = Append(@, SubSeq(q.buf, 1, q.want))]
      BY <1>1, <1>4, <2>1, <2>2, <2>4 DEF Round, Accepts, Waits
    <3>2. PayloadFound(h) = [h EXCEPT !.parser = NextFrame(q), !.found = Append(h.found, SubSeq(q.buf, 1, q.want))]
      BY <2>2 DEF PayloadFound
    <3> HIDE DEF q
    <3>3. Round(r) = PayloadFound(h)
      BY <1>1, <2>2, <3>1, <3>2 DEF Results
    <3>4. Advances(h, Round(r), ClientMax)
      BY <1>1, <2>1, <2>4, <3>3, FindsPayload
    <3> QED
      BY <1>1, <2>1, <3>4, AdvancesTwice
  <2> QED
    BY <2>3, <2>4
<1>5. CASE ~p.reading /\ ~Waits(p)
  <2>1. Round(r) = PayloadFound(r)
    BY <1>1, <1>5 DEF Round, Waits, PayloadFound
  <2> QED
    BY <1>1, <1>5, <2>1, FindsPayload
<1> QED
  BY <1>2, <1>3, <1>4, <1>5 DEF Refuses, Accepts, Waits

\* What holds of a loop after n turns, p being the parser it began with.
Sound(r, p, n, m) ==
  /\ r \in Results(m)
  /\ r.more => ~r.bad /\ Len(r.parser.buf) + n <= Len(p.buf)
  /\ ~r.more => IF r.bad THEN Refuses(r.parser, m) ELSE Waits(r.parser)
  /\ \A d \in Seq(Payload) : Total(d, r) = Wire(d) \o Pending(p)

LEMMA TurnSound ==
  ASSUME NEW m \in Nat, NEW p \in Parsers(m), NEW n \in Nat, NEW r, NEW s, Sound(r, p, n, m),
         IF r.more THEN Advances(r, s, m) ELSE s = r
  PROVE  Sound(s, p, n + 1, m)
<1>1. CASE ~r.more
  BY <1>1 DEF Sound
<1>2. CASE r.more
  <2>1. Advances(r, s, m) /\ r \in Results(m) /\ s \in Results(m)
    BY <1>2 DEF Sound, Advances
  <2>2. \A d \in Seq(Payload) : Total(d, s) = Wire(d) \o Pending(p)
    BY <2>1 DEF Sound, Advances
  <2>3. ASSUME s.more PROVE Len(s.parser.buf) + (n + 1) <= Len(p.buf)
    <3> DEFINE a == Len(r.parser.buf)
               b == Len(s.parser.buf)
               c == Len(p.buf)
    <3>1. a + n <= c /\ b < a
      BY <1>2, <2>1, <2>3 DEF Sound, Advances
    <3>2. r.parser \in Parsers(m) /\ s.parser \in Parsers(m)
      BY <2>1 DEF Results
    <3>3. a \in Nat /\ b \in Nat /\ c \in Nat
      BY <3>2, ParserFields, LenProperties
    <3> HIDE DEF a, b, c
    <3>4. b + (n + 1) <= c
      BY <3>1, <3>3, SMT
    <3> QED
      BY <3>4 DEF b, c
  <2> QED
    BY <2>1, <2>2, <2>3 DEF Sound, Advances
<1> QED
  BY <1>1, <1>2

LEMMA BeginSound ==
  ASSUME NEW m \in Nat, NEW p \in Parsers(m)
  PROVE  Sound(Begin(p), p, 0, m)
<1>1. <<>> \in Seq(Payload)
  BY EmptySeq
<1>2. Begin(p) \in Results(m)
  BY <1>1 DEF Begin, Results
<1>3. Len(p.buf) \in Nat
  BY ParserFields, LenProperties
<1>4. Len(p.buf) + 0 <= Len(p.buf)
  BY <1>3, SMT
<1>5. ASSUME NEW d \in Seq(Payload) PROVE Total(d, Begin(p)) = Wire(d) \o Pending(p)
  <2>1. d \o <<>> = d
    BY ConcatEmptySeq
  <2> QED
    BY <2>1 DEF Total, Begin
<1>6. Begin(p).more /\ ~Begin(p).bad /\ Begin(p).parser = p
  BY DEF Begin
<1> QED
  BY <1>2, <1>4, <1>5, <1>6 DEF Sound

\* A loop over results whose turns are given by the function turn.
LEMMA TurnsExist ==
  ASSUME NEW m \in Nat, NEW p \in Parsers(m), NEW turn \in [Results(m) -> Results(m)]
  PROVE  \E h \in [0..(Len(p.buf) + 1) -> Results(m)] :
           h[0] = Begin(p) /\ \A i \in 1..(Len(p.buf) + 1) : h[i] = turn[h[i - 1]]
<1> DEFINE n == Len(p.buf) + 1
           g == [x \in Results(m) \X (1..n) |-> turn[x[1]]]
<1>1. Len(p.buf) \in Nat
  BY ParserFields, LenProperties
<1>2. n \in Nat
  BY <1>1, SMT
<1>3. g \in [Results(m) \X (1..n) -> Results(m)]
  OBVIOUS
<1>4. Begin(p) \in Results(m)
  BY BeginSound DEF Sound
<1>5. PICK h \in [0..n -> Results(m)] : h[0] = Begin(p) /\ \A i \in 1..n : h[i] = g[<<h[i - 1], i>>]
  <2> HIDE DEF g, n
  <2>1. \E h : Loop(h, Results(m), Begin(p), n, g)
    BY <1>2, <1>3, <1>4, LoopExists
  <2> QED
    BY <2>1 DEF Loop
<1>6. ASSUME NEW i \in 1..n PROVE h[i] = turn[h[i - 1]]
  <2>1. i - 1 \in 0..n
    BY <1>2, SMT
  <2> QED
    BY <1>5, <2>1
<1> QED
  BY <1>5, <1>6

\* A loop whose every turn is one of those above ends, at a bad length or where bytes
\* are missing; what it has found and left is what it was given.
Ends(r, p, m) ==
  /\ r \in Results(m)
  /\ IF r.bad THEN Refuses(r.parser, m) ELSE Waits(r.parser)
  /\ \A d \in Seq(Payload) : Total(d, r) = Wire(d) \o Pending(p)

Turns(f, p, m) ==
  \A i \in 1..(Len(p.buf) + 1) : Sound(f[i - 1], p, i - 1, m) =>
    IF f[i - 1].more THEN Advances(f[i - 1], f[i], m) ELSE f[i] = f[i - 1]

LEMMA LoopEnds ==
  ASSUME NEW m \in Nat, NEW p \in Parsers(m), NEW f, f[0] = Begin(p), Turns(f, p, m)
  PROVE  Ends(f[Len(p.buf) + 1], p, m)
<1> DEFINE n == Len(p.buf) + 1
           H == {i \in Nat : Sound(f[i], p, i, m)}
<1>1. Len(p.buf) \in Nat
  BY ParserFields, LenProperties
<1>2. n \in Nat /\ n \in 0..n
  BY <1>1, SMT
<1>3. 0 \in H
  BY BeginSound
<1>4. \A i \in 1..n : Sound(f[i - 1], p, i - 1, m) => IF f[i - 1].more THEN Advances(f[i - 1], f[i], m) ELSE f[i] = f[i - 1]
  BY DEF Turns
<1> HIDE DEF n
<1>5. ASSUME NEW i \in 1..n, i - 1 \in H PROVE i \in H
  <2>1. i \in Nat /\ i - 1 \in Nat /\ (i - 1) + 1 = i
    BY <1>2, SMT
  <2>2. Sound(f[i], p, (i - 1) + 1, m)
    BY <1>4, <1>5, <2>1, TurnSound
  <2> QED
    BY <2>1, <2>2
<1>6. Sound(f[n], p, n, m)
  <2>1. \A i \in 0..n : i \in H
    <3> HIDE DEF H
    <3> QED
      BY <1>2, <1>3, <1>5, Climb
  <2> QED
    BY <1>2, <2>1
<1>7. ~f[n].more
  <2> SUFFICES ASSUME f[n].more PROVE FALSE
    OBVIOUS
  <2> DEFINE a == Len(f[n].parser.buf)
             b == Len(p.buf)
  <2>1. f[n] \in Results(m) /\ a + n <= b
    BY <1>6 DEF Sound
  <2>2. f[n].parser \in Parsers(m)
    BY <2>1 DEF Results
  <2>3. a \in Nat /\ b \in Nat /\ n = b + 1
    BY <1>1, <2>2, ParserFields, LenProperties DEF n
  <2> HIDE DEF a, b
  <2> QED
    BY <2>1, <2>3, SMT
<1> QED
  BY <1>6, <1>7 DEF Sound, Ends, n

\* f holds what the server's loop has done after each turn.
Runs(f, p) == f = [n \in 0..(Len(p.buf) + 1) |-> IF n = 0 THEN Begin(p) ELSE Iteration(f[n - 1])]

LEMMA IterationTurn ==
  ASSUME NEW r \in Results(MaxFrame)
  PROVE  /\ IF r.more THEN Advances(r, Iteration(r), MaxFrame) ELSE Iteration(r) = r
         /\ Iteration(r) \in Results(MaxFrame)
<1>1. CASE ~r.more
  BY <1>1 DEF Iteration
<1>2. CASE r.more
  <2>1. Goes(r, MaxFrame)
    BY <1>2 DEF Goes, Results
  <2>2. Advances(r, Iteration(r), MaxFrame)
    BY <2>1, IterationAdvances
  <2> QED
    BY <1>2, <2>2 DEF Advances
<1> QED
  BY <1>1, <1>2

LEMMA ParseExists ==
  ASSUME NEW p \in Parsers(MaxFrame)
  PROVE  \E f : Runs(f, p)
<1> DEFINE n == Len(p.buf) + 1
           turn == [r \in Results(MaxFrame) |-> Iteration(r)]
<1>1. MaxFrame \in Nat
  BY Limits
<1>2. turn \in [Results(MaxFrame) -> Results(MaxFrame)]
  BY IterationTurn
<1>3. PICK h \in [0..n -> Results(MaxFrame)] : h[0] = Begin(p) /\ \A i \in 1..n : h[i] = turn[h[i - 1]]
  <2> HIDE DEF turn
  <2> QED
    BY <1>1, <1>2, TurnsExist
<1>4. Len(p.buf) \in Nat
  BY <1>1, ParserFields, LenProperties
<1>5. n \in Nat
  BY <1>4, SMT
<1>6. ASSUME NEW i \in 0..n PROVE h[i] = IF i = 0 THEN Begin(p) ELSE Iteration(h[i - 1])
  <2>1. i # 0 => i \in 1..n /\ i - 1 \in 0..n
    BY <1>5, SMT
  <2> QED
    BY <1>3, <2>1
<1>7. h = [i \in 0..n |-> h[i]]
  OBVIOUS
<1>8. Runs(h, p)
  BY <1>6, <1>7 DEF Runs
<1> QED
  BY <1>8

LEMMA ParseSound ==
  ASSUME NEW p \in Parsers(MaxFrame)
  PROVE  Ends(Parse(p), p, MaxFrame)
<1> DEFINE n == Len(p.buf) + 1
<1>1. MaxFrame \in Nat
  BY Limits
<1>2. PICK f : Runs(f, p) /\ Parse(p) = f[n]
  <2>1. Parse(p) = (CHOOSE f : Runs(f, p))[n]
    BY DEF Parse, Runs
  <2> QED
    BY <2>1, ParseExists
<1>3. Len(p.buf) \in Nat
  BY <1>1, ParserFields, LenProperties
<1>4. n \in Nat /\ 0 \in 0..n
  BY <1>3, SMT
<1>5. \A i \in 0..n : f[i] = IF i = 0 THEN Begin(p) ELSE Iteration(f[i - 1])
  BY <1>2 DEF Runs
<1>6. f[0] = Begin(p)
  BY <1>4, <1>5
<1>7. Turns(f, p, MaxFrame)
  <2> SUFFICES ASSUME NEW i \in 1..n, Sound(f[i - 1], p, i - 1, MaxFrame)
               PROVE  IF f[i - 1].more THEN Advances(f[i - 1], f[i], MaxFrame) ELSE f[i] = f[i - 1]
    BY DEF Turns
  <2>1. i \in 0..n /\ i # 0
    BY <1>4, SMT
  <2>2. f[i] = Iteration(f[i - 1]) /\ f[i - 1] \in Results(MaxFrame)
    BY <1>5, <2>1 DEF Sound
  <2> QED
    BY <2>2, IterationTurn
<1> QED
  BY <1>1, <1>2, <1>6, <1>7, LoopEnds

\* And the client's.
FeedRuns(f, p) == f = [n \in 0..(Len(p.buf) + 1) |-> IF n = 0 THEN Begin(p) ELSE Round(f[n - 1])]

LEMMA RoundTurn ==
  ASSUME NEW r \in Results(ClientMax)
  PROVE  /\ IF r.more THEN Advances(r, Round(r), ClientMax) ELSE Round(r) = r
         /\ Round(r) \in Results(ClientMax)
<1>1. CASE ~r.more
  BY <1>1 DEF Round
<1>2. CASE r.more
  <2>1. Goes(r, ClientMax)
    BY <1>2 DEF Goes, Results
  <2>2. Advances(r, Round(r), ClientMax)
    BY <2>1, RoundAdvances
  <2> QED
    BY <1>2, <2>2 DEF Advances
<1> QED
  BY <1>1, <1>2

LEMMA FeedLoopExists ==
  ASSUME NEW p \in Parsers(ClientMax)
  PROVE  \E f : FeedRuns(f, p)
<1> DEFINE n == Len(p.buf) + 1
           turn == [r \in Results(ClientMax) |-> Round(r)]
<1>1. ClientMax \in Nat
  BY Limits
<1>2. turn \in [Results(ClientMax) -> Results(ClientMax)]
  BY RoundTurn
<1>3. PICK h \in [0..n -> Results(ClientMax)] : h[0] = Begin(p) /\ \A i \in 1..n : h[i] = turn[h[i - 1]]
  <2> HIDE DEF turn
  <2> QED
    BY <1>1, <1>2, TurnsExist
<1>4. Len(p.buf) \in Nat
  BY <1>1, ParserFields, LenProperties
<1>5. n \in Nat
  BY <1>4, SMT
<1>6. ASSUME NEW i \in 0..n PROVE h[i] = IF i = 0 THEN Begin(p) ELSE Round(h[i - 1])
  <2>1. i # 0 => i \in 1..n /\ i - 1 \in 0..n
    BY <1>5, SMT
  <2> QED
    BY <1>3, <2>1
<1>7. h = [i \in 0..n |-> h[i]]
  OBVIOUS
<1>8. FeedRuns(h, p)
  BY <1>6, <1>7 DEF FeedRuns
<1> QED
  BY <1>8

LEMMA FeedLoopSound ==
  ASSUME NEW p \in Parsers(ClientMax)
  PROVE  Ends(FeedLoop(p), p, ClientMax)
<1> DEFINE n == Len(p.buf) + 1
<1>1. ClientMax \in Nat
  BY Limits
<1>2. PICK f : FeedRuns(f, p) /\ FeedLoop(p) = f[n]
  <2>1. FeedLoop(p) = (CHOOSE f : FeedRuns(f, p))[n]
    BY DEF FeedLoop, FeedRuns
  <2> QED
    BY <2>1, FeedLoopExists
<1>3. Len(p.buf) \in Nat
  BY <1>1, ParserFields, LenProperties
<1>4. n \in Nat /\ 0 \in 0..n
  BY <1>3, SMT
<1>5. \A i \in 0..n : f[i] = IF i = 0 THEN Begin(p) ELSE Round(f[i - 1])
  BY <1>2 DEF FeedRuns
<1>6. f[0] = Begin(p)
  BY <1>4, <1>5
<1>7. Turns(f, p, ClientMax)
  <2> SUFFICES ASSUME NEW i \in 1..n, Sound(f[i - 1], p, i - 1, ClientMax)
               PROVE  IF f[i - 1].more THEN Advances(f[i - 1], f[i], ClientMax) ELSE f[i] = f[i - 1]
    BY DEF Turns
  <2>1. i \in 0..n /\ i # 0
    BY <1>4, SMT
  <2>2. f[i] = Round(f[i - 1]) /\ f[i - 1] \in Results(ClientMax)
    BY <1>5, <2>1 DEF Sound
  <2> QED
    BY <2>2, RoundTurn
<1> QED
  BY <1>1, <1>2, <1>6, <1>7, LoopEnds

-----------------------------------------------------------------------------
(* The stream and the two parsers.                                           *)

LEMMA BeginsItself ==
  ASSUME NEW S, NEW s \in Seq(S)
  PROVE  Begins(s, s)
<1>1. Len(s) \in Nat
  BY LenProperties
<1>2. Len(s) \in 0..Len(s)
  BY <1>1, SMT
<1>3. s = SubSeq(s, 1, Len(s))
  BY SubSeqFull
<1> QED
  BY <1>2, <1>3 DEF Begins

LEMMA BeginsGrows ==
  ASSUME NEW S, NEW s \in Seq(S), NEW t \in Seq(S), NEW f \in Seq(S), Begins(s, t)
  PROVE  Begins(s, t \o f)
<1>1. Len(t) \in Nat /\ Len(f) \in Nat
  BY LenProperties
<1>2. Len(t \o f) = Len(t) + Len(f)
  BY ConcatProperties
<1>3. PICK k \in 0..Len(t) : s = SubSeq(t, 1, k)
  BY DEF Begins
<1>4. k \in 0..Len(t \o f)
  <2> DEFINE a == Len(t)
             b == Len(f)
  <2>1. a \in Nat /\ b \in Nat /\ k \in 0..a /\ Len(t \o f) = a + b
    BY <1>1, <1>2
  <2> HIDE DEF a, b
  <2> QED
    BY <2>1, SMT
<1>5. SubSeq(t \o f, 1, k) = SubSeq(t, 1, k)
  <2>1. CASE k = 0
    <3>1. 1 \in Int /\ k \in Int /\ k < 1
      BY <2>1, SMT
    <3> QED
      BY <3>1, SubSeqEmpty
  <2>2. CASE k # 0
    <3>1. 1 \in 1..Len(t) /\ k \in 1..Len(t)
      BY <1>1, <2>2, SMT
    <3> QED
      BY <3>1, SubSeqOfConcat1, SMT
  <2> QED
    BY <2>1, <2>2
<1> QED
  BY <1>3, <1>4, <1>5 DEF Begins

\* What recv returned is appended to what is pending.
LEMMA FillPends ==
  ASSUME NEW m \in Nat, NEW p \in Parsers(m), NEW chunk \in Seq(Bytes)
  PROVE  Fill(p, chunk) \in Parsers(m) /\ Pending(Fill(p, chunk)) = Pending(p) \o chunk
<1> DEFINE q == Fill(p, chunk)
           b == p.buf
<1>1. b \in Seq(Bytes) /\ p.want \in Lengths
  BY ParserFields
<1>2. b \o chunk \in Seq(Bytes)
  BY <1>1, ConcatProperties
<1>3. q = [p EXCEPT !.buf = b \o chunk]
  BY DEF Fill
<1> DEFINE new == b \o chunk
<1> HIDE DEF new
<1>4. q \in Parser(m) /\ q.buf = new /\ q.reading = p.reading /\ q.want = p.want
  <2>1. q = [p EXCEPT !.buf = new] /\ new \in Seq(Bytes)
    BY <1>2, <1>3 DEF new
  <2> HIDE DEF q
  <2>2. CASE p \in [buf : Seq(Bytes), reading : {TRUE}, want : {4}]
    <3>1. q \in [buf : Seq(Bytes), reading : {TRUE}, want : {4}]
      BY <2>1, <2>2
    <3>2. q.buf = new /\ q.reading = p.reading /\ q.want = p.want
      BY <2>1, <2>2
    <3> QED
      BY <3>1, <3>2 DEF Parser
  <2>3. CASE p \in [buf : Seq(Bytes), reading : {FALSE}, want : 1..m]
    <3>1. q \in [buf : Seq(Bytes), reading : {FALSE}, want : 1..m]
      BY <2>1, <2>3
    <3>2. q.buf = new /\ q.reading = p.reading /\ q.want = p.want
      BY <2>1, <2>3
    <3> QED
      BY <3>1, <3>2 DEF Parser
  <2> QED
    BY <2>2, <2>3 DEF Parsers, Parser
<1>5. q.buf = b \o chunk /\ q.reading = p.reading /\ q.want = p.want
  BY <1>4 DEF new
<1>6. q \in Parsers(m)
  BY <1>1, <1>4, <1>5 DEF Parsers
<1>7. Header(p.want) \o (b \o chunk) = (Header(p.want) \o b) \o chunk
  <2>1. Header(p.want) \in Seq(Octet) /\ b \in Seq(Octet) /\ chunk \in Seq(Octet)
    BY <1>1, HeaderInverts, BytesAreOctets
  <2>2. Assoc(Header(p.want), b, chunk)
    BY <2>1, Associative
  <2> QED
    BY <2>2 DEF Assoc
<1> QED
  BY <1>5, <1>6, <1>7 DEF Pending

\* The inductive invariant: what the two properties say, with the parsers at rest.
ServerInv ==
  /\ fed \in Seq(Bytes) /\ server \in Parsers(MaxFrame)
  /\ dispatched \in Seq(Payload) /\ closing \in BOOLEAN
  /\ fed = Wire(dispatched) \o Pending(server)
  /\ closing \/ Waits(server)

ClientInv ==
  /\ fed \in Seq(Bytes) /\ client \in Parsers(ClientMax)
  /\ returned \in Seq(Payload) /\ lost \in Seq(Payload) /\ thrown \in BOOLEAN
  /\ IF thrown THEN Begins(Wire(returned \o lost) \o Pending(client), fed) /\ Refuses(client, ClientMax)
     ELSE fed = Wire(returned) \o Pending(client) /\ lost = <<>> /\ Waits(client)

FrameInv == ServerInv /\ ClientInv

LEMMA InitFrame == Init => FrameInv
<1> SUFFICES ASSUME Init PROVE FrameInv
  OBVIOUS
<1>1. <<>> \in Seq(Bytes) /\ <<>> \in Seq(Payload) /\ Len(<<>>) = 0
  BY EmptySeq
<1>2. Start \in Parsers(MaxFrame) /\ Start \in Parsers(ClientMax) /\ Start.reading /\ Start.buf = <<>>
  BY <1>1, Limits, ReadingParser DEF Start
<1>3. Waits(Start)
  BY <1>1, <1>2, SMT DEF Waits
<1>4. Wire(<<>>) \o Pending(Start) = <<>>
  <2>1. <<>> \o <<>> = <<>>
    BY <1>1, ConcatEmptySeq
  <2> QED
    BY <1>2, <2>1, WireEmpty DEF Pending
<1> QED
  BY <1>1, <1>2, <1>3, <1>4 DEF Init, FrameInv, ServerInv, ClientInv

LEMMA ChunksAreSequences ==
  ASSUME NEW chunk \in Chunks
  PROVE  chunk \in Seq(Bytes)
<1>1. PICK n \in 1..MaxChunk : chunk \in [1..n -> Bytes]
  BY DEF Chunks
<1>2. n \in Nat
  BY SMT
<1> QED
  BY <1>1, <1>2, SeqDef

\* One more piece: what has been given out, what has become complete in it and what is
\* then pending are the bytes before and the piece.
Kept(d, p, chunk, r) == (Wire(d) \o Pending(p)) \o chunk = Wire(d \o r.found) \o Pending(r.parser)

LEMMA PieceKeeps ==
  ASSUME NEW m \in Nat, NEW p \in Parsers(m), NEW d \in Seq(Payload), NEW chunk \in Seq(Bytes),
         NEW r, Ends(r, Fill(p, chunk), m)
  PROVE  Kept(d, p, chunk, r)
<1> DEFINE w == Wire(d)
           e == Pending(p)
<1>1. Pending(Fill(p, chunk)) = e \o chunk
  BY FillPends
<1>2. Wire(d \o r.found) \o Pending(r.parser) = w \o (e \o chunk)
  <2>1. Total(d, r) = w \o Pending(Fill(p, chunk))
    BY DEF Ends
  <2> QED
    BY <1>1, <2>1 DEF Total
<1>3. w \o (e \o chunk) = (w \o e) \o chunk
  <2>1. w \in Seq(Octet) /\ e \in Seq(Octet) /\ chunk \in Seq(Octet)
    BY WireType, PendingType, BytesAreOctets
  <2> HIDE DEF w, e
  <2>2. Assoc(w, e, chunk)
    BY <2>1, Associative
  <2> QED
    BY <2>1, <2>2 DEF Assoc
<1> QED
  BY <1>2, <1>3 DEF Kept

\* One recv: the parser dispatches what has become complete, and is at rest again.
LEMMA OnReadableStep ==
  ASSUME ServerInv, NEW chunk \in Chunks, OnReadable(chunk), fed' = fed \o chunk
  PROVE  ServerInv'
<1> DEFINE q == Fill(server, chunk)
           r == Parse(q)
<1>1. chunk \in Seq(Bytes) /\ fed \in Seq(Bytes) /\ server \in Parsers(MaxFrame) /\ dispatched \in Seq(Payload)
  BY ChunksAreSequences DEF ServerInv
<1>2. q \in Parsers(MaxFrame)
  BY <1>1, Limits, FillPends
<1>3. Ends(r, q, MaxFrame)
  BY <1>2, ParseSound
<1>4. server' = r.parser /\ dispatched' = dispatched \o r.found /\ closing' = (closing \/ r.bad)
  BY DEF OnReadable
<1> HIDE DEF r
<1>5. r.parser \in Parsers(MaxFrame) /\ r.found \in Seq(Payload) /\ r.bad \in BOOLEAN /\ (r.bad \/ Waits(r.parser))
  BY <1>3 DEF Ends, Results
<1>6. dispatched' \in Seq(Payload) /\ fed' \in Seq(Bytes)
  BY <1>1, <1>4, <1>5, ConcatProperties
<1>7. fed \o chunk = Wire(dispatched \o r.found) \o Pending(r.parser)
  <2>1. fed = Wire(dispatched) \o Pending(server)
    BY DEF ServerInv
  <2>2. Kept(dispatched, server, chunk, r)
    BY <1>1, <1>3, Limits, PieceKeeps
  <2> QED
    BY <2>1, <2>2 DEF Kept
<1> QED
  BY <1>4, <1>5, <1>6, <1>7 DEF ServerInv

\* One call of feed: what has become complete is returned, or lost with a bad length.
LEMMA FeedStep ==
  ASSUME ClientInv, NEW chunk \in Chunks, Feed(chunk), fed' = fed \o chunk
  PROVE  ClientInv'
<1> DEFINE q == Fill(client, chunk)
           r == FeedLoop(q)
<1>1. /\ chunk \in Seq(Bytes) /\ fed \in Seq(Bytes) /\ client \in Parsers(ClientMax)
      /\ returned \in Seq(Payload) /\ lost \in Seq(Payload) /\ thrown \in BOOLEAN
  BY ChunksAreSequences DEF ClientInv
<1>2. fed' \in Seq(Bytes)
  BY <1>1, ConcatProperties
<1>3. CASE thrown
  <2> DEFINE taken == Wire(returned \o lost) \o Pending(client)
  <2>1. client' = client /\ returned' = returned /\ lost' = lost /\ thrown' = thrown
    BY <1>3 DEF Feed
  <2>2. Begins(taken, fed) /\ Refuses(client, ClientMax)
    BY <1>3 DEF ClientInv
  <2>3. taken \in Seq(Octet) /\ fed \in Seq(Octet) /\ chunk \in Seq(Octet)
    <3>1. returned \o lost \in Seq(Payload)
      BY <1>1, ConcatProperties
    <3>2. Wire(returned \o lost) \in Seq(Octet) /\ Pending(client) \in Seq(Octet)
      BY <1>1, <3>1, Limits, WireType, PendingType
    <3> QED
      BY <1>1, <3>2, ConcatProperties, BytesAreOctets
  <2>4. Begins(taken, fed \o chunk)
    <3> HIDE DEF taken
    <3> QED
      BY <2>2, <2>3, BeginsGrows
  <2> QED
    BY <1>1, <1>2, <1>3, <2>1, <2>2, <2>4 DEF ClientInv
<1>4. CASE ~thrown
  <2>1. q \in Parsers(ClientMax)
    BY <1>1, Limits, FillPends
  <2>2. Ends(r, q, ClientMax)
    BY <2>1, FeedLoopSound
  <2>3. /\ client' = r.parser /\ thrown' = r.bad
        /\ returned' = IF r.bad THEN returned ELSE returned \o r.found
        /\ lost' = IF r.bad THEN r.found ELSE lost
    BY <1>4 DEF Feed
  <2> HIDE DEF r
  <2>4. /\ r.parser \in Parsers(ClientMax) /\ r.found \in Seq(Payload) /\ r.bad \in BOOLEAN
        /\ IF r.bad THEN Refuses(r.parser, ClientMax) ELSE Waits(r.parser)
    BY <2>2 DEF Ends, Results
  <2>5. fed = Wire(returned) \o Pending(client) /\ lost = <<>>
    BY <1>4 DEF ClientInv
  <2>6. fed' = Wire(returned \o r.found) \o Pending(r.parser)
    <3>1. Kept(returned, client, chunk, r)
      BY <1>1, <2>2, Limits, PieceKeeps
    <3> QED
      BY <2>5, <3>1 DEF Kept
  <2>7. returned \o r.found \in Seq(Payload)
    BY <1>1, <2>4, ConcatProperties
  <2>8. CASE r.bad
    <3>1. Begins(fed', fed')
      BY <1>2, BeginsItself
    <3> QED
      BY <1>1, <1>2, <2>3, <2>4, <2>6, <2>8, <3>1 DEF ClientInv
  <2>9. CASE ~r.bad
    BY <1>1, <1>2, <2>3, <2>4, <2>5, <2>6, <2>7, <2>9 DEF ClientInv
  <2> QED
    BY <2>8, <2>9
<1> QED
  BY <1>3, <1>4

LEMMA FrameStep == FrameInv /\ [Next]_vars => FrameInv'
<1> SUFFICES ASSUME FrameInv, [Next]_vars PROVE FrameInv'
  OBVIOUS
<1>1. CASE Next
  <2>1. PICK chunk \in Chunks : Receive(chunk)
    BY <1>1 DEF Next
  <2>2. fed' = fed \o chunk /\ OnReadable(chunk) /\ Feed(chunk)
    BY <2>1 DEF Receive
  <2> QED
    BY <2>2, OnReadableStep, FeedStep DEF FrameInv
<1>2. CASE UNCHANGED vars
  BY <1>2 DEF FrameInv, ServerInv, ClientInv, vars
<1> QED
  BY <1>1, <1>2

\* The inductive invariant of the two parsers holds on every stream, however it is
\* cut: each has accounted for every byte it was given, and is at rest between two
\* calls (Connection::on_readable, FrameDecoder::feed).
THEOREM FramingInvariant == Spec => []FrameInv
<1>1. Init => FrameInv
  BY InitFrame
<1>2. FrameInv /\ [Next]_vars => FrameInv'
  BY FrameStep
<1> QED
  BY <1>1, <1>2, PTL DEF Spec

\* What is pending begins with the length that was read.
LEMMA PendingLength ==
  ASSUME NEW m \in Nat, NEW p \in Parsers(m), ~p.reading
  PROVE  Len(Pending(p)) = 4 + Len(p.buf) /\ Length(Pending(p)) = p.want
<1> DEFINE h == Header(p.want)
           b == p.buf
           t == h \o b
<1>1. b \in Seq(Octet) /\ p.want \in Lengths
  BY ParserFields, BytesAreOctets
<1>2. h \in Seq(Octet) /\ Len(h) = 4 /\ Length(h) = p.want
  BY <1>1, HeaderInverts
<1>3. Len(b) \in Nat
  BY <1>1, LenProperties
<1> HIDE DEF h, b
<1>4. Len(t) = 4 + Len(b)
  <2>1. b \in Seq(Octet)
    BY <1>1 DEF b
  <2>2. Len(t) = Len(h) + Len(b)
    BY <1>2, <2>1, ConcatProperties
  <2> QED
    BY <1>2, <2>2
<1>5. ASSUME NEW i \in 1..4 PROVE t[i] = h[i]
  <2>1. i \in 1..(Len(h) + Len(b)) /\ i <= Len(h)
    BY <1>2, <1>3, SMT
  <2>2. b \in Seq(Octet)
    BY <1>1 DEF b
  <2>3. \A j \in 1..(Len(h) + Len(b)) : t[j] = IF j <= Len(h) THEN h[j] ELSE b[j - Len(h)]
    BY <1>2, <2>2, ConcatProperties
  <2> QED
    BY <2>1, <2>3
<1>6. 1 \in 1..4 /\ 2 \in 1..4 /\ 3 \in 1..4 /\ 4 \in 1..4
  BY SMT
<1>7. t[1] = h[1] /\ t[2] = h[2] /\ t[3] = h[3] /\ t[4] = h[4]
  BY <1>5, <1>6
<1> HIDE DEF t
<1>8. Length(t) = Length(h)
  BY <1>7, SMT DEF Length
<1>9. Pending(p) = t
  BY DEF Pending, t, h, b
<1> QED
  BY <1>2, <1>4, <1>8, <1>9 DEF b

\* A parser at rest keeps less than a frame.
LEMMA RestIsIncomplete ==
  ASSUME NEW m \in Nat, NEW p \in Parsers(m), Waits(p)
  PROVE  Incomplete(Pending(p), m)
<1> DEFINE rest == Pending(p)
<1>1. CASE p.reading
  BY <1>1 DEF Waits, Pending, Incomplete
<1>2. CASE ~p.reading
  <2> DEFINE a == Len(p.buf)
             n == p.want
  <2>1. Len(rest) = 4 + a /\ Length(rest) = n
    BY <1>2, PendingLength
  <2>2. a \in Nat /\ n \in 1..m /\ a < n
    BY <1>2, ParserFields, LenProperties DEF Waits
  <2> HIDE DEF a, n
  <2>3. ~BadLength(n, m) /\ 4 + a < 4 + n
    BY <2>2, SMT DEF BadLength
  <2> QED
    BY <2>1, <2>3 DEF Incomplete
<1> QED
  BY <1>1, <1>2

\* However the stream is cut, the payloads that on_readable dispatches, framed again,
\* and the bytes it keeps are the stream, and it keeps less than a frame: for every
\* set of bytes, maximal frame and buffer.
THEOREM ServerInvertsFrameAlways == Spec => []ServerInvertsFrame
<1>1. FrameInv => ServerInvertsFrame
  <2> SUFFICES ASSUME FrameInv PROVE ServerInvertsFrame
    OBVIOUS
  <2>1. server \in Parsers(MaxFrame) /\ fed = Wire(dispatched) \o Pending(server) /\ (closing \/ Waits(server))
    BY DEF FrameInv, ServerInv
  <2>2. fed = Join([i \in DOMAIN dispatched |-> Frame(dispatched[i])]) \o Pending(server)
    BY <2>1 DEF Wire, Framed
  <2>3. ~closing => Incomplete(Pending(server), MaxFrame)
    BY <2>1, Limits, RestIsIncomplete
  <2> QED
    BY <2>2, <2>3 DEF ServerInvertsFrame
<1> QED
  BY <1>1, FramingInvariant, PTL

\* However the stream is cut, feed returns what was framed, in order, and keeps less
\* than a frame until it throws.  It throws only at a length that its own limit rules
\* out, and only the payloads found in that call are lost: for every limit, whatever
\* the server's is.
THEOREM ClientInvertsFrameAlways == Spec => []ClientInvertsFrame
<1>1. FrameInv => ClientInvertsFrame
  <2> SUFFICES ASSUME FrameInv PROVE ClientInvertsFrame
    OBVIOUS
  <2> DEFINE d == returned \o lost
             rest == Pending(client)
  <2>1. /\ client \in Parsers(ClientMax) /\ returned \in Seq(Payload) /\ thrown \in BOOLEAN
        /\ thrown => Begins(Wire(d) \o rest, fed) /\ Refuses(client, ClientMax)
        /\ ~thrown => fed = Wire(returned) \o rest /\ lost = <<>> /\ Waits(client)
    BY DEF FrameInv, ClientInv
  <2>2. Wire(d) = Join([i \in DOMAIN d |-> Frame(d[i])])
    BY DEF Wire, Framed
  <2>3. CASE thrown
    <3>1. client.reading /\ ~(Len(client.buf) < 4) /\ BadLength(Length(client.buf), ClientMax)
      BY <2>1, <2>3 DEF Refuses
    <3>2. rest = client.buf
      BY <3>1 DEF Pending
    <3>3. Len(client.buf) \in Nat
      BY <2>1, Limits, ParserFields, LenProperties
    <3>4. Len(client.buf) >= 4
      BY <3>1, <3>3, SMT
    <3> QED
      BY <2>1, <2>2, <2>3, <3>1, <3>2, <3>4 DEF ClientInvertsFrame
  <2>4. CASE ~thrown
    <3>1. d = returned
      BY <2>1, <2>4, ConcatEmptySeq
    <3>2. Incomplete(rest, ClientMax)
      BY <2>1, <2>4, Limits, RestIsIncomplete
    <3> QED
      BY <2>1, <2>2, <2>4, <3>1, <3>2 DEF ClientInvertsFrame
  <2> QED
    BY <2>3, <2>4
<1> QED
  BY <1>1, FramingInvariant, PTL

\* The composition that is model-checked feeds the parsers as Framing does.
THEOREM StreamIsFraming == StreamSpec => Spec
<1>1. StreamInit => Init
  BY DEF StreamInit
<1>2. [StreamNext]_<<vars, hasher>> => [Next]_vars
  BY DEF StreamNext, Next
<1> QED
  BY <1>1, <1>2, PTL DEF StreamSpec, Spec

-----------------------------------------------------------------------------
(* Sha256::update.                                                           *)

FullBlock == {b \in Seq(Bytes) : Len(b) = Block}

\* A Sha256 between two calls: its buffer has room.
Hashers == {h \in [buf : Seq(Bytes), n : Nat, done : Seq(FullBlock)] : Len(h.buf) < Block}

\* The bytes it was fed, and how many these are.
Taken(h) == Join(h.done) \o h.buf
Size(h) == Block * Len(h.done) + Len(h.buf)

LEMMA HasherFields ==
  ASSUME NEW h \in Hashers
  PROVE  /\ h.buf \in Seq(Bytes) /\ h.n \in Nat /\ h.done \in Seq(FullBlock) /\ h.done \in Seq(Seq(Bytes))
         /\ Len(h.buf) \in Nat /\ Len(h.done) \in Nat /\ Len(h.buf) < Block
<1>1. h.buf \in Seq(Bytes) /\ h.n \in Nat /\ h.done \in Seq(FullBlock) /\ Len(h.buf) < Block
  BY DEF Hashers
<1>2. FullBlock \subseteq Seq(Bytes)
  BY DEF FullBlock
<1>3. h.done \in Seq(Seq(Bytes))
  BY <1>1, <1>2, SeqMonotonic
<1> QED
  BY <1>1, <1>3, LenProperties

Regrouped(f, b, x, y) == (f \o (b \o x)) \o y = (f \o b) \o (x \o y)

LEMMA Regroup ==
  ASSUME NEW S, NEW f \in Seq(S), NEW b \in Seq(S), NEW x \in Seq(S), NEW y \in Seq(S)
  PROVE  Regrouped(f, b, x, y)
<1>1. f \o b \in Seq(S)
  BY ConcatProperties
<1>2. Assoc(f, b, x) /\ Assoc(f \o b, x, y)
  BY <1>1, Associative
<1> QED
  BY <1>2 DEF Assoc, Regrouped

\* The loop of update has a Sha256 and the data that is left.
Absorbing == [hash : Hashers, data : Seq(Bytes)]

\* What an iteration keeps.
LEMMA AbsorbKeeps ==
  ASSUME NEW r \in Absorbing, r.data # <<>>
  PROVE  /\ Absorb(r) \in Absorbing
         /\ Len(Absorb(r).data) < Len(r.data)
         /\ Taken(Absorb(r).hash) \o Absorb(r).data = Taken(r.hash) \o r.data
         /\ Size(Absorb(r).hash) + Len(Absorb(r).data) = Size(r.hash) + Len(r.data)
         /\ Absorb(r).hash.n = r.hash.n
<1> DEFINE h == r.hash
           data == r.data
           take == IF Block - Len(h.buf) < Len(data) THEN Block - Len(h.buf) ELSE Len(data)
           x == SubSeq(data, 1, take)
           rest == SubSeq(data, take + 1, Len(data))
           new == h.buf \o x
           filled == [h EXCEPT !.buf = new]
           g == IF Len(filled.buf) = Block THEN Compress(filled) ELSE filled
           s == Absorb(r)
           f == Join(h.done)
<1>0. s = [hash |-> g, data |-> rest]
  BY DEF Absorb
<1> HIDE DEF s
<1>. h \in Hashers /\ data \in Seq(Bytes) /\ data # <<>>
  BY DEF Absorbing
<1> HIDE DEF h, data
<1>1. /\ h.buf \in Seq(Bytes) /\ h.n \in Nat /\ h.done \in Seq(FullBlock) /\ h.done \in Seq(Seq(Bytes))
      /\ Len(h.buf) \in Nat /\ Len(h.done) \in Nat /\ Len(h.buf) < Block
  BY HasherFields
<1>2. Block \in Nat /\ Len(data) \in Nat /\ Len(data) # 0
  BY Sha256Assumption, EmptySeq, LenProperties DEF Sha256Assumption
<1>4. take \in Nat /\ take > 0 /\ take <= Len(data) /\ Len(h.buf) + take <= Block
  <2> DEFINE a == Len(h.buf)
             b == Len(data)
  <2>1. a \in Nat /\ b \in Nat /\ b # 0 /\ a < Block /\ take = IF Block - a < b THEN Block - a ELSE b
    BY <1>1, <1>2
  <2> HIDE DEF a, b, take
  <2>2. take \in Nat /\ take > 0 /\ take <= b /\ a + take <= Block
    BY <1>2, <2>1, SMT
  <2> QED
    BY <2>2 DEF a, b
<1> HIDE DEF take
<1>5. x \in Seq(Bytes) /\ Len(x) = take /\ rest \in Seq(Bytes) /\ Len(rest) = Len(data) - take /\ x \o rest = data
  BY <1>4, CutInTwo
<1> HIDE DEF x, rest
<1>6. new \in Seq(Bytes) /\ Len(new) = Len(h.buf) + take
  <2> DEFINE b == h.buf
  <2>1. b \in Seq(Bytes) /\ x \in Seq(Bytes)
    BY <1>1, <1>5
  <2> HIDE DEF b
  <2>2. b \o x \in Seq(Bytes) /\ Len(b \o x) = Len(b) + Len(x)
    BY <2>1, ConcatProperties
  <2> QED
    BY <1>5, <2>2 DEF b
<1>7. f \in Seq(Bytes)
  BY <1>1, JoinType
<1> HIDE DEF new
<1>8. filled \in [buf : Seq(Bytes), n : Nat, done : Seq(FullBlock)] /\ filled.buf = new /\ filled.n = h.n /\ filled.done = h.done
  BY <1>6 DEF Hashers
<1> HIDE DEF f
<1>9. (f \o new) \o rest = (f \o h.buf) \o data
  <2> DEFINE b == h.buf
  <2>1. b \in Seq(Bytes) /\ new = b \o x
    BY <1>1 DEF new
  <2> HIDE DEF b, new
  <2>2. Regrouped(f, b, x, rest)
    BY <1>5, <1>7, <2>1, Regroup
  <2> QED
    BY <1>5, <2>1, <2>2 DEF b, Regrouped
<1>10. /\ g \in Hashers /\ Taken(g) = f \o new /\ g.n = h.n
       /\ Size(g) = Block * Len(h.done) + Len(new)
  <2>1. CASE Len(new) = Block
    <3>1. g = [filled EXCEPT !.buf = <<>>, !.done = Append(h.done, new)]
      BY <1>8, <2>1 DEF Compress
    <3>2. new \in FullBlock /\ <<>> \in Seq(Bytes) /\ Len(<<>>) = 0
      BY <1>6, <2>1, EmptySeq DEF FullBlock
    <3>3. Append(h.done, new) \in Seq(FullBlock) /\ Len(Append(h.done, new)) = Len(h.done) + 1
      <4> DEFINE d == h.done
      <4>1. d \in Seq(FullBlock)
        BY <1>1
      <4> HIDE DEF d
      <4>2. Append(d, new) \in Seq(FullBlock) /\ Len(Append(d, new)) = Len(d) + 1
        <5> DEFINE t == Append(d, new)
        <5>1. Grown(FullBlock, d, new, t)
          BY <3>2, <4>1, AppendGrows
        <5> HIDE DEF t
        <5>2. t \in Seq(FullBlock) /\ Len(t) = Len(d) + 1
          BY <5>1 DEF Grown
        <5> QED
          BY <5>2 DEF t
      <4> QED
        BY <4>2 DEF d
    <3>4. /\ g \in [buf : Seq(Bytes), n : Nat, done : Seq(FullBlock)]
          /\ g.buf = <<>> /\ g.n = h.n /\ g.done = Append(h.done, new)
      BY <1>8, <3>1, <3>2, <3>3
    <3>5. 0 < Block
      BY Sha256Assumption, SMT DEF Sha256Assumption
    <3>6. g \in Hashers
      BY <3>2, <3>4, <3>5 DEF Hashers
    <3>7. Join(Append(h.done, new)) = f \o new
      BY <1>1, <1>6, JoinAppend DEF f
    <3>8. f \o new \in Seq(Bytes)
      BY <1>6, <1>7, ConcatProperties
    <3>9. (f \o new) \o <<>> = f \o new
      BY <3>8, ConcatEmptySeq
    <3>10. Block * (Len(h.done) + 1) + 0 = Block * Len(h.done) + Block
      BY <1>1, <1>2, SMT
    <3> HIDE DEF g
    <3> QED
      BY <2>1, <3>2, <3>3, <3>4, <3>6, <3>7, <3>9, <3>10 DEF Taken, Size
  <2>2. CASE Len(new) # Block
    <3>1. g = filled
      BY <1>8, <2>2
    <3>2. Len(new) < Block
      <4> DEFINE a == Len(h.buf)
      <4>1. a \in Nat /\ Len(new) = a + take /\ a + take <= Block
        BY <1>1, <1>4, <1>6
      <4> HIDE DEF a
      <4> QED
        BY <1>2, <1>4, <2>2, <4>1, SMT
    <3>3. g \in Hashers
      BY <1>8, <3>1, <3>2 DEF Hashers
    <3> QED
      BY <1>8, <3>1, <3>3 DEF Taken, Size, f
  <2> QED
    BY <2>1, <2>2
<1> HIDE DEF g
<1>11. s.hash = g /\ s.data = rest /\ s \in Absorbing
  BY <1>0, <1>5, <1>10 DEF Absorbing
<1>12. Len(rest) < Len(data)
  BY <1>2, <1>4, <1>5, SMT
<1>13. Size(g) + Len(rest) = Size(h) + Len(data)
  <2> DEFINE a == Len(h.buf)
             b == Len(data)
             c == Block * Len(h.done)
  <2>1. c \in Nat
    BY <1>1, <1>2, SMT
  <2>2. /\ a \in Nat /\ b \in Nat
        /\ Size(g) = c + Len(new) /\ Len(new) = a + take /\ Size(h) = c + a /\ Len(rest) = b - take
    BY <1>1, <1>2, <1>5, <1>6, <1>10 DEF Size
  <2> HIDE DEF a, b, c
  <2>3. Size(g) + Len(rest) = Size(h) + b
    BY <1>4, <2>1, <2>2, SMT
  <2> QED
    BY <2>3 DEF b
<1> QED
  BY <1>9, <1>10, <1>11, <1>12, <1>13 DEF s, f, h, data, Taken

Counted(h, data) == [hash |-> [h EXCEPT !.n = @ + Len(data)], data |-> data]

\* f holds what the loop of update has after each iteration.
Feeds(f, h, data) ==
  f = [n \in 0..Len(data) |-> IF n = 0 THEN Counted(h, data) ELSE Absorb(f[n - 1])]

LEMMA UpdateFeeds ==
  ASSUME NEW h, NEW data
  PROVE  Update(h, data) = (CHOOSE f : Feeds(f, h, data))[Len(data)].hash
BY DEF Update, Feeds, Counted

\* What holds after k iterations.
Keeps(r, h, data, k) ==
  /\ r \in Absorbing
  /\ r.data = <<>> \/ Len(r.data) + k <= Len(data)
  /\ Taken(r.hash) \o r.data = Taken(h) \o data
  /\ Size(r.hash) + Len(r.data) = Size(h) + Len(data)
  /\ r.hash.n = h.n + Len(data)

LEMMA AbsorbType ==
  ASSUME NEW r \in Absorbing
  PROVE  Absorb(r) \in Absorbing
<1>1. CASE r.data = <<>>
  BY <1>1 DEF Absorb
<1>2. CASE r.data # <<>>
  BY <1>2, AbsorbKeeps
<1> QED
  BY <1>1, <1>2

LEMMA CountedKeeps ==
  ASSUME NEW h \in Hashers, NEW data \in Seq(Bytes)
  PROVE  Keeps(Counted(h, data), h, data, 0)
<1> DEFINE m == h.n + Len(data)
           g == [h EXCEPT !.n = m]
<1>1. Len(data) \in Nat /\ h.n \in Nat
  BY HasherFields, LenProperties
<1>2. m \in Nat /\ Len(data) + 0 <= Len(data)
  BY <1>1, SMT
<1> HIDE DEF m
<1>3. g \in Hashers /\ g.n = m /\ g.buf = h.buf /\ g.done = h.done
  BY <1>2 DEF Hashers
<1>4. Counted(h, data) = [hash |-> g, data |-> data]
  BY DEF Counted, m
<1> HIDE DEF g
<1>5. Taken(g) = Taken(h) /\ Size(g) = Size(h)
  BY <1>3 DEF Taken, Size
<1>6. Counted(h, data) \in Absorbing /\ Counted(h, data).hash = g /\ Counted(h, data).data = data
  <2> DEFINE c == Counted(h, data)
  <2>1. c = [hash |-> g, data |-> data]
    BY <1>4
  <2> HIDE DEF c
  <2>2. c.hash = g /\ c.data = data /\ c \in Absorbing
    BY <1>3, <2>1 DEF Absorbing
  <2> QED
    BY <2>2 DEF c
<1> QED
  BY <1>2, <1>3, <1>5, <1>6 DEF Keeps, m

LEMMA AbsorbStep ==
  ASSUME NEW h \in Hashers, NEW data \in Seq(Bytes), NEW k \in Nat, NEW r, Keeps(r, h, data, k)
  PROVE  Keeps(Absorb(r), h, data, k + 1)
<1>1. r \in Absorbing /\ Absorb(r) \in Absorbing
  BY AbsorbType DEF Keeps
<1>2. CASE r.data = <<>>
  BY <1>2 DEF Absorb, Keeps
<1>3. CASE r.data # <<>>
  <2> DEFINE a == Len(r.data)
             b == Len(Absorb(r).data)
             c == Len(data)
  <2>1. b < a /\ a + k <= c
    BY <1>1, <1>3, AbsorbKeeps DEF Keeps
  <2>2. a \in Nat /\ b \in Nat /\ c \in Nat
    BY <1>1, LenProperties DEF Absorbing
  <2> HIDE DEF a, b, c
  <2>3. b + (k + 1) <= c
    BY <2>1, <2>2, SMT
  <2>4. /\ Taken(Absorb(r).hash) \o Absorb(r).data = Taken(h) \o data
        /\ Size(Absorb(r).hash) + Len(Absorb(r).data) = Size(h) + Len(data)
        /\ Absorb(r).hash.n = h.n + Len(data)
    BY <1>1, <1>3, AbsorbKeeps DEF Keeps
  <2> QED
    BY <1>1, <2>3, <2>4 DEF Keeps, b, c
<1> QED
  BY <1>2, <1>3

LEMMA FeedsExists ==
  ASSUME NEW h \in Hashers, NEW data \in Seq(Bytes)
  PROVE  \E f : Feeds(f, h, data)
<1> DEFINE n == Len(data)
           g == [x \in Absorbing \X (1..n) |-> Absorb(x[1])]
<1>1. n \in Nat
  BY LenProperties
<1>2. g \in [Absorbing \X (1..n) -> Absorbing]
  <2>1. ASSUME NEW x \in Absorbing \X (1..n) PROVE Absorb(x[1]) \in Absorbing
    BY AbsorbType
  <2> QED
    BY <2>1
<1>3. Counted(h, data) \in Absorbing
  BY CountedKeeps DEF Keeps
<1>4. PICK f \in [0..n -> Absorbing] : f[0] = Counted(h, data) /\ \A i \in 1..n : f[i] = g[<<f[i - 1], i>>]
  <2> HIDE DEF g, n
  <2>1. \E f : Loop(f, Absorbing, Counted(h, data), n, g)
    BY <1>1, <1>2, <1>3, LoopExists
  <2> QED
    BY <2>1 DEF Loop
<1>5. ASSUME NEW i \in 0..n PROVE f[i] = IF i = 0 THEN Counted(h, data) ELSE Absorb(f[i - 1])
  <2>1. i # 0 => i \in 1..n /\ i - 1 \in 0..n
    BY <1>1, SMT
  <2> QED
    BY <1>4, <2>1
<1>6. f = [i \in 0..n |-> f[i]]
  OBVIOUS
<1>7. Feeds(f, h, data)
  BY <1>5, <1>6 DEF Feeds
<1> QED
  BY <1>7

\* update takes all the data, once and in order, and leaves room in the buffer.
LEMMA UpdateTakes ==
  ASSUME NEW h \in Hashers, NEW data \in Seq(Bytes)
  PROVE  /\ Update(h, data) \in Hashers
         /\ Taken(Update(h, data)) = Taken(h) \o data
         /\ Size(Update(h, data)) = Size(h) + Len(data)
         /\ Update(h, data).n = h.n + Len(data)
<1> DEFINE n == Len(data)
<1>1. n \in Nat /\ 0 \in 0..n /\ n \in 0..n
  <2>1. n \in Nat
    BY LenProperties
  <2> QED
    BY <2>1, SMT
<1>2. PICK f : Feeds(f, h, data) /\ Update(h, data) = f[n].hash
  <2>1. \E f : Feeds(f, h, data)
    BY FeedsExists
  <2> QED
    BY <2>1, UpdateFeeds
<1> DEFINE H == {i \in Nat : Keeps(f[i], h, data, i)}
<1>3. \A i \in 0..n : f[i] = IF i = 0 THEN Counted(h, data) ELSE Absorb(f[i - 1])
  BY <1>2 DEF Feeds
<1> HIDE DEF n
<1>4. 0 \in H
  BY <1>1, <1>3, CountedKeeps
<1>5. ASSUME NEW i \in 1..n, i - 1 \in H PROVE i \in H
  <2>1. i \in 0..n /\ i # 0 /\ i \in Nat /\ i - 1 \in Nat /\ (i - 1) + 1 = i
    BY <1>1, SMT
  <2>2. Keeps(Absorb(f[i - 1]), h, data, (i - 1) + 1)
    BY <1>5, <2>1, AbsorbStep
  <2> QED
    BY <1>3, <2>1, <2>2
<1>6. Keeps(f[n], h, data, n)
  <2>1. \A i \in 0..n : i \in H
    <3> HIDE DEF H
    <3> QED
      BY <1>1, <1>4, <1>5, Climb
  <2> QED
    BY <1>1, <2>1
<1> DEFINE r == f[n]
<1>7. r.hash \in Hashers /\ r.data \in Seq(Bytes) /\ Len(r.data) \in Nat
  <2>1. r.hash \in Hashers /\ r.data \in Seq(Bytes)
    BY <1>6 DEF Keeps, Absorbing
  <2> QED
    BY <2>1, LenProperties
<1>8. r.data = <<>>
  <2>1. SUFFICES ASSUME r.data # <<>> PROVE FALSE
    OBVIOUS
  <2> DEFINE a == Len(r.data)
  <2>2. a + n <= n
    BY <1>6, <2>1 DEF Keeps, n
  <2>3. a \in Nat \ {0}
    BY <1>7, <2>1, EmptySeq
  <2> HIDE DEF a
  <2> QED
    BY <1>1, <2>2, <2>3, SMT
<1>9. Taken(r.hash) \o <<>> = Taken(r.hash)
  <2>1. r.hash.done \in Seq(Seq(Bytes)) /\ r.hash.buf \in Seq(Bytes)
    BY <1>7, HasherFields
  <2>2. Join(r.hash.done) \in Seq(Bytes)
    BY <2>1, JoinType
  <2>3. Taken(r.hash) \in Seq(Bytes)
    BY <2>1, <2>2, ConcatProperties DEF Taken
  <2> QED
    BY <2>3, ConcatEmptySeq
<1>10. Size(r.hash) + Len(r.data) = Size(r.hash)
  <2>1. Len(r.data) = 0
    BY <1>8, EmptySeq
  <2>2. Size(r.hash) \in Nat
    <3> DEFINE a == Len(r.hash.done)
               b == Len(r.hash.buf)
    <3>1. a \in Nat /\ b \in Nat /\ Block \in Nat /\ Size(r.hash) = Block * a + b
      BY <1>7, HasherFields, Sha256Assumption DEF Sha256Assumption, Size
    <3> HIDE DEF a, b
    <3>2. Block * a + b \in Nat
      BY <3>1, SMT
    <3> QED
      BY <3>1, <3>2
  <2> QED
    BY <2>1, <2>2, SMT
<1> QED
  BY <1>2, <1>6, <1>7, <1>8, <1>9, <1>10 DEF Keeps

-----------------------------------------------------------------------------
(* Sha256::finish.                                                           *)

LEMMA ZerosType ==
  ASSUME NEW S, 0 \in S, NEW k \in Nat
  PROVE  Zeros(k) \in Seq(S) /\ Len(Zeros(k)) = k
<1>1. Zeros(k) \in [1..k -> S]
  BY DEF Zeros
<1> HIDE DEF Zeros
<1> QED
  BY <1>1, SMT

LEMMA ZerosJoin ==
  ASSUME NEW a \in Nat, NEW b \in Nat
  PROVE  Zeros(a) \o Zeros(b) = Zeros(a + b)
<1> DEFINE x == Zeros(a)
           y == Zeros(b)
           z == Zeros(a + b)
<1>1. a + b \in Nat
  BY SMT
<1>2. x \in Seq({0}) /\ Len(x) = a /\ y \in Seq({0}) /\ Len(y) = b /\ z \in Seq({0}) /\ Len(z) = a + b
  BY <1>1, ZerosType
<1> HIDE DEF x, y, z
<1>3. x \o y \in Seq({0}) /\ Len(x \o y) = Len(x) + Len(y)
  BY <1>2, ConcatProperties
<1>4. ASSUME NEW i \in 1..Len(z) PROVE (x \o y)[i] = z[i]
  <2>1. i \in 1..Len(x \o y)
    BY <1>2, <1>3
  <2>2. (x \o y)[i] \in {0} /\ z[i] \in {0}
    BY <1>2, <1>3, <2>1, ElementOfSeq
  <2> QED
    BY <2>2
<1>5. Len(x \o y) = Len(z)
  BY <1>2, <1>3
<1>6. \A i \in 1..Len(x \o y) : (x \o y)[i] = z[i]
  BY <1>4, <1>5
<1>7. x \o y = z
  <2> DEFINE u == x \o y
  <2>1. u \in Seq({0}) /\ Len(u) = Len(z) /\ \A i \in 1..Len(u) : u[i] = z[i]
    BY <1>3, <1>5, <1>6
  <2> HIDE DEF u
  <2>2. u = z
    BY <1>2, <2>1, SeqEqual
  <2> QED
    BY <2>2 DEF u
<1> QED
  BY <1>7 DEF x, y, z

PulledOut(f, b, o, z) == f \o ((b \o o) \o z) = ((f \o b) \o o) \o z

LEMMA PullOut ==
  ASSUME NEW S, NEW f \in Seq(S), NEW b \in Seq(S), NEW o \in Seq(S), NEW z \in Seq(S)
  PROVE  PulledOut(f, b, o, z)
<1>1. b \o o \in Seq(S)
  BY ConcatProperties
<1>2. Assoc(f, b \o o, z) /\ Assoc(f, b, o)
  BY <1>1, Associative
<1> QED
  BY <1>2 DEF Assoc, PulledOut

\* The zeros that fill up the last block are as many as the standard says.
LEMMA ZerosNeeded ==
  ASSUME NEW k \in Nat, NEW b \in Nat, NEW q \in Nat, NEW z \in Nat, z < Block,
         b + 1 + z + LengthSize = Block * q
  PROVE  (-((Block * k + b) + 1 + LengthSize)) % Block = z
<1>1. Block \in Nat \ {0} /\ LengthSize \in Nat
  BY Sha256Assumption, SMT DEF Sha256Assumption
<1>2. -((Block * k + b) + 1 + LengthSize) = Block * (-(k + q)) + z
  <2>1. Block * (-(k + q)) = -(Block * k) - (Block * q)
    BY <1>1, SMT
  <2>2. Block * k \in Nat /\ Block * q \in Nat /\ Block * (-(k + q)) \in Int
    BY <1>1, SMT
  <2> QED
    BY <1>1, <2>1, <2>2, SMT
<1>3. -(k + q) \in Int
  BY SMT
<1>4. \A p \in Int : (Block * p + z) % Block = z
  BY <1>1, SMT
<1> QED
  BY <1>2, <1>3, <1>4

\* The values in the padded message; the bytes of the length among them.
Values(n) == Octet \cup {BitLength(n)[i] : i \in 1..LengthSize}
Blocks(n) == {b \in Seq(Values(n)) : Len(b) = Block}

LEMMA BitLengthType ==
  ASSUME NEW n
  PROVE  BitLength(n) \in Seq(Values(n)) /\ Len(BitLength(n)) = LengthSize
<1> DEFINE t == BitLength(n)
<1>1. LengthSize \in Nat
  BY Sha256Assumption, SMT DEF Sha256Assumption
<1>2. t = [i \in 1..LengthSize |-> t[i]]
  BY DEF BitLength
<1>3. \A i \in 1..LengthSize : t[i] \in Values(n)
  BY DEF Values
<1> HIDE DEF t
<1>4. t \in [1..LengthSize -> Values(n)]
  BY <1>2, <1>3
<1>5. t \in Seq(Values(n)) /\ Len(t) = LengthSize
  BY <1>1, <1>4, SMT
<1> QED
  BY <1>5 DEF t

\* The mark, with the zeros and the length after it, makes whole blocks, one or two
\* more, and the bytes of all blocks are the padded message.
LEMMA FinishPads ==
  ASSUME NEW h \in Hashers, h.n = Len(Taken(h)), Size(h) = Len(Taken(h))
  PROVE  /\ Finish(h) \in Seq(Blocks(h.n))
         /\ Join(Finish(h)) = PaddedReference(Taken(h))
<1> DEFINE V == Values(h.n)
           d == h.done
           b == h.buf
           o == <<128>>
           m == b \o o
           f == Join(d)
           g == (f \o b) \o o
           len == BitLength(h.n)
           limit == Block - LengthSize
           marked == [h EXCEPT !.buf = Append(@, 128)]
           room == IF Len(marked.buf) > limit
                     THEN Compress([marked EXCEPT !.buf = @ \o Zeros(Block - Len(@))])
                     ELSE marked
           last == room.buf \o Zeros(Block - LengthSize - Len(room.buf)) \o len
           pad == (-((Block * Len(d) + Len(b)) + 1 + LengthSize)) % Block
<1>1. Finish(h) = Append(room.done, last)
  BY DEF Finish, FinishAs
<1>2. /\ b \in Seq(Bytes) /\ d \in Seq(FullBlock) /\ d \in Seq(Seq(Bytes)) /\ Len(b) \in Nat
      /\ Len(d) \in Nat /\ Len(b) < Block
  BY HasherFields
<1>3. Block \in Nat /\ LengthSize \in Nat /\ LengthSize <= Block /\ Block # 0
  BY Sha256Assumption, SMT DEF Sha256Assumption
<1>4. 128 \in Octet /\ 0 \in Octet
  BY SMT DEF Octet
<1>5. Octet \subseteq V /\ Bytes \subseteq V /\ 0 \in V /\ 128 \in V
  BY <1>4, FramingAssumption DEF Values, FramingAssumption, Octet
<1>6. b \in Seq(V) /\ d \in Seq(Blocks(h.n)) /\ d \in Seq(Seq(V))
  <2>1. FullBlock \subseteq Blocks(h.n)
    BY <1>5, SeqMonotonic DEF FullBlock, Blocks
  <2>2. Blocks(h.n) \subseteq Seq(V)
    BY DEF Blocks
  <2>3. b \in Seq(V) /\ d \in Seq(Blocks(h.n))
    BY <1>2, <1>5, <2>1, SeqMonotonic
  <2> QED
    BY <2>2, <2>3, SeqMonotonic
<1>7. o \in Seq(V) /\ Len(o) = 1
  BY <1>5, SMT
<1>8. marked.buf = Append(b, 128) /\ marked.done = d
  BY DEF Hashers
<1> HIDE DEF V, d, b, o
<1>9. Append(b, 128) = m
  <2>1. Appended(b, 128)
    BY <1>5, <1>6, AppendJoins
  <2> QED
    BY <2>1 DEF Appended, o
<1>10. m \in Seq(V) /\ Len(m) = Len(b) + 1
  <2>1. m \in Seq(V) /\ Len(m) = Len(b) + Len(o)
    BY <1>6, <1>7, ConcatProperties
  <2> QED
    BY <1>7, <2>1
<1>11. f \in Seq(V)
  BY <1>6, JoinType
<1>12. len \in Seq(V) /\ Len(len) = LengthSize
  BY BitLengthType DEF V
<1>13. PaddedReference(Taken(h)) = (g \o Zeros(pad)) \o len
  <2>1. Taken(h) = f \o b /\ Len(Taken(h)) = Block * Len(d) + Len(b) /\ h.n = Len(Taken(h))
    BY DEF Taken, Size, b, d
  <2> HIDE DEF len
  <2> QED
    BY <2>1 DEF PaddedReference, len, o
<1> HIDE DEF f, m, len, pad, marked
<1>14. g \in Seq(V)
  BY <1>6, <1>7, <1>11, ConcatProperties
<1>15. CASE Len(m) <= limit
  <2> DEFINE c == limit - Len(m)
             z == Zeros(c)
             t == (m \o z) \o len
  <2>1. c \in Nat /\ ~(Len(m) > limit) /\ pad = c
    <3> DEFINE x == Len(b)
               k == Len(d)
    <3>1. x \in Nat /\ k \in Nat /\ Len(m) = x + 1 /\ x + 1 <= limit
      BY <1>2, <1>10, <1>15
    <3> HIDE DEF x, k
    <3>2. c \in Nat /\ c < Block /\ ~(Len(m) > limit) /\ x + 1 + c + LengthSize = Block * 1 /\ 1 \in Nat
      BY <1>3, <3>1, SMT
    <3>3. (-((Block * k + x) + 1 + LengthSize)) % Block = c
      <4> HIDE DEF c
      <4> QED
        BY <3>1, <3>2, ZerosNeeded
    <3> QED
      BY <3>2, <3>3 DEF pad, x, k
  <2>2. room = marked /\ last = t
    BY <1>8, <1>9, <2>1
  <2> HIDE DEF c, room, last
  <2>3. z \in Seq(V) /\ Len(z) = c
    BY <1>5, <2>1, ZerosType
  <2> HIDE DEF z
  <2>4. m \o z \in Seq(V) /\ Len(m \o z) = Len(m) + c
    BY <1>10, <2>3, ConcatProperties
  <2>5. t \in Seq(V) /\ Len(t) = (Len(m) + c) + LengthSize
    <3> DEFINE u == m \o z
    <3>1. u \in Seq(V) /\ Len(u) = Len(m) + c
      BY <2>4
    <3> HIDE DEF u
    <3>2. u \o len \in Seq(V) /\ Len(u \o len) = Len(u) + Len(len)
      BY <1>12, <3>1, ConcatProperties
    <3> QED
      BY <1>12, <3>1, <3>2 DEF u
  <2>6. Len(t) = Block
    <3>1. Len(m) \in Nat
      BY <1>10, LenProperties
    <3> QED
      BY <1>3, <2>1, <2>5, <3>1, SMT DEF c
  <2>7. t \in Blocks(h.n)
    BY <2>5, <2>6 DEF Blocks, V
  <2> HIDE DEF t
  <2>8. Finish(h) = Append(d, t) /\ Finish(h) \in Seq(Blocks(h.n))
    <3>1. Finish(h) = Append(d, t)
      BY <1>1, <1>8, <2>2
    <3>2. Append(d, t) \in Seq(Blocks(h.n))
      BY <1>6, <2>7, AppendProperties
    <3> QED
      BY <3>1, <3>2
  <2>9. Join(Append(d, t)) = f \o t
    BY <1>6, <2>5, JoinAppend DEF f
  <2>10. f \o t = (g \o z) \o len
    <3>1. Assoc(f, m \o z, len) /\ PulledOut(f, b, o, z)
      BY <1>6, <1>7, <1>11, <1>12, <2>3, <2>4, Associative, PullOut
    <3> QED
      BY <3>1 DEF Assoc, PulledOut, t, m
  <2> QED
    BY <1>13, <2>1, <2>8, <2>9, <2>10 DEF z
<1>16. CASE Len(m) > limit
  <2> DEFINE c == Block - Len(m)
             y == Zeros(c)
             z == Zeros(limit)
             s == m \o y
             t == z \o len
  <2>1. c \in Nat /\ limit \in Nat /\ pad = c + limit
    <3> DEFINE x == Len(b)
               k == Len(d)
    <3>1. x \in Nat /\ k \in Nat /\ Len(m) = x + 1 /\ x + 1 > limit /\ x < Block
      BY <1>2, <1>10, <1>16
    <3> HIDE DEF x, k
    <3>2. /\ c \in Nat /\ limit \in Nat /\ c + limit \in Nat /\ c + limit < Block
          /\ x + 1 + (c + limit) + LengthSize = Block * 2 /\ 2 \in Nat
      BY <1>3, <3>1, SMT
    <3>3. (-((Block * k + x) + 1 + LengthSize)) % Block = c + limit
      <4> HIDE DEF c, limit
      <4> QED
        BY <3>1, <3>2, ZerosNeeded
    <3> QED
      BY <3>2, <3>3 DEF pad, x, k
  <2>2. <<>> \in Seq(V) /\ Len(<<>>) = 0
    BY EmptySeq
  <2>3. y \in Seq(V) /\ Len(y) = c /\ z \in Seq(V) /\ Len(z) = limit
    BY <1>5, <2>1, ZerosType
  <2>4. room.done = Append(d, s) /\ room.buf = <<>>
    <3>1. marked \in [buf : {m}, n : {h.n}, done : {d}]
      BY <1>8, <1>9 DEF marked, Hashers, d, b
    <3>2. room = Compress([marked EXCEPT !.buf = @ \o Zeros(Block - Len(@))])
      BY <1>8, <1>9, <1>16
    <3> DEFINE x == [marked EXCEPT !.buf = @ \o Zeros(Block - Len(@))]
    <3>3. x = [marked EXCEPT !.buf = s]
      BY <1>8, <1>9
    <3> HIDE DEF room, s, x
    <3>4. x \in [buf : {s}, n : {h.n}, done : {d}]
      BY <3>1, <3>3
    <3>5. room = [x EXCEPT !.buf = <<>>, !.done = Append(d, s)]
      BY <3>2, <3>4 DEF Compress, x
    <3> QED
      BY <3>4, <3>5
  <2>5. last = t
    <3>1. Block - LengthSize - 0 = limit
      BY <1>3, SMT
    <3>2. <<>> \o z = z
      BY <2>3, ConcatEmptySeq
    <3> QED
      BY <2>2, <2>4, <3>1, <3>2
  <2> HIDE DEF c, room, last, y, z, limit
  <2>6. s \in Seq(V) /\ Len(s) = Len(m) + Len(y) /\ t \in Seq(V) /\ Len(t) = Len(z) + Len(len)
    BY <1>10, <1>12, <2>3, ConcatProperties
  <2>7. s \in Blocks(h.n) /\ t \in Blocks(h.n)
    <3>1. Len(m) \in Nat
      BY <1>10, LenProperties
    <3>2. Len(s) = Block /\ Len(t) = Block
      BY <1>3, <1>12, <2>3, <2>6, <3>1, SMT DEF c, limit
    <3> QED
      BY <2>6, <3>2 DEF Blocks, V
  <2> HIDE DEF s, t
  <2>8. Append(d, s) \in Seq(Blocks(h.n))
    BY <1>6, <2>7, AppendProperties
  <2> DEFINE e == Append(d, s)
  <2>9. e \in Seq(Blocks(h.n)) /\ e \in Seq(Seq(V))
    <3>1. Append(d, s) \in Seq(Seq(V))
      BY <1>6, <2>6, AppendProperties
    <3> QED
      BY <2>8, <3>1
  <2>10. Join(e) = f \o s
    BY <1>6, <2>6, JoinAppend DEF f
  <2> HIDE DEF e
  <2>11. Finish(h) = Append(e, t) /\ Finish(h) \in Seq(Blocks(h.n))
    <3>1. Finish(h) = Append(e, t)
      BY <1>1, <2>4, <2>5 DEF e
    <3>2. Append(e, t) \in Seq(Blocks(h.n))
      BY <2>7, <2>9, AppendProperties
    <3> QED
      BY <3>1, <3>2
  <2>12. Join(Append(e, t)) = (f \o s) \o t
    <3>1. Join(Append(e, t)) = Join(e) \o t
      BY <2>6, <2>9, JoinAppend
    <3> QED
      BY <2>10, <3>1
  <2>13. (f \o s) \o t = (g \o Zeros(c + limit)) \o len
    <3>1. PulledOut(f, b, o, y)
      BY <1>6, <1>7, <1>11, <2>3, PullOut
    <3>2. f \o s = g \o y
      BY <3>1 DEF PulledOut, s, m
    <3>3. g \o y \in Seq(V)
      BY <1>14, <2>3, ConcatProperties
    <3>4. Assoc(g \o y, z, len) /\ Assoc(g, y, z)
      BY <1>12, <1>14, <2>3, <3>3, Associative
    <3>5. y \o z = Zeros(c + limit)
      BY <2>1, ZerosJoin DEF y, z
    <3> QED
      BY <3>2, <3>4, <3>5 DEF Assoc, t
  <2> QED
    BY <1>13, <2>1, <2>11, <2>12, <2>13
<1>17. Len(m) <= limit \/ Len(m) > limit
  <2>1. Len(m) \in Nat
    BY <1>10, LenProperties
  <2> QED
    BY <1>3, <2>1, SMT
<1> QED
  BY <1>15, <1>16, <1>17

-----------------------------------------------------------------------------
(* The stream and the digest.                                                *)

\* The inductive invariant of Sha256 between two calls of update: the blocks
\* compressed and the bytes buffered are the stream, and their number is known.
HashInv ==
  /\ fed \in Seq(Bytes)
  /\ hasher \in Hashers
  /\ Taken(hasher) = fed
  /\ hasher.n = Len(fed)
  /\ Size(hasher) = Len(fed)

LEMMA InitHash == StreamInit => HashInv
<1> SUFFICES ASSUME StreamInit PROVE HashInv
  OBVIOUS
<1>1. fed = <<>> /\ hasher = Fresh
  BY DEF StreamInit, Init
<1>2. <<>> \in Seq(Bytes) /\ <<>> \in Seq(FullBlock) /\ Len(<<>>) = 0
  BY EmptySeq
<1>3. 0 \in Nat /\ 0 < Block /\ Block * 0 + 0 = 0
  BY Sha256Assumption, SMT DEF Sha256Assumption
<1>4. Fresh \in [buf : Seq(Bytes), n : Nat, done : Seq(FullBlock)] /\ Fresh.buf = <<>> /\ Fresh.n = 0 /\ Fresh.done = <<>>
  BY <1>2, <1>3 DEF Fresh
<1>5. Fresh \in Hashers
  BY <1>2, <1>3, <1>4 DEF Hashers
<1>6. <<>> \o <<>> = <<>>
  BY <1>2, ConcatEmptySeq
<1>7. Taken(Fresh) = <<>> /\ Size(Fresh) = 0
  BY <1>2, <1>3, <1>4, <1>6, JoinEmpty DEF Taken, Size
<1> QED
  BY <1>1, <1>2, <1>4, <1>5, <1>7 DEF HashInv

LEMMA HashStep == HashInv /\ [StreamNext]_<<vars, hasher>> => HashInv'
<1> SUFFICES ASSUME HashInv, [StreamNext]_<<vars, hasher>> PROVE HashInv'
  OBVIOUS
<1>1. CASE StreamNext
  <2>1. PICK chunk \in Chunks : Receive(chunk) /\ hasher' = Update(hasher, chunk)
    BY <1>1 DEF StreamNext
  <2>2. fed' = fed \o chunk
    BY <2>1 DEF Receive
  <2>3. chunk \in Seq(Bytes) /\ fed \in Seq(Bytes) /\ hasher \in Hashers
    BY ChunksAreSequences DEF HashInv
  <2>4. fed' \in Seq(Bytes) /\ Len(fed') = Len(fed) + Len(chunk)
    BY <2>2, <2>3, ConcatProperties
  <2>5. /\ hasher' \in Hashers /\ Taken(hasher') = Taken(hasher) \o chunk
        /\ Size(hasher') = Size(hasher) + Len(chunk) /\ hasher'.n = hasher.n + Len(chunk)
    BY <2>1, <2>3, UpdateTakes
  <2> QED
    BY <2>2, <2>4, <2>5 DEF HashInv
<1>2. CASE UNCHANGED <<vars, hasher>>
  BY <1>2 DEF HashInv, vars
<1> QED
  BY <1>1, <1>2

\* update() may be called with the stream in any pieces: what it compressed and
\* keeps is the stream.
THEOREM DigestInvariant == StreamSpec => []HashInv
<1>1. StreamInit => HashInv
  BY InitHash
<1>2. HashInv /\ [StreamNext]_<<vars, hasher>> => HashInv'
  BY HashStep
<1> QED
  BY <1>1, <1>2, PTL DEF StreamSpec

\* Whatever the stream, its pieces, the size of a block and of the length at its
\* end, finish() has compressed the padded stream, in whole blocks.
THEOREM DigestIsOfTheStreamAlways == StreamSpec => []DigestIsOfTheStream
<1>1. HashInv => DigestIsOfTheStream
  <2> SUFFICES ASSUME HashInv PROVE DigestIsOfTheStream
    OBVIOUS
  <2> DEFINE blocks == Finish(hasher)
  <2>1. blocks \in Seq(Blocks(hasher.n)) /\ Join(blocks) = PaddedReference(fed)
    <3>1. hasher \in Hashers /\ hasher.n = Len(Taken(hasher)) /\ Size(hasher) = Len(Taken(hasher)) /\ Taken(hasher) = fed
      BY DEF HashInv
    <3>2. blocks \in Seq(Blocks(hasher.n)) /\ Join(blocks) = PaddedReference(Taken(hasher))
      BY <3>1, FinishPads
    <3> QED
      BY <3>1, <3>2
  <2> HIDE DEF blocks
  <2>2. DOMAIN blocks = 1..Len(blocks)
    BY <2>1, LenProperties
  <2>3. ASSUME NEW i \in DOMAIN blocks PROVE Len(blocks[i]) = Block
    <3>1. blocks[i] \in Blocks(hasher.n)
      BY <2>1, <2>2, ElementOfSeq
    <3> QED
      BY <3>1 DEF Blocks
  <2> QED
    BY <2>1, <2>3 DEF DigestIsOfTheStream, blocks
<1> QED
  BY <1>1, DigestInvariant, PTL

-----------------------------------------------------------------------------
(* The encodings.                                                            *)

\* A function on 1..n is a sequence of length n.
LEMMA Listed ==
  ASSUME NEW S, NEW n \in Nat, NEW s \in [1..n -> S]
  PROVE  s \in Seq(S) /\ Len(s) = n /\ DOMAIN s = 1..n
BY SMT

\* Two sequences with the same elements are the same.
LEMMA SameElements ==
  ASSUME NEW S, NEW s \in Seq(S), NEW t \in Seq(S), Len(s) = Len(t), \A i \in 1..Len(s) : s[i] = t[i]
  PROVE  s = t
BY SeqEqual, LenProperties

\* hex_val undoes kHex.
LEMMA HexInvertsDigit ==
  ASSUME NEW k \in 0..15
  PROVE  HexDigit(k) \in Nat /\ HexVal(HexDigit(k)) = k
BY SMT DEF HexDigit, HexVal

LEMMA Nibbles ==
  ASSUME NEW x \in Octet
  PROVE  x \div 16 \in 0..15 /\ x % 16 \in 0..15 /\ 16 * (x \div 16) + (x % 16) = x
BY SMT DEF Octet

LEMMA HexInverts ==
  ASSUME NEW data \in Seq(Octet)
  PROVE  HexDecode(HexEncode(data)) = data
<1> DEFINE n == Len(data)
           s == HexEncode(data)
           v == [i \in DOMAIN s |-> HexVal(s[i])]
           out == [k \in 1..(Len(s) \div 2) |-> 16 * v[2 * k - 1] + v[2 * k]]
<1>1. n \in Nat /\ 2 * n \in Nat
  <2>1. n \in Nat
    BY LenProperties
  <2> HIDE DEF n
  <2> QED
    BY <2>1, SMT
<1>2. \A k \in 1..n : data[k] \in Octet
  BY ElementOfSeq
<1> DEFINE nibble(j) == IF j % 2 = 1 THEN data[(j + 1) \div 2] \div 16 ELSE data[j \div 2] % 16
<1> HIDE DEF n
<1>3. ASSUME NEW j \in 1..(2 * n) PROVE nibble(j) \in 0..15
  <2>1. CASE j % 2 = 1
    <3>1. (j + 1) \div 2 \in 1..n
      BY <1>1, <2>1, SMT
    <3> QED
      BY <1>2, <2>1, <3>1, Nibbles
  <2>2. CASE j % 2 # 1
    <3>1. j \div 2 \in 1..n
      BY <1>1, <2>2, SMT
    <3> QED
      BY <1>2, <2>2, <3>1, Nibbles
  <2> QED
    BY <2>1, <2>2
<1>4. s = [j \in 1..(2 * n) |-> HexDigit(nibble(j))]
  BY DEF HexEncode, n
<1>5. ASSUME NEW k \in 1..n
      PROVE  /\ 2 * k - 1 \in 1..(2 * n) /\ nibble(2 * k - 1) = data[k] \div 16
             /\ 2 * k \in 1..(2 * n) /\ nibble(2 * k) = data[k] % 16
             /\ 16 * (data[k] \div 16) + (data[k] % 16) = data[k]
  <2>1. /\ 2 * k - 1 \in 1..(2 * n) /\ 2 * k \in 1..(2 * n)
        /\ (2 * k - 1) % 2 = 1 /\ ((2 * k - 1) + 1) \div 2 = k
        /\ (2 * k) % 2 # 1 /\ (2 * k) \div 2 = k
    BY <1>1, SMT
  <2>2. 16 * (data[k] \div 16) + (data[k] % 16) = data[k]
    BY <1>2, Nibbles
  <2> QED
    BY <2>1, <2>2
<1> HIDE DEF nibble
<1>6. s \in Seq(Nat) /\ Len(s) = 2 * n /\ DOMAIN s = 1..(2 * n)
  <2>1. s \in [1..(2 * n) -> Nat]
    BY <1>3, <1>4, HexInvertsDigit
  <2> HIDE DEF s
  <2> QED
    BY <1>1, <2>1, Listed
<1>7. ASSUME NEW j \in 1..(2 * n) PROVE v[j] = nibble(j)
  BY <1>3, <1>4, <1>6, HexInvertsDigit
<1> HIDE DEF s
<1>8. Len(s) % 2 = 0 /\ Len(s) \div 2 = n
  BY <1>1, <1>6, SMT
<1>9. ~ \E i \in DOMAIN s : v[i] < 0
  <2>1. \A i \in 0..15 : ~(i < 0)
    BY SMT
  <2> QED
    BY <1>3, <1>6, <1>7, <2>1
<1>10. HexDecode(s) = out
  BY <1>8, <1>9 DEF HexDecode
<1>11. ASSUME NEW k \in 1..n PROVE 16 * v[2 * k - 1] + v[2 * k] = data[k]
  BY <1>5, <1>7
<1> HIDE DEF v
<1>12. out = [k \in 1..n |-> data[k]]
  BY <1>8, <1>11
<1>13. data = [k \in 1..n |-> data[k]]
  BY LenProperties DEF n
<1> QED
  BY <1>10, <1>12, <1>13 DEF s

\* The number that digit j of base64 stands for: what RFC 4648 says of three bytes,
\* for any byte at or behind the end of the data.
Byte(data, i) == IF i <= Len(data) THEN data[i] ELSE 0
Sextet(x, y, z, r) ==
  CASE r = 0 -> x \div 4
    [] r = 1 -> 16 * (x % 4) + (y \div 16)
    [] r = 2 -> 4 * (y % 16) + (z \div 64)
    [] r = 3 -> z % 64
Six(data, j) ==
  LET m == (j - 1) \div 4
  IN Sextet(Byte(data, 3 * m + 1), Byte(data, 3 * m + 2), Byte(data, 3 * m + 3), (j - 1) % 4)

\* The digits that are not filler, and all of them.
Written(n) == (8 * n + 5) \div 6
Encoding(data) ==
  [j \in 1..(4 * ((Len(data) + 2) \div 3)) |->
     IF j <= Written(Len(data)) THEN B64Digit(Six(data, j)) ELSE Filler]

\* T undoes kB64, and no digit is passed over.
LEMMA ValueOfDigit ==
  ASSUME NEW k \in 0..63
  PROVE  B64Digit(k) \in Nat /\ B64Digit(k) \notin Skipped /\ Value(B64Digit(k)) = k
<1>1. \A i, j \in 0..63 : B64Digit(i) = B64Digit(j) => i = j
  BY SMT DEF B64Digit
<1>2. B64Digit(k) \in Nat /\ B64Digit(k) \notin Skipped
  BY SMT DEF B64Digit, Skipped, Filler
<1>3. Value(B64Digit(k)) = CHOOSE i \in 0..63 : B64Digit(i) = B64Digit(k)
  BY DEF Value
<1>4. (CHOOSE i \in 0..63 : B64Digit(i) = B64Digit(k)) = k
  BY <1>1
<1> QED
  BY <1>2, <1>3, <1>4

LEMMA SextetType ==
  ASSUME NEW x \in Octet, NEW y \in Octet, NEW z \in Octet, NEW r \in 0..3
  PROVE  Sextet(x, y, z, r) \in 0..63
<1>1. CASE r = 0
  BY <1>1, SMT DEF Sextet, Octet
<1>2. CASE r = 1
  BY <1>2, SMT DEF Sextet, Octet
<1>3. CASE r = 2
  BY <1>3, SMT DEF Sextet, Octet
<1>4. CASE r = 3
  BY <1>4, SMT DEF Sextet, Octet
<1>5. r = 0 \/ r = 1 \/ r = 2 \/ r = 3
  BY SMT
<1> QED
  BY <1>1, <1>2, <1>3, <1>4, <1>5

LEMMA ByteType ==
  ASSUME NEW data \in Seq(Octet), NEW i \in Nat, i # 0
  PROVE  Byte(data, i) \in Octet
<1>1. CASE i <= Len(data)
  <2>1. i \in 1..Len(data)
    BY <1>1, LenProperties, SMT
  <2> QED
    BY <1>1, <2>1, ElementOfSeq DEF Byte
<1>2. CASE ~(i <= Len(data))
  <2>1. 0 \in Octet
    BY SMT DEF Octet
  <2> QED
    BY <1>2, <2>1 DEF Byte
<1> QED
  BY <1>1, <1>2

LEMMA SixType ==
  ASSUME NEW data \in Seq(Octet), NEW j \in Nat, j # 0
  PROVE  Six(data, j) \in 0..63
<1> DEFINE m == (j - 1) \div 4
           r == (j - 1) % 4
<1>1. m \in Nat /\ r \in 0..3
  BY SMT
<1> HIDE DEF m, r
<1>2. /\ 3 * m + 1 \in Nat /\ 3 * m + 1 # 0
      /\ 3 * m + 2 \in Nat /\ 3 * m + 2 # 0
      /\ 3 * m + 3 \in Nat /\ 3 * m + 3 # 0
  BY <1>1, SMT
<1>3. Sextet(Byte(data, 3 * m + 1), Byte(data, 3 * m + 2), Byte(data, 3 * m + 3), r) \in 0..63
  BY <1>1, <1>2, ByteType, SextetType
<1> QED
  BY <1>3 DEF Six, m, r

\* The shifts of base64_encode are these numbers.
LEMMA DigitsAreSextets ==
  ASSUME NEW x \in Octet, NEW y \in Octet, NEW z \in Octet
  PROVE  Digits(x, y, z) = <<B64Digit(Sextet(x, y, z, 0)), B64Digit(Sextet(x, y, z, 1)),
                             B64Digit(Sextet(x, y, z, 2)), B64Digit(Sextet(x, y, z, 3))>>
<1> DEFINE v == 65536 * x + 256 * y + z
<1>1. v \div 262144 = Sextet(x, y, z, 0)
  <2>1. v \div 262144 = x \div 4
    BY SMT DEF Octet
  <2>2. Sextet(x, y, z, 0) = x \div 4
    BY SMT DEF Sextet
  <2> HIDE DEF v
  <2> QED
    BY <2>1, <2>2, SMT
<1>2. (v \div 4096) % 64 = Sextet(x, y, z, 1)
  <2>1. PICK p \in 0..63, q \in 0..3 : x = 4 * p + q /\ q = x % 4
    <3>1. x \div 4 \in 0..63 /\ x % 4 \in 0..3 /\ x = 4 * (x \div 4) + (x % 4)
      BY SMT DEF Octet
    <3> QED
      BY <3>1
  <2>2. v \div 4096 = 16 * x + (y \div 16)
    BY SMT DEF Octet
  <2> HIDE DEF v
  <2>3. (v \div 4096) % 64 = 16 * q + (y \div 16)
    BY <2>1, <2>2, SMT DEF Octet
  <2> QED
    BY <2>1, <2>3, SMT DEF Sextet
<1>3. (v \div 64) % 64 = Sextet(x, y, z, 2)
  <2>1. PICK p \in 0..15, q \in 0..15 : y = 16 * p + q /\ q = y % 16
    <3>1. y \div 16 \in 0..15 /\ y % 16 \in 0..15 /\ y = 16 * (y \div 16) + (y % 16)
      BY SMT DEF Octet
    <3> QED
      BY <3>1
  <2>2. v \div 64 = 1024 * x + 4 * y + (z \div 64)
    BY SMT DEF Octet
  <2> HIDE DEF v
  <2>3. (v \div 64) % 64 = 4 * q + (z \div 64)
    BY <2>1, <2>2, SMT DEF Octet
  <2> QED
    BY <2>1, <2>3, SMT DEF Sextet
<1>4. v % 64 = Sextet(x, y, z, 3)
  <2>1. v % 64 = z % 64
    BY SMT DEF Octet
  <2>2. Sextet(x, y, z, 3) = z % 64
    BY SMT DEF Sextet
  <2> HIDE DEF v
  <2> QED
    BY <2>1, <2>2, SMT
<1> DEFINE a == v \div 262144
           b == (v \div 4096) % 64
           c == (v \div 64) % 64
           d == v % 64
<1>5. Digits(x, y, z) = <<B64Digit(a), B64Digit(b), B64Digit(c), B64Digit(d)>>
  BY SMT DEF Digits
<1>6. a = Sextet(x, y, z, 0) /\ b = Sextet(x, y, z, 1) /\ c = Sextet(x, y, z, 2) /\ d = Sextet(x, y, z, 3)
  BY <1>1, <1>2, <1>3, <1>4, SMT
<1> HIDE DEF a, b, c, d
<1> QED
  BY <1>5, <1>6

\* A bit is a bit of a byte, also behind the end.
LEMMA BitOfByte ==
  ASSUME NEW data \in Seq(Octet), NEW q \in Nat, NEW e \in 0..7
  PROVE  Bit(data, 8 * q + e + 1) = (Byte(data, q + 1) \div 2 ^ (7 - e)) % 2
<1> DEFINE n == Len(data)
           i == 8 * q + e + 1
<1>1. n \in Nat
  BY LenProperties
<1> HIDE DEF n
<1>2. (i - 1) \div 8 = q /\ (i - 1) % 8 = e /\ (i <= 8 * n <=> q + 1 <= n)
  BY <1>1, SMT
<1> HIDE DEF i
<1>3. Bit(data, i) = IF i <= 8 * n THEN (data[q + 1] \div 2 ^ (7 - e)) % 2 ELSE 0
  BY <1>2 DEF Bit, n
<1>4. (0 \div 2 ^ (7 - e)) % 2 = 0
  <2>1. e = 0 \/ e = 1 \/ e = 2 \/ e = 3 \/ e = 4 \/ e = 5 \/ e = 6 \/ e = 7
    BY SMT
  <2>2. /\ (0 \div 2 ^ 7) % 2 = 0 /\ (0 \div 2 ^ 6) % 2 = 0 /\ (0 \div 2 ^ 5) % 2 = 0 /\ (0 \div 2 ^ 4) % 2 = 0
        /\ (0 \div 2 ^ 3) % 2 = 0 /\ (0 \div 2 ^ 2) % 2 = 0 /\ (0 \div 2 ^ 1) % 2 = 0 /\ (0 \div 2 ^ 0) % 2 = 0
    BY SMT
  <2>3. 7 - 0 = 7 /\ 7 - 1 = 6 /\ 7 - 2 = 5 /\ 7 - 3 = 4 /\ 7 - 4 = 3 /\ 7 - 5 = 2 /\ 7 - 6 = 1 /\ 7 - 7 = 0
    BY SMT
  <2> QED
    BY <2>1, <2>2, <2>3
<1>5. Byte(data, q + 1) = IF q + 1 <= n THEN data[q + 1] ELSE 0
  BY DEF Byte, n
<1> QED
  BY <1>2, <1>3, <1>4, <1>5 DEF i

\* The bits of a byte, the highest first.
BitsOf(x, a, b, c, d, e, f, g, h) ==
  /\ a = (x \div 2 ^ 7) % 2 /\ b = (x \div 2 ^ 6) % 2 /\ c = (x \div 2 ^ 5) % 2 /\ d = (x \div 2 ^ 4) % 2
  /\ e = (x \div 2 ^ 3) % 2 /\ f = (x \div 2 ^ 2) % 2 /\ g = (x \div 2 ^ 1) % 2 /\ h = (x \div 2 ^ 0) % 2

\* What the digits take of a byte: its first six, four or two bits, and its last.
Halves(x, a, b, c, d, e, f, g, h) ==
  /\ x \div 4 = 32 * a + 16 * b + 8 * c + 4 * d + 2 * e + f
  /\ x % 4 = 2 * g + h
  /\ x \div 16 = 8 * a + 4 * b + 2 * c + d
  /\ x % 16 = 8 * e + 4 * f + 2 * g + h
  /\ x \div 64 = 2 * a + b
  /\ x % 64 = 32 * c + 16 * d + 8 * e + 4 * f + 2 * g + h
  /\ a \in 0..1 /\ b \in 0..1 /\ c \in 0..1 /\ d \in 0..1 /\ e \in 0..1 /\ f \in 0..1 /\ g \in 0..1 /\ h \in 0..1

LEMMA BitsMakeByte ==
  ASSUME NEW x \in Octet, NEW a, NEW b, NEW c, NEW d, NEW e, NEW f, NEW g, NEW h,
         BitsOf(x, a, b, c, d, e, f, g, h)
  PROVE  Halves(x, a, b, c, d, e, f, g, h)
<1>1. /\ a = (x \div 128) % 2 /\ b = (x \div 64) % 2 /\ c = (x \div 32) % 2 /\ d = (x \div 16) % 2
      /\ e = (x \div 8) % 2 /\ f = (x \div 4) % 2 /\ g = (x \div 2) % 2 /\ h = x % 2
  <2>1. x \div 1 = x
    BY SMT DEF Octet
  <2> QED
    BY <2>1, SMT DEF BitsOf
<1>2. /\ a \in 0..1 /\ b \in 0..1 /\ c \in 0..1 /\ d \in 0..1 /\ e \in 0..1 /\ f \in 0..1 /\ g \in 0..1 /\ h \in 0..1
      /\ x = 128 * a + 64 * b + 32 * c + 16 * d + 8 * e + 4 * f + 2 * g + h
  <2> DEFINE p(k) == x \div k
  <2>1. x \in 0..255 /\ p(2) \in 0..127 /\ p(4) \in 0..63 /\ p(8) \in 0..31 /\ p(16) \in 0..15
    BY SMT DEF Octet
  <2>2. p(32) \in 0..7 /\ p(64) \in 0..3 /\ p(128) \in 0..1
    BY SMT DEF Octet
  <2>3. x = 2 * p(2) + h /\ h \in 0..1
    BY <1>1, SMT DEF Octet
  <2>4. p(2) = 2 * p(4) + g /\ g \in 0..1
    BY <1>1, SMT DEF Octet
  <2>5. p(4) = 2 * p(8) + f /\ f \in 0..1
    BY <1>1, SMT DEF Octet
  <2>6. p(8) = 2 * p(16) + e /\ e \in 0..1
    BY <1>1, SMT DEF Octet
  <2>7. p(16) = 2 * p(32) + d /\ d \in 0..1
    BY <1>1, SMT DEF Octet
  <2>8. p(32) = 2 * p(64) + c /\ c \in 0..1
    BY <1>1, SMT DEF Octet
  <2>9. p(64) = 2 * p(128) + b /\ b \in 0..1
    BY <1>1, SMT DEF Octet
  <2>10. p(128) = a
    BY <1>1, <2>2, SMT
  <2> HIDE DEF p
  <2>11. p(16) = 8 * a + 4 * b + 2 * c + d /\ a \in 0..1
    BY <2>1, <2>2, <2>7, <2>8, <2>9, <2>10, SMT
  <2>12. x = 16 * p(16) + 8 * e + 4 * f + 2 * g + h
    BY <2>1, <2>3, <2>4, <2>5, <2>6, SMT
  <2> QED
    BY <2>1, <2>3, <2>4, <2>5, <2>6, <2>7, <2>8, <2>9, <2>11, <2>12, SMT
<1>3. x \div 4 = 32 * a + 16 * b + 8 * c + 4 * d + 2 * e + f
  BY <1>2, SMT
<1>4. x % 4 = 2 * g + h
  BY <1>2, SMT
<1>5. x \div 16 = 8 * a + 4 * b + 2 * c + d
  BY <1>2, SMT
<1>6. x % 16 = 8 * e + 4 * f + 2 * g + h
  BY <1>2, SMT
<1>7. x \div 64 = 2 * a + b
  BY <1>2, SMT
<1>8. x % 64 = 32 * c + 16 * d + 8 * e + 4 * f + 2 * g + h
  BY <1>2, SMT
<1> QED
  BY <1>2, <1>3, <1>4, <1>5, <1>6, <1>7, <1>8 DEF Halves

\* Eight bits in a row are those of a byte.
LEMMA ByteBits ==
  ASSUME NEW data \in Seq(Octet), NEW q \in Nat
  PROVE  BitsOf(Byte(data, q + 1), Bit(data, 8 * q + 1), Bit(data, 8 * q + 2), Bit(data, 8 * q + 3),
                Bit(data, 8 * q + 4), Bit(data, 8 * q + 5), Bit(data, 8 * q + 6), Bit(data, 8 * q + 7),
                Bit(data, 8 * q + 8))
<1> DEFINE x == Byte(data, q + 1)
<1>1. \A e \in 0..7 : Bit(data, 8 * q + e + 1) = (x \div 2 ^ (7 - e)) % 2
  BY BitOfByte
<1> HIDE DEF x
<1>2. /\ 8 * q + 0 + 1 = 8 * q + 1 /\ 8 * q + 1 + 1 = 8 * q + 2 /\ 8 * q + 2 + 1 = 8 * q + 3
      /\ 8 * q + 3 + 1 = 8 * q + 4 /\ 8 * q + 4 + 1 = 8 * q + 5 /\ 8 * q + 5 + 1 = 8 * q + 6
      /\ 8 * q + 6 + 1 = 8 * q + 7 /\ 8 * q + 7 + 1 = 8 * q + 8
  BY SMT
<1>3. /\ 0 \in 0..7 /\ 1 \in 0..7 /\ 2 \in 0..7 /\ 3 \in 0..7 /\ 4 \in 0..7 /\ 5 \in 0..7 /\ 6 \in 0..7 /\ 7 \in 0..7
      /\ 7 - 0 = 7 /\ 7 - 1 = 6 /\ 7 - 2 = 5 /\ 7 - 3 = 4 /\ 7 - 4 = 3 /\ 7 - 5 = 2 /\ 7 - 6 = 1 /\ 7 - 7 = 0
  BY SMT
<1>4. BitsOf(x, Bit(data, 8 * q + 0 + 1), Bit(data, 8 * q + 1 + 1), Bit(data, 8 * q + 2 + 1),
                Bit(data, 8 * q + 3 + 1), Bit(data, 8 * q + 4 + 1), Bit(data, 8 * q + 5 + 1),
                Bit(data, 8 * q + 6 + 1), Bit(data, 8 * q + 7 + 1))
  BY <1>1, <1>3 DEF BitsOf
<1> QED
  BY <1>2, <1>4 DEF x

\* The digits of three bytes from their 24 bits.
Number(p, a, b, c, d, e, f) == p = 32 * a + 16 * b + 8 * c + 4 * d + 2 * e + f

Numbers(x, y, z, B) ==
  /\ Number(Sextet(x, y, z, 0), B[1], B[2], B[3], B[4], B[5], B[6])
  /\ Number(Sextet(x, y, z, 1), B[7], B[8], B[9], B[10], B[11], B[12])
  /\ Number(Sextet(x, y, z, 2), B[13], B[14], B[15], B[16], B[17], B[18])
  /\ Number(Sextet(x, y, z, 3), B[19], B[20], B[21], B[22], B[23], B[24])

LEMMA SextetsOfBits ==
  ASSUME NEW x \in Octet, NEW y \in Octet, NEW z \in Octet, NEW B,
         BitsOf(x, B[1], B[2], B[3], B[4], B[5], B[6], B[7], B[8]),
         BitsOf(y, B[9], B[10], B[11], B[12], B[13], B[14], B[15], B[16]),
         BitsOf(z, B[17], B[18], B[19], B[20], B[21], B[22], B[23], B[24])
  PROVE  Numbers(x, y, z, B)
<1>1. /\ Halves(x, B[1], B[2], B[3], B[4], B[5], B[6], B[7], B[8])
      /\ Halves(y, B[9], B[10], B[11], B[12], B[13], B[14], B[15], B[16])
      /\ Halves(z, B[17], B[18], B[19], B[20], B[21], B[22], B[23], B[24])
  BY BitsMakeByte
<1>2. /\ Sextet(x, y, z, 0) = x \div 4 /\ Sextet(x, y, z, 1) = 16 * (x % 4) + (y \div 16)
      /\ Sextet(x, y, z, 2) = 4 * (y % 16) + (z \div 64) /\ Sextet(x, y, z, 3) = z % 64
  BY SMT DEF Sextet
<1>3. 16 * (x % 4) + (y \div 16) = 32 * B[7] + 16 * B[8] + 8 * B[9] + 4 * B[10] + 2 * B[11] + B[12]
  BY <1>1, SMT DEF Halves
<1>4. 4 * (y % 16) + (z \div 64) = 32 * B[13] + 16 * B[14] + 8 * B[15] + 4 * B[16] + 2 * B[17] + B[18]
  BY <1>1, SMT DEF Halves
<1> QED
  BY <1>1, <1>2, <1>3, <1>4 DEF Numbers, Number, Halves

\* Six bits in a row, from the first of a digit on.
Packed(data, i) ==
  32 * Bit(data, i) + 16 * Bit(data, i + 1) + 8 * Bit(data, i + 2) + 4 * Bit(data, i + 3)
    + 2 * Bit(data, i + 4) + Bit(data, i + 5)

Packs(data, m, x, y, z) ==
  /\ Packed(data, 24 * m + 1) = Sextet(x, y, z, 0)
  /\ Packed(data, 24 * m + 7) = Sextet(x, y, z, 1)
  /\ Packed(data, 24 * m + 13) = Sextet(x, y, z, 2)
  /\ Packed(data, 24 * m + 19) = Sextet(x, y, z, 3)

LEMMA PackedIsSextet ==
  ASSUME NEW data \in Seq(Octet), NEW m \in Nat,
         NEW x, x = Byte(data, 3 * m + 1), NEW y, y = Byte(data, 3 * m + 2), NEW z, z = Byte(data, 3 * m + 3)
  PROVE  Packs(data, m, x, y, z)
<1> DEFINE B(i) == Bit(data, 24 * m + i)
<1>1. x \in Octet /\ y \in Octet /\ z \in Octet
  <2>1. 3 * m + 1 \in Nat /\ 3 * m + 2 \in Nat /\ 3 * m + 3 \in Nat /\ 3 * m + 1 # 0 /\ 3 * m + 2 # 0 /\ 3 * m + 3 # 0
    BY SMT
  <2> QED
    BY <2>1, ByteType
<1>2. BitsOf(x, B(1), B(2), B(3), B(4), B(5), B(6), B(7), B(8))
  <2>1. 3 * m \in Nat /\ 8 * (3 * m) = 24 * m
    BY SMT
  <2> QED
    BY <2>1, ByteBits
<1>3. BitsOf(y, B(9), B(10), B(11), B(12), B(13), B(14), B(15), B(16))
  <2> DEFINE q == 3 * m + 1
  <2>1. /\ q \in Nat /\ q + 1 = 3 * m + 2
        /\ 8 * q + 1 = 24 * m + 9 /\ 8 * q + 2 = 24 * m + 10 /\ 8 * q + 3 = 24 * m + 11 /\ 8 * q + 4 = 24 * m + 12
        /\ 8 * q + 5 = 24 * m + 13 /\ 8 * q + 6 = 24 * m + 14 /\ 8 * q + 7 = 24 * m + 15 /\ 8 * q + 8 = 24 * m + 16
    BY SMT
  <2> HIDE DEF q
  <2>2. BitsOf(Byte(data, q + 1), Bit(data, 8 * q + 1), Bit(data, 8 * q + 2), Bit(data, 8 * q + 3),
               Bit(data, 8 * q + 4), Bit(data, 8 * q + 5), Bit(data, 8 * q + 6), Bit(data, 8 * q + 7),
               Bit(data, 8 * q + 8))
    BY <2>1, ByteBits
  <2> QED
    BY <2>1, <2>2
<1>4. BitsOf(z, B(17), B(18), B(19), B(20), B(21), B(22), B(23), B(24))
  <2> DEFINE q == 3 * m + 2
  <2>1. /\ q \in Nat /\ q + 1 = 3 * m + 3
        /\ 8 * q + 1 = 24 * m + 17 /\ 8 * q + 2 = 24 * m + 18 /\ 8 * q + 3 = 24 * m + 19 /\ 8 * q + 4 = 24 * m + 20
        /\ 8 * q + 5 = 24 * m + 21 /\ 8 * q + 6 = 24 * m + 22 /\ 8 * q + 7 = 24 * m + 23 /\ 8 * q + 8 = 24 * m + 24
    BY SMT
  <2> HIDE DEF q
  <2>2. BitsOf(Byte(data, q + 1), Bit(data, 8 * q + 1), Bit(data, 8 * q + 2), Bit(data, 8 * q + 3),
               Bit(data, 8 * q + 4), Bit(data, 8 * q + 5), Bit(data, 8 * q + 6), Bit(data, 8 * q + 7),
               Bit(data, 8 * q + 8))
    BY <2>1, ByteBits
  <2> QED
    BY <2>1, <2>2
<1>5. /\ Packed(data, 24 * m + 1) = 32 * B(1) + 16 * B(2) + 8 * B(3) + 4 * B(4) + 2 * B(5) + B(6)
      /\ Packed(data, 24 * m + 7) = 32 * B(7) + 16 * B(8) + 8 * B(9) + 4 * B(10) + 2 * B(11) + B(12)
      /\ Packed(data, 24 * m + 13) = 32 * B(13) + 16 * B(14) + 8 * B(15) + 4 * B(16) + 2 * B(17) + B(18)
      /\ Packed(data, 24 * m + 19) = 32 * B(19) + 16 * B(20) + 8 * B(21) + 4 * B(22) + 2 * B(23) + B(24)
  <2>1. /\ (24 * m + 1) + 1 = 24 * m + 2 /\ (24 * m + 1) + 2 = 24 * m + 3 /\ (24 * m + 1) + 3 = 24 * m + 4
        /\ (24 * m + 1) + 4 = 24 * m + 5 /\ (24 * m + 1) + 5 = 24 * m + 6
    BY SMT
  <2>2. /\ (24 * m + 7) + 1 = 24 * m + 8 /\ (24 * m + 7) + 2 = 24 * m + 9 /\ (24 * m + 7) + 3 = 24 * m + 10
        /\ (24 * m + 7) + 4 = 24 * m + 11 /\ (24 * m + 7) + 5 = 24 * m + 12
    BY SMT
  <2>3. /\ (24 * m + 13) + 1 = 24 * m + 14 /\ (24 * m + 13) + 2 = 24 * m + 15 /\ (24 * m + 13) + 3 = 24 * m + 16
        /\ (24 * m + 13) + 4 = 24 * m + 17 /\ (24 * m + 13) + 5 = 24 * m + 18
    BY SMT
  <2>4. /\ (24 * m + 19) + 1 = 24 * m + 20 /\ (24 * m + 19) + 2 = 24 * m + 21 /\ (24 * m + 19) + 3 = 24 * m + 22
        /\ (24 * m + 19) + 4 = 24 * m + 23 /\ (24 * m + 19) + 5 = 24 * m + 24
    BY SMT
  <2> QED
    BY <2>1, <2>2, <2>3, <2>4 DEF Packed
<1> DEFINE F == [i \in 1..24 |-> B(i)]
<1>6. \A i \in 1..24 : F[i] = B(i)
  OBVIOUS
<1>7. /\ 1 \in 1..24 /\ 2 \in 1..24 /\ 3 \in 1..24 /\ 4 \in 1..24 /\ 5 \in 1..24 /\ 6 \in 1..24 /\ 7 \in 1..24
      /\ 8 \in 1..24 /\ 9 \in 1..24 /\ 10 \in 1..24 /\ 11 \in 1..24 /\ 12 \in 1..24 /\ 13 \in 1..24
      /\ 14 \in 1..24 /\ 15 \in 1..24 /\ 16 \in 1..24 /\ 17 \in 1..24 /\ 18 \in 1..24 /\ 19 \in 1..24
      /\ 20 \in 1..24 /\ 21 \in 1..24 /\ 22 \in 1..24 /\ 23 \in 1..24 /\ 24 \in 1..24
  BY SMT
<1> HIDE DEF F
<1>8. /\ F[1] = B(1) /\ F[2] = B(2) /\ F[3] = B(3) /\ F[4] = B(4) /\ F[5] = B(5) /\ F[6] = B(6) /\ F[7] = B(7)
      /\ F[8] = B(8) /\ F[9] = B(9) /\ F[10] = B(10) /\ F[11] = B(11) /\ F[12] = B(12) /\ F[13] = B(13)
      /\ F[14] = B(14) /\ F[15] = B(15) /\ F[16] = B(16) /\ F[17] = B(17) /\ F[18] = B(18) /\ F[19] = B(19)
      /\ F[20] = B(20) /\ F[21] = B(21) /\ F[22] = B(22) /\ F[23] = B(23) /\ F[24] = B(24)
  BY <1>6, <1>7
<1> HIDE DEF B
<1>9. /\ BitsOf(x, F[1], F[2], F[3], F[4], F[5], F[6], F[7], F[8])
      /\ BitsOf(y, F[9], F[10], F[11], F[12], F[13], F[14], F[15], F[16])
      /\ BitsOf(z, F[17], F[18], F[19], F[20], F[21], F[22], F[23], F[24])
  BY <1>2, <1>3, <1>4, <1>8
<1>10. Numbers(x, y, z, F)
  BY <1>1, <1>9, SextetsOfBits
<1> QED
  BY <1>5, <1>8, <1>10 DEF Numbers, Number, Packs

\* The numbers of RFC 4648 are those.
LEMMA ReferenceEncodes ==
  ASSUME NEW data \in Seq(Octet)
  PROVE  Base64Reference(data) = Encoding(data)
<1> DEFINE n == Len(data)
           sextet(k) == 32 * Bit(data, 6 * k - 5) + 16 * Bit(data, 6 * k - 4) + 8 * Bit(data, 6 * k - 3)
                          + 4 * Bit(data, 6 * k - 2) + 2 * Bit(data, 6 * k - 1) + Bit(data, 6 * k)
           size == 4 * ((Written(n) + 3) \div 4)
<1>1. n \in Nat
  BY LenProperties
<1>2. Base64Reference(data) = [k \in 1..size |-> IF k <= Written(n) THEN B64Digit(sextet(k)) ELSE Filler]
  BY DEF Base64Reference, Written
<1> HIDE DEF n
<1>3. size = 4 * ((n + 2) \div 3)
  BY <1>1, SMT DEF Written
<1>4. ASSUME NEW k \in Nat, k # 0 PROVE sextet(k) = Six(data, k)
  <2> DEFINE i == 6 * k - 5
             m == (k - 1) \div 4
             r == (k - 1) % 4
  <2>1. i + 1 = 6 * k - 4 /\ i + 2 = 6 * k - 3 /\ i + 3 = 6 * k - 2 /\ i + 4 = 6 * k - 1 /\ i + 5 = 6 * k
    BY SMT
  <2>2. sextet(k) = Packed(data, i)
    BY <2>1 DEF Packed
  <2>3. /\ m \in Nat /\ (r = 0 \/ r = 1 \/ r = 2 \/ r = 3)
        /\ (r = 0 => i = 24 * m + 1) /\ (r = 1 => i = 24 * m + 7)
        /\ (r = 2 => i = 24 * m + 13) /\ (r = 3 => i = 24 * m + 19)
    BY <1>4, SMT
  <2>4. Six(data, k) = Sextet(Byte(data, 3 * m + 1), Byte(data, 3 * m + 2), Byte(data, 3 * m + 3), r)
    BY DEF Six
  <2> HIDE DEF i, m, r, sextet
  <2>5. Packs(data, m, Byte(data, 3 * m + 1), Byte(data, 3 * m + 2), Byte(data, 3 * m + 3))
    BY <2>3, PackedIsSextet
  <2> QED
    BY <2>2, <2>3, <2>4, <2>5 DEF Packs
<1>5. \A k \in 1..size : k \in Nat /\ k # 0
  <2> HIDE DEF size
  <2> QED
    BY SMT
<1> HIDE DEF size, sextet
<1>6. Base64Reference(data) = [k \in 1..size |-> IF k <= Written(n) THEN B64Digit(Six(data, k)) ELSE Filler]
  BY <1>2, <1>4, <1>5
<1> QED
  BY <1>3, <1>6 DEF Encoding, n

\* Where the elements of a concatenation are.
LEMMA ConcatElements ==
  ASSUME NEW s \in Seq(Nat), NEW t \in Seq(Nat)
  PROVE  /\ s \o t \in Seq(Nat) /\ Len(s \o t) = Len(s) + Len(t)
         /\ \A i \in 1..Len(s) : (s \o t)[i] = s[i]
         /\ \A i \in 1..Len(t) : (s \o t)[Len(s) + i] = t[i]
BY SMT

\* A sequence, and four elements behind it.
LEMMA FourBehind ==
  ASSUME NEW n \in Nat, NEW g \in Seq(Nat), Len(g) = n, NEW t \in Seq(Nat), Len(t) = 4,
         NEW e \in Seq(Nat), Len(e) = n + 4, \A j \in 1..n : e[j] = g[j],
         e[n + 1] = t[1], e[n + 2] = t[2], e[n + 3] = t[3], e[n + 4] = t[4]
  PROVE  g \o t = e
<1>1. /\ g \o t \in Seq(Nat) /\ Len(g \o t) = Len(g) + Len(t)
      /\ \A i \in 1..Len(g) : (g \o t)[i] = g[i]
      /\ \A i \in 1..Len(t) : (g \o t)[Len(g) + i] = t[i]
  BY ONLY g \in Seq(Nat), t \in Seq(Nat), ConcatElements
<1>2. ASSUME NEW i \in 1..(n + 4) PROVE (g \o t)[i] = e[i]
  <2>1. i \in 1..n \/ i = n + 1 \/ i = n + 2 \/ i = n + 3 \/ i = n + 4
    BY SMT
  <2>2. 1 \in 1..4 /\ 2 \in 1..4 /\ 3 \in 1..4 /\ 4 \in 1..4
    BY SMT
  <2>3. /\ (g \o t)[n + 1] = t[1] /\ (g \o t)[n + 2] = t[2]
        /\ (g \o t)[n + 3] = t[3] /\ (g \o t)[n + 4] = t[4]
    <3>1. \A k \in 1..4 : (g \o t)[n + k] = t[k]
      BY <1>1
    <3> QED
      BY <2>2, <3>1
  <2>4. ASSUME i \in 1..n PROVE (g \o t)[i] = e[i]
    BY <1>1, <2>4
  <2> QED
    BY <2>1, <2>3, <2>4
<1>3. Len(g \o t) = Len(e) /\ 1..Len(g \o t) = 1..(n + 4)
  BY <1>1
<1>4. \A i \in 1..Len(g \o t) : (g \o t)[i] = e[i]
  BY <1>2, <1>3
<1> QED
  BY <1>1, <1>3, <1>4, SameElements

\* The first k of four elements, and others in the place of the rest.
LEMMA CutAndFilled ==
  ASSUME NEW D \in Seq(Nat), Len(D) = 4, NEW k \in 1..4, NEW t \in Seq(Nat), Len(t) = 4 - k
  PROVE  /\ SubSeq(D, 1, k) \o t \in Seq(Nat) /\ Len(SubSeq(D, 1, k) \o t) = 4
         /\ \A i \in 1..k : (SubSeq(D, 1, k) \o t)[i] = D[i]
         /\ \A i \in 1..(4 - k) : (SubSeq(D, 1, k) \o t)[k + i] = t[i]
<1> DEFINE s == SubSeq(D, 1, k)
<1>1. s \in Seq(Nat) /\ Len(s) = k /\ \A i \in 1..k : s[i] = D[i]
  <2>1. 1 \in Int /\ k \in Int /\ 1 <= k /\ \A i \in 1..k : D[i] \in Nat
    <3>1. 1 \in Int /\ k \in Int /\ 1 <= k /\ \A i \in 1..k : i \in 1..Len(D)
      BY SMT
    <3> QED
      BY <3>1, ElementOfSeq
  <2>2. /\ s \in Seq(Nat) /\ Len(s) = k - 1 + 1 /\ \A i \in 1..(k - 1 + 1) : s[i] = D[1 + i - 1]
    BY ONLY <2>1, SubSeqProperties, SMT
  <2>3. k - 1 + 1 = k /\ \A i \in 1..k : 1 + i - 1 = i
    BY SMT
  <2> HIDE DEF s
  <2> QED
    BY <2>2, <2>3
<1>2. k + (4 - k) = 4
  BY SMT
<1> HIDE DEF s
<1>3. /\ s \o t \in Seq(Nat) /\ Len(s \o t) = 4
      /\ \A i \in 1..k : (s \o t)[i] = s[i]
      /\ \A i \in 1..(4 - k) : (s \o t)[k + i] = t[i]
  <2>1. /\ s \o t \in Seq(Nat) /\ Len(s \o t) = Len(s) + Len(t)
        /\ \A i \in 1..Len(s) : (s \o t)[i] = s[i]
        /\ \A i \in 1..Len(t) : (s \o t)[Len(s) + i] = t[i]
    BY ONLY <1>1, t \in Seq(Nat), ConcatElements
  <2> QED
    BY <1>1, <1>2, <2>1
<1> QED
  BY <1>1, <1>3 DEF s

\* base64_encode writes these digits.
LEMMA EncodeEncodes ==
  ASSUME NEW data \in Seq(Octet)
  PROVE  Base64Encode(data) = Encoding(data)
<1> DEFINE n == Len(data)
           f == n \div 3
           e == Encoding(data)
           digit(j) == LET k == (j + 3) \div 4
                       IN Digits(data[3 * k - 2], data[3 * k - 1], data[3 * k])[((j - 1) % 4) + 1]
           g == [j \in 1..(4 * f) |-> digit(j)]
           one == SubSeq(Digits(data[n], 0, 0), 1, 2) \o <<Filler, Filler>>
           two == SubSeq(Digits(data[n - 1], data[n], 0), 1, 3) \o <<Filler>>
           tail == CASE n % 3 = 0 -> <<>>
                     [] n % 3 = 1 -> one
                     [] n % 3 = 2 -> two
<1>1. n \in Nat
  BY LenProperties
<1>2. \A i \in 1..n : data[i] \in Octet
  BY ElementOfSeq
<1>3. Base64Encode(data) = g \o tail
  BY DEF Base64Encode, Base64As
<1>4. e = [j \in 1..(4 * ((n + 2) \div 3)) |-> IF j <= Written(n) THEN B64Digit(Six(data, j)) ELSE Filler]
  BY DEF Encoding
<1>5. \A i : Byte(data, i) = IF i <= n THEN data[i] ELSE 0
  BY DEF Byte
<1> HIDE DEF n
<1>6. f \in Nat /\ (n = 3 * f \/ n = 3 * f + 1 \/ n = 3 * f + 2)
  BY <1>1, SMT
<1>7. /\ 4 * f \in Nat /\ 4 * f <= 4 * ((n + 2) \div 3) /\ 4 * f <= Written(n) /\ Written(n) \in Nat
  BY <1>1, SMT DEF Written
<1>8. ASSUME NEW j \in 1..(4 * f)
      PROVE  /\ digit(j) = B64Digit(Six(data, j)) /\ B64Digit(Six(data, j)) \in Nat
             /\ j <= Written(n) /\ j \in 1..(4 * ((n + 2) \div 3))
  <2> DEFINE m == (j - 1) \div 4
             r == (j - 1) % 4
             k == (j + 3) \div 4
             x == data[3 * m + 1]
             y == data[3 * m + 2]
             z == data[3 * m + 3]
  <2>1. /\ 3 * k - 2 = 3 * m + 1 /\ 3 * k - 1 = 3 * m + 2 /\ 3 * k = 3 * m + 3
        /\ 3 * m + 1 \in 1..n /\ 3 * m + 2 \in 1..n /\ 3 * m + 3 \in 1..n
        /\ 3 * m + 1 <= n /\ 3 * m + 2 <= n /\ 3 * m + 3 <= n
        /\ (r = 0 \/ r = 1 \/ r = 2 \/ r = 3)
    BY <1>1, SMT
  <2>2. x \in Octet /\ y \in Octet /\ z \in Octet
    BY <1>2, <2>1
  <2>3. Six(data, j) = Sextet(x, y, z, r)
    BY <1>5, <2>1 DEF Six
  <2>4. digit(j) = Digits(x, y, z)[r + 1]
    BY <2>1
  <2>5. j \in Nat /\ j # 0 /\ j <= Written(n) /\ j \in 1..(4 * ((n + 2) \div 3))
    <3> DEFINE w == Written(n)
               l == 4 * ((n + 2) \div 3)
    <3>1. 4 * f <= w /\ 4 * f <= l /\ w \in Nat /\ l \in Nat /\ 4 * f \in Nat
      <4>1. l \in Nat
        BY <1>1, SMT
      <4> QED
        BY <1>7, <4>1
    <3> HIDE DEF w, l, f
    <3>2. j \in Nat /\ j # 0 /\ j <= w /\ j \in 1..l
      BY <3>1, SMT
    <3> QED
      BY <3>2 DEF w, l
  <2>6. B64Digit(Six(data, j)) \in Nat
    BY <2>5, SixType, ValueOfDigit
  <2> HIDE DEF m, r, k, x, y, z, digit
  <2>7. Digits(x, y, z)[r + 1] = B64Digit(Sextet(x, y, z, r))
    <3> DEFINE p == B64Digit(Sextet(x, y, z, 0))
               q == B64Digit(Sextet(x, y, z, 1))
               s == B64Digit(Sextet(x, y, z, 2))
               t == B64Digit(Sextet(x, y, z, 3))
    <3>1. Digits(x, y, z) = <<p, q, s, t>>
      BY <2>2, DigitsAreSextets
    <3> HIDE DEF p, q, s, t
    <3>2. <<p, q, s, t>>[0 + 1] = p /\ <<p, q, s, t>>[1 + 1] = q /\ <<p, q, s, t>>[2 + 1] = s /\ <<p, q, s, t>>[3 + 1] = t
      BY SMT
    <3> QED
      BY <2>1, <3>1, <3>2 DEF p, q, s, t
  <2> QED
    BY <2>3, <2>4, <2>5, <2>6, <2>7
<1> HIDE DEF digit
<1>9. g \in [1..(4 * f) -> Nat] /\ \A j \in 1..(4 * f) : e[j] = g[j]
  BY <1>4, <1>8
<1> HIDE DEF g
<1>10. /\ n = 3 * f => n % 3 = 0 /\ 4 * ((n + 2) \div 3) = 4 * f
       /\ n = 3 * f + 1 => n % 3 = 1 /\ 4 * ((n + 2) \div 3) = 4 * f + 4 /\ Written(n) = 4 * f + 2
       /\ n = 3 * f + 2 => n % 3 = 2 /\ 4 * ((n + 2) \div 3) = 4 * f + 4 /\ Written(n) = 4 * f + 3
  BY <1>1, SMT DEF Written
<1>11. (n % 3 = 0 => tail = <<>>) /\ (n % 3 = 1 => tail = one) /\ (n % 3 = 2 => tail = two)
  <2> HIDE DEF one, two
  <2> QED
    BY <1>1, SMT
<1> HIDE DEF tail
<1> HIDE DEF f
<1>12. CASE n = 3 * f
  <2>1. e = g
    BY <1>4, <1>9, <1>10, <1>12
  <2>2. g \in Seq(Nat)
    BY <1>7, <1>9, Listed
  <2> QED
    BY <1>3, <1>10, <1>11, <1>12, <2>1, <2>2, ConcatEmptySeq
<1> DEFINE x == Byte(data, 3 * f + 1)
           y == Byte(data, 3 * f + 2)
           z == Byte(data, 3 * f + 3)
           p(c) == B64Digit(Sextet(x, y, z, c))
<1>13. ASSUME NEW c \in 1..4 PROVE B64Digit(Six(data, 4 * f + c)) = p(c - 1) /\ p(c - 1) \in Nat
  <2> DEFINE j == 4 * f + c
  <2>1. j \in Nat /\ j # 0 /\ (j - 1) \div 4 = f /\ (j - 1) % 4 = c - 1
    BY <1>6, SMT
  <2> HIDE DEF j
  <2>2. Six(data, j) = Sextet(x, y, z, c - 1)
    BY <2>1 DEF Six
  <2>3. B64Digit(Six(data, j)) \in Nat
    BY <2>1, SixType, ValueOfDigit
  <2> QED
    BY <2>2, <2>3 DEF j
<1>14. /\ 3 * f + 1 \in Nat /\ 3 * f + 1 # 0 /\ 3 * f + 2 \in Nat /\ 3 * f + 2 # 0
       /\ 3 * f + 3 \in Nat /\ 3 * f + 3 # 0
  BY <1>6, SMT
<1>15. x \in Octet /\ y \in Octet /\ z \in Octet
  BY <1>14, ByteType
<1>16. Digits(x, y, z) = <<p(0), p(1), p(2), p(3)>>
  BY <1>15, DigitsAreSextets
<1>17. /\ B64Digit(Six(data, 4 * f + 1)) = p(0) /\ p(0) \in Nat
       /\ B64Digit(Six(data, 4 * f + 2)) = p(1) /\ p(1) \in Nat
       /\ B64Digit(Six(data, 4 * f + 3)) = p(2) /\ p(2) \in Nat /\ p(3) \in Nat
  <2>1. /\ 1 \in 1..4 /\ 2 \in 1..4 /\ 3 \in 1..4 /\ 4 \in 1..4
        /\ 1 - 1 = 0 /\ 2 - 1 = 1 /\ 3 - 1 = 2 /\ 4 - 1 = 3
    BY SMT
  <2> QED
    BY <1>13, <2>1
<1> HIDE DEF x, y, z, p
<1>18. Filler \in Nat
  BY SMT DEF Filler
<1>19. ASSUME 4 * ((n + 2) \div 3) = 4 * f + 4 PROVE e \in [1..(4 * f + 4) -> Nat]
  <2>1. \A j \in 1..(4 * f + 4) : j \in Nat /\ j # 0
    BY <1>6, SMT
  <2>2. \A j \in 1..(4 * f + 4) : B64Digit(Six(data, j)) \in Nat
    BY <2>1, SixType, ValueOfDigit
  <2> QED
    BY <1>4, <1>19, <1>18, <2>2
<1>20. CASE n = 3 * f + 1
  <2> DEFINE D == <<p(0), p(1), p(2), p(3)>>
             t == <<Filler, Filler>>
             u == SubSeq(D, 1, 2) \o t
  <2>1. x = data[n] /\ y = 0 /\ z = 0
    <3>1. 3 * f + 1 <= n /\ ~(3 * f + 2 <= n) /\ ~(3 * f + 3 <= n)
      BY <1>6, <1>20, SMT
    <3> QED
      BY <1>5, <1>20, <3>1 DEF x, y, z
  <2>2. tail = u
    BY <1>10, <1>11, <1>16, <1>20, <2>1
  <2>3. D \in Seq(Nat) /\ Len(D) = 4 /\ D[1] = p(0) /\ D[2] = p(1) /\ D[3] = p(2)
    BY <1>17, SMT
  <2>4. t \in Seq(Nat) /\ Len(t) = 4 - 2 /\ t[1] = Filler /\ t[2] = Filler
    BY <1>18, SMT
  <2> HIDE DEF D, t
  <2>5. u \in Seq(Nat) /\ Len(u) = 4 /\ u[1] = p(0) /\ u[2] = p(1) /\ u[3] = Filler /\ u[4] = Filler
    <3>1. /\ 2 \in 1..4 /\ 4 - 2 = 2
          /\ 1 \in 1..2 /\ 2 \in 1..2 /\ 1 \in 1..2 /\ 2 \in 1..2 /\ 2 + 1 = 3 /\ 2 + 2 = 4
      BY SMT
    <3>2. /\ u \in Seq(Nat) /\ Len(u) = 4 /\ \A i \in 1..2 : u[i] = D[i]
          /\ \A i \in 1..(4 - 2) : u[2 + i] = t[i]
      BY <2>3, <2>4, <3>1, CutAndFilled
    <3> HIDE DEF u
    <3> QED
      BY <2>3, <2>4, <3>1, <3>2
  <2> HIDE DEF u
  <2>6. e \in [1..(4 * f + 4) -> Nat]
    BY <1>10, <1>19, <1>20
  <2>7. /\ 4 * f + 4 \in Nat /\ 4 * f + 1 \in 1..(4 * f + 4) /\ 4 * f + 2 \in 1..(4 * f + 4)
        /\ 4 * f + 3 \in 1..(4 * f + 4) /\ 4 * f + 4 \in 1..(4 * f + 4)
        /\ 4 * f + 1 <= 4 * f + 2 /\ 4 * f + 2 <= 4 * f + 2
        /\ ~(4 * f + 3 <= 4 * f + 2) /\ ~(4 * f + 4 <= 4 * f + 2)
    BY <1>6, SMT
  <2>8. e[4 * f + 1] = u[1] /\ e[4 * f + 2] = u[2] /\ e[4 * f + 3] = u[3] /\ e[4 * f + 4] = u[4]
    BY <1>4, <1>10, <1>17, <1>20, <2>5, <2>7
  <2> QED
    BY <1>3, <1>7, <1>9, <2>2, <2>5, <2>6, <2>7, <2>8, Listed, FourBehind
<1>21. CASE n = 3 * f + 2
  <2> DEFINE D == <<p(0), p(1), p(2), p(3)>>
             t == <<Filler>>
             u == SubSeq(D, 1, 3) \o t
  <2>1. x = data[n - 1] /\ y = data[n] /\ z = 0
    <3>1. 3 * f + 1 <= n /\ 3 * f + 2 <= n /\ ~(3 * f + 3 <= n) /\ n - 1 = 3 * f + 1
      BY <1>6, <1>21, SMT
    <3> QED
      BY <1>5, <1>21, <3>1 DEF x, y, z
  <2>2. tail = u
    BY <1>10, <1>11, <1>16, <1>21, <2>1
  <2>3. D \in Seq(Nat) /\ Len(D) = 4 /\ D[1] = p(0) /\ D[2] = p(1) /\ D[3] = p(2)
    BY <1>17, SMT
  <2>4. t \in Seq(Nat) /\ Len(t) = 4 - 3 /\ t[1] = Filler
    BY <1>18, SMT
  <2> HIDE DEF D, t
  <2>5. u \in Seq(Nat) /\ Len(u) = 4 /\ u[1] = p(0) /\ u[2] = p(1) /\ u[3] = p(2) /\ u[4] = Filler
    <3>1. /\ 3 \in 1..4 /\ 4 - 3 = 1
          /\ 1 \in 1..3 /\ 2 \in 1..3 /\ 3 \in 1..3 /\ 1 \in 1..1 /\ 3 + 1 = 4
      BY SMT
    <3>2. /\ u \in Seq(Nat) /\ Len(u) = 4 /\ \A i \in 1..3 : u[i] = D[i]
          /\ \A i \in 1..(4 - 3) : u[3 + i] = t[i]
      BY <2>3, <2>4, <3>1, CutAndFilled
    <3> HIDE DEF u
    <3> QED
      BY <2>3, <2>4, <3>1, <3>2
  <2> HIDE DEF u
  <2>6. e \in [1..(4 * f + 4) -> Nat]
    BY <1>10, <1>19, <1>21
  <2>7. /\ 4 * f + 4 \in Nat /\ 4 * f + 1 \in 1..(4 * f + 4) /\ 4 * f + 2 \in 1..(4 * f + 4)
        /\ 4 * f + 3 \in 1..(4 * f + 4) /\ 4 * f + 4 \in 1..(4 * f + 4)
        /\ 4 * f + 1 <= 4 * f + 3 /\ 4 * f + 2 <= 4 * f + 3
        /\ 4 * f + 3 <= 4 * f + 3 /\ ~(4 * f + 4 <= 4 * f + 3)
    BY <1>6, SMT
  <2>8. e[4 * f + 1] = u[1] /\ e[4 * f + 2] = u[2] /\ e[4 * f + 3] = u[3] /\ e[4 * f + 4] = u[4]
    BY <1>4, <1>10, <1>17, <1>21, <2>5, <2>7
  <2> QED
    BY <1>3, <1>7, <1>9, <2>2, <2>5, <2>6, <2>7, <2>8, Listed, FourBehind
<1> QED
  BY <1>6, <1>12, <1>20, <1>21

\* What base64_decode holds.
Acc == [v : Nat, bits : {0, 2, 4, 6}, out : Seq(Octet), bad : BOOLEAN]
In(v, a) == (64 * v + a) % 16777216

GoesIn(v, a, w) ==
  /\ w \in Nat /\ w % 64 = a /\ w % 4096 = 64 * (v % 64) + a
  /\ w % 1024 = 64 * (v % 16) + a /\ w % 256 = 64 * (v % 4) + a
ComesOut(w, x, y, z) ==
  /\ w % 4096 = 64 * (x \div 4) + (16 * (x % 4) + (y \div 16)) => (w \div 16) % 256 = x /\ w % 16 = y \div 16
  /\ w % 1024 = 64 * (y \div 16) + (4 * (y % 16) + (z \div 64)) => (w \div 4) % 256 = y /\ w % 4 = z \div 64
  /\ 64 * (z \div 64) + (z % 64) = z

\* Six bits go in at the low end: the low bits that were there stand above them.
LEMMA BitsGoIn ==
  ASSUME NEW v \in Nat, NEW a \in 0..63
  PROVE  GoesIn(v, a, In(v, a))
<1>1. PICK q \in Nat : 64 * v + a = 16777216 * q + In(v, a)
  BY SMT DEF In
<1>2. In(v, a) \in Nat
  BY SMT DEF In
<1>3. PICK b \in Nat : v = 64 * b + (v % 64)
  BY SMT
<1>4. PICK c \in Nat : v = 16 * c + (v % 16)
  BY SMT
<1>5. PICK d \in Nat : v = 4 * d + (v % 4)
  BY SMT
<1>6. v % 64 \in 0..63 /\ v % 16 \in 0..15 /\ v % 4 \in 0..3
  BY SMT
<1> DEFINE w == In(v, a)
           e == v % 64
           f == v % 16
           g == v % 4
<1> HIDE DEF w, e, f, g
<1>7. w \in Nat /\ e \in 0..63 /\ f \in 0..15 /\ g \in 0..3
  BY <1>2, <1>6 DEF w, e, f, g
<1>8. w % 64 = a
  BY <1>1, <1>7, SMT DEF w
<1>9. w % 4096 = 64 * e + a
  <2>1. w = 4096 * (b - 4096 * q) + (64 * e + a)
    BY <1>1, <1>3, <1>7, SMT DEF w, e
  <2> QED
    BY <1>7, <2>1, SMT
<1>10. w % 1024 = 64 * f + a
  <2>1. w = 1024 * (c - 16384 * q) + (64 * f + a)
    BY <1>1, <1>4, <1>7, SMT DEF w, f
  <2> QED
    BY <1>7, <2>1, SMT
<1>11. w % 256 = 64 * g + a
  <2>1. w = 256 * (d - 65536 * q) + (64 * g + a)
    BY <1>1, <1>5, <1>7, SMT DEF w, g
  <2> QED
    BY <1>7, <2>1, SMT
<1> QED
  BY <1>7, <1>8, <1>9, <1>10, <1>11, SMT DEF GoesIn, w, e, f, g

\* Eight bits come out.
LEMMA BitsComeOut ==
  ASSUME NEW w \in Nat, NEW x \in Octet, NEW y \in Octet, NEW z \in Octet
  PROVE  ComesOut(w, x, y, z)
<1>1. ASSUME w % 4096 = 64 * (x \div 4) + (16 * (x % 4) + (y \div 16))
      PROVE  (w \div 16) % 256 = x /\ w % 16 = y \div 16
  <2>1. PICK q \in Nat : w = 4096 * q + (w % 4096)
    BY SMT
  <2>2. y \div 16 \in 0..15 /\ 64 * (x \div 4) + 16 * (x % 4) = 16 * x
    BY SMT DEF Octet
  <2> DEFINE t == y \div 16
  <2>3. w % 4096 = 16 * x + t
    BY <1>1, <2>2, SMT DEF Octet
  <2> HIDE DEF t
  <2>4. t \in 0..15 /\ x \in 0..255
    BY <2>2 DEF t, Octet
  <2>5. w = 16 * (256 * q + x) + t
    BY <2>1, <2>3, <2>4, SMT
  <2>6. w \div 16 = 256 * q + x /\ w % 16 = t
    BY <2>4, <2>5, SMT
  <2>7. (w \div 16) % 256 = x
    BY <2>4, <2>6, SMT
  <2> QED
    BY <2>6, <2>7 DEF t
<1>2. ASSUME w % 1024 = 64 * (y \div 16) + (4 * (y % 16) + (z \div 64))
      PROVE  (w \div 4) % 256 = y /\ w % 4 = z \div 64
  <2>1. PICK q \in Nat : w = 1024 * q + (w % 1024)
    BY SMT
  <2>2. z \div 64 \in 0..3 /\ 64 * (y \div 16) + 4 * (y % 16) = 4 * y
    BY SMT DEF Octet
  <2> DEFINE t == z \div 64
  <2>3. w % 1024 = 4 * y + t
    BY <1>2, <2>2, SMT DEF Octet
  <2> HIDE DEF t
  <2>4. t \in 0..3 /\ y \in 0..255
    BY <2>2 DEF t, Octet
  <2>5. w = 4 * (256 * q + y) + t
    BY <2>1, <2>3, <2>4, SMT
  <2>6. w \div 4 = 256 * q + y /\ w % 4 = t
    BY <2>4, <2>5, SMT
  <2>7. (w \div 4) % 256 = y
    BY <2>4, <2>6, SMT
  <2> QED
    BY <2>6, <2>7 DEF t
<1>3. 64 * (z \div 64) + (z % 64) = z
  BY SMT DEF Octet
<1> QED
  BY <1>1, <1>2, <1>3, SMT DEF ComesOut

LEMMA InType ==
  ASSUME NEW v \in Nat, NEW a \in 0..63
  PROVE  In(v, a) \in Nat
BY SMT DEF In

\* What an iteration of base64_decode does with a digit, by the bits that were there.
LEMMA DecodeDigit ==
  ASSUME NEW acc \in Acc, acc.bad = FALSE, NEW a \in 0..63
  PROVE  LET w == In(acc.v, a)
             r == Decode(acc, B64Digit(a))
         IN /\ r.bad = FALSE /\ r.v = w
            /\ acc.bits = 0 => r.bits = 6 /\ r.out = acc.out
            /\ acc.bits = 6 => r.bits = 4 /\ r.out = Append(acc.out, (w \div 16) % 256)
            /\ acc.bits = 4 => r.bits = 2 /\ r.out = Append(acc.out, (w \div 4) % 256)
            /\ acc.bits = 2 => r.bits = 0 /\ r.out = Append(acc.out, w % 256)
<1> DEFINE c == B64Digit(a)
           w == In(acc.v, a)
           b == acc.bits + 6
           o == (w \div 2 ^ (b - 8)) % 256
           r == Decode(acc, c)
<1>1. c \notin Skipped /\ Value(c) = a /\ ~(a < 0)
  <2>1. ~(a < 0)
    BY SMT
  <2> QED
    BY <2>1, ValueOfDigit
<1>2. acc.v \in Nat /\ acc.bits \in {0, 2, 4, 6} /\ acc.out \in Seq(Octet)
  BY DEF Acc
<1> HIDE DEF c
<1>3. r = IF b < 8 THEN [acc EXCEPT !.v = w, !.bits = b] ELSE [acc EXCEPT !.v = w, !.bits = b - 8, !.out = Append(@, o)]
  BY <1>1, SMT DEF Decode, In
<1>4. w \in Nat
  BY <1>2, InType
<1> HIDE DEF r, w
<1>5. CASE acc.bits = 0
  <2>1. b < 8 /\ b = 6
    BY <1>5, SMT
  <2>2. r = [acc EXCEPT !.v = w, !.bits = 6]
    BY <1>3, <2>1
  <2> QED
    BY <1>5, <2>2, SMT DEF Acc, r, c, w
<1>6. 2 ^ 4 = 16 /\ 2 ^ 2 = 4 /\ 2 ^ 0 = 1 /\ w \div 1 = w
  BY <1>4, SMT
<1>7. CASE acc.bits = 6
  <2>1. ~(b < 8) /\ b - 8 = 4
    BY <1>7, SMT
  <2>2. r = [acc EXCEPT !.v = w, !.bits = 4, !.out = Append(@, (w \div 16) % 256)]
    <3>1. o = (w \div 16) % 256
      BY <1>6, <2>1
    <3> HIDE DEF o
    <3> QED
      BY <1>3, <2>1, <3>1
  <2> QED
    BY <1>7, <2>2, SMT DEF Acc, r, c, w
<1>8. CASE acc.bits = 4
  <2>1. ~(b < 8) /\ b - 8 = 2
    BY <1>8, SMT
  <2>2. r = [acc EXCEPT !.v = w, !.bits = 2, !.out = Append(@, (w \div 4) % 256)]
    <3>1. o = (w \div 4) % 256
      BY <1>6, <2>1
    <3> HIDE DEF o
    <3> QED
      BY <1>3, <2>1, <3>1
  <2> QED
    BY <1>8, <2>2, SMT DEF Acc, r, c, w
<1>9. CASE acc.bits = 2
  <2>1. ~(b < 8) /\ b - 8 = 0
    BY <1>9, SMT
  <2>2. r = [acc EXCEPT !.v = w, !.bits = 0, !.out = Append(@, w % 256)]
    <3>1. o = w % 256
      BY <1>6, <2>1
    <3> HIDE DEF o
    <3> QED
      BY <1>3, <2>1, <3>1
  <2> QED
    BY <1>9, <2>2, SMT DEF Acc, r, c, w
<1> QED
  BY <1>2, <1>5, <1>7, <1>8, <1>9 DEF r, c, w

LEMMA ValueType ==
  ASSUME NEW c
  PROVE  Value(c) = -1 \/ Value(c) \in 0..63
BY DEF Value

LEMMA DecodeType ==
  ASSUME NEW acc \in Acc, NEW c
  PROVE  Decode(acc, c) \in Acc
<1> DEFINE a == Value(c)
           w == In(acc.v, a)
           b == acc.bits + 6
           o == (w \div 2 ^ (b - 8)) % 256
<1>1. /\ acc.v \in Nat /\ acc.bits \in {0, 2, 4, 6} /\ acc.out \in Seq(Octet) /\ acc.bad \in BOOLEAN
      /\ acc = [v |-> acc.v, bits |-> acc.bits, out |-> acc.out, bad |-> acc.bad]
  BY DEF Acc
<1> HIDE DEF a
<1>2. Decode(acc, c) = IF c \in Skipped \/ acc.bad THEN acc
                       ELSE IF a < 0 THEN [acc EXCEPT !.bad = TRUE]
                       ELSE IF b < 8 THEN [acc EXCEPT !.v = w, !.bits = b]
                       ELSE [acc EXCEPT !.v = w, !.bits = b - 8, !.out = Append(@, o)]
  BY SMT DEF Decode, In, a
<1>3. a \in 0..63 \/ a < 0
  BY ValueType, SMT DEF a
<1>4. [acc EXCEPT !.bad = TRUE] \in Acc
  BY DEF Acc
<1>5. ASSUME a \in 0..63, b < 8 PROVE [acc EXCEPT !.v = w, !.bits = b] \in Acc
  <2>1. w \in Nat
    BY <1>1, <1>5, InType
  <2>2. b \in {0, 2, 4, 6}
    BY <1>1, <1>5, SMT
  <2> HIDE DEF w, b
  <2> QED
    BY <2>1, <2>2 DEF Acc
<1>6. ASSUME a \in 0..63, ~(b < 8) PROVE [acc EXCEPT !.v = w, !.bits = b - 8, !.out = Append(@, o)] \in Acc
  <2>1. w \in Nat
    BY <1>1, <1>6, InType
  <2> HIDE DEF w
  <2>2. b - 8 \in {0, 2, 4, 6}
    BY <1>1, <1>6, SMT
  <2>3. 2 ^ 0 = 1 /\ 2 ^ 2 = 4 /\ 2 ^ 4 = 16 /\ 2 ^ 6 = 64
    BY SMT
  <2>4. w \div 1 \in Nat /\ w \div 4 \in Nat /\ w \div 16 \in Nat /\ w \div 64 \in Nat
    BY <2>1, SMT
  <2>5. w \div 2 ^ (b - 8) \in Nat
    BY <2>2, <2>3, <2>4
  <2>6. o \in Octet
    <3> DEFINE q == w \div 2 ^ (b - 8)
    <3>1. q \in Nat
      BY <2>5
    <3> HIDE DEF q
    <3>2. q % 256 \in Octet
      BY <3>1, SMT DEF Octet
    <3> QED
      BY <3>2 DEF q
  <2> HIDE DEF o, b
  <2>7. Append(acc.out, o) \in Seq(Octet)
    BY <1>1, <2>6, AppendProperties
  <2> QED
    BY <2>1, <2>2, <2>7 DEF Acc
<1> HIDE DEF w, b, o
<1> QED
  BY <1>2, <1>3, <1>4, <1>5, <1>6

LEMMA FillerPasses ==
  ASSUME NEW acc
  PROVE  Decode(acc, Filler) = acc
<1>1. Filler \in Skipped
  BY DEF Skipped
<1> QED
  BY <1>1, SMT DEF Decode

\* The first elements of a sequence.
LEMMA Prefix ==
  ASSUME NEW data \in Seq(Octet), NEW q \in Nat, q <= Len(data)
  PROVE  /\ SubSeq(data, 1, q) \in Seq(Octet) /\ Len(SubSeq(data, 1, q)) = q
         /\ \A i \in 1..q : SubSeq(data, 1, q)[i] = data[i]
<1> DEFINE s == SubSeq(data, 1, q)
<1>1. 1 \in Int /\ q \in Int /\ \A i \in 1..q : data[i] \in Octet
  <2>1. 1 \in Int /\ q \in Int /\ \A i \in 1..q : i \in 1..Len(data)
    <3>1. Len(data) \in Nat
      BY LenProperties
    <3> QED
      BY <3>1, SMT
  <2> QED
    BY <2>1, ElementOfSeq
<1>2. s \in Seq(Octet) /\ Len(s) = (IF 1 <= q THEN q - 1 + 1 ELSE 0) /\ \A i \in 1..(q - 1 + 1) : s[i] = data[1 + i - 1]
  BY ONLY <1>1, SubSeqProperties, SMT
<1>3. q - 1 + 1 = q /\ (IF 1 <= q THEN q - 1 + 1 ELSE 0) = q /\ \A i \in 1..q : 1 + i - 1 = i
  BY SMT
<1> HIDE DEF s
<1>4. s \in Seq(Octet) /\ Len(s) = q /\ \A i \in 1..q : s[i] = data[i]
  BY <1>2, <1>3
<1> QED
  BY <1>4 DEF s

LEMMA PrefixGrows ==
  ASSUME NEW data \in Seq(Octet), NEW q \in Nat, q + 1 <= Len(data)
  PROVE  Append(SubSeq(data, 1, q), data[q + 1]) = SubSeq(data, 1, q + 1)
<1> DEFINE s == SubSeq(data, 1, q)
           t == SubSeq(data, 1, q + 1)
           x == data[q + 1]
           u == Append(s, x)
<1>1. q <= Len(data) /\ q + 1 \in Nat /\ q + 1 \in 1..Len(data)
  <2>1. Len(data) \in Nat
    BY LenProperties
  <2> QED
    BY <2>1, SMT
<1>2. s \in Seq(Octet) /\ Len(s) = q /\ \A i \in 1..q : s[i] = data[i]
  BY <1>1, Prefix
<1>3. t \in Seq(Octet) /\ Len(t) = q + 1 /\ \A i \in 1..(q + 1) : t[i] = data[i]
  BY <1>1, Prefix
<1>4. x \in Octet
  BY <1>1, ElementOfSeq
<1> HIDE DEF s, t, x
<1>5. Grown(Octet, s, x, u)
  BY <1>2, <1>4, AppendGrows
<1> HIDE DEF u
<1>6. ASSUME NEW i \in 1..(q + 1) PROVE u[i] = t[i]
  <2>1. i \in 1..q \/ i = q + 1
    BY SMT
  <2>2. ASSUME i \in 1..q PROVE u[i] = t[i]
    <3>1. i \in 1..(q + 1)
      OBVIOUS
    <3>2. u[i] = s[i]
      BY <1>2, <1>5, <2>2 DEF Grown
    <3> QED
      BY <1>2, <1>3, <2>2, <3>1, <3>2
  <2>3. ASSUME i = q + 1 PROVE u[i] = t[i]
    <3>1. u[q + 1] = x
      BY <1>2, <1>5 DEF Grown
    <3> QED
      BY <1>3, <2>3, <3>1 DEF x
  <2> QED
    BY <2>1, <2>2, <2>3
<1>7. Len(u) = Len(t) /\ \A i \in 1..Len(u) : u[i] = t[i]
  BY <1>2, <1>3, <1>5, <1>6 DEF Grown
<1>8. u = t
  BY <1>3, <1>5, <1>7, SameElements DEF Grown
<1> QED
  BY <1>8 DEF u, x, s, t

\* A digit goes in, and the byte that it completes comes out.
Completes(v, x, y, z, a, w) ==
  /\ a = x \div 4 => w % 64 = x \div 4
  /\ v % 64 = x \div 4 /\ a = 16 * (x % 4) + (y \div 16) => (w \div 16) % 256 = x /\ w % 16 = y \div 16
  /\ v % 16 = y \div 16 /\ a = 4 * (y % 16) + (z \div 64) => (w \div 4) % 256 = y /\ w % 4 = z \div 64
  /\ v % 4 = z \div 64 /\ a = z % 64 => w % 256 = z

LEMMA ByteComesOut ==
  ASSUME NEW v \in Nat, NEW x \in Octet, NEW y \in Octet, NEW z \in Octet, NEW a \in 0..63
  PROVE  Completes(v, x, y, z, a, In(v, a))
<1> DEFINE w == In(v, a)
<1>1. GoesIn(v, a, w)
  BY BitsGoIn
<1>2. w \in Nat
  BY InType
<1> HIDE DEF w
<1>3. ComesOut(w, x, y, z)
  BY <1>2, BitsComeOut
<1>4. a = x \div 4 => w % 64 = x \div 4
  BY <1>1, SMT DEF GoesIn
<1>5. v % 64 = x \div 4 /\ a = 16 * (x % 4) + (y \div 16) => (w \div 16) % 256 = x /\ w % 16 = y \div 16
  BY <1>1, <1>2, <1>3, SMT DEF GoesIn, ComesOut
<1>6. v % 16 = y \div 16 /\ a = 4 * (y % 16) + (z \div 64) => (w \div 4) % 256 = y /\ w % 4 = z \div 64
  BY <1>1, <1>2, <1>3, SMT DEF GoesIn, ComesOut
<1>7. v % 4 = z \div 64 /\ a = z % 64 => w % 256 = z
  BY <1>1, <1>2, <1>3, SMT DEF GoesIn, ComesOut
<1> QED
  BY <1>4, <1>5, <1>6, <1>7 DEF Completes, w

LEMMA SextetCases ==
  ASSUME NEW x, NEW y, NEW z
  PROVE  /\ Sextet(x, y, z, 0) = x \div 4
         /\ Sextet(x, y, z, 1) = 16 * (x % 4) + (y \div 16)
         /\ Sextet(x, y, z, 2) = 4 * (y % 16) + (z \div 64)
         /\ Sextet(x, y, z, 3) = z % 64
BY SMT DEF Sextet

\* base64_decode after j digits: the bytes that they hold are out, and the bits
\* of the next one are at the low end.
Part(data, acc, j) ==
  LET m == j \div 4
      r == j % 4
  IN /\ acc \in Acc /\ acc.bad = FALSE /\ acc.out = SubSeq(data, 1, (6 * j) \div 8)
     /\ r = 0 => acc.bits = 0
     /\ r = 1 => acc.bits = 6 /\ acc.v % 64 = Byte(data, 3 * m + 1) \div 4
     /\ r = 2 => acc.bits = 4 /\ acc.v % 16 = Byte(data, 3 * m + 2) \div 16
     /\ r = 3 => acc.bits = 2 /\ acc.v % 4 = Byte(data, 3 * m + 3) \div 64

LEMMA PartStep ==
  ASSUME NEW data \in Seq(Octet), NEW j \in Nat, j + 1 <= Written(Len(data)),
         NEW acc, Part(data, acc, j)
  PROVE  Part(data, Decode(acc, B64Digit(Six(data, j + 1))), j + 1)
<1> DEFINE n == Len(data)
           m == j \div 4
           x == Byte(data, 3 * m + 1)
           y == Byte(data, 3 * m + 2)
           z == Byte(data, 3 * m + 3)
           a == Six(data, j + 1)
           w == In(acc.v, a)
           r == Decode(acc, B64Digit(a))
<1>1. n \in Nat
  BY LenProperties
<1>2. m \in Nat /\ (j = 4 * m \/ j = 4 * m + 1 \/ j = 4 * m + 2 \/ j = 4 * m + 3) /\ j + 1 \in Nat /\ j + 1 # 0
  BY SMT
<1>3. /\ 3 * m + 1 \in Nat /\ 3 * m + 1 # 0 /\ 3 * m + 2 \in Nat /\ 3 * m + 2 # 0
      /\ 3 * m + 3 \in Nat /\ 3 * m + 3 # 0
  BY <1>2, SMT
<1>4. x \in Octet /\ y \in Octet /\ z \in Octet
  BY <1>3, ByteType
<1>5. a = Sextet(x, y, z, j % 4)
  <2>1. (j + 1) - 1 = j
    BY SMT
  <2> QED
    BY <2>1 DEF Six
<1>6. a \in 0..63
  BY <1>2, SixType
<1>7. acc \in Acc /\ acc.bad = FALSE /\ acc.out = SubSeq(data, 1, (6 * j) \div 8) /\ acc.v \in Nat
  BY DEF Part, Acc
<1>8. /\ j % 4 = 0 => acc.bits = 0
      /\ j % 4 = 1 => acc.bits = 6 /\ acc.v % 64 = x \div 4
      /\ j % 4 = 2 => acc.bits = 4 /\ acc.v % 16 = y \div 16
      /\ j % 4 = 3 => acc.bits = 2 /\ acc.v % 4 = z \div 64
  BY DEF Part
<1> HIDE DEF a
<1>9. /\ r.bad = FALSE /\ r.v = w
      /\ acc.bits = 0 => r.bits = 6 /\ r.out = acc.out
      /\ acc.bits = 6 => r.bits = 4 /\ r.out = Append(acc.out, (w \div 16) % 256)
      /\ acc.bits = 4 => r.bits = 2 /\ r.out = Append(acc.out, (w \div 4) % 256)
      /\ acc.bits = 2 => r.bits = 0 /\ r.out = Append(acc.out, w % 256)
  BY <1>6, <1>7, DecodeDigit
<1>10. r \in Acc /\ w \in Nat /\ r.bad = FALSE
  BY <1>6, <1>7, <1>9, DecodeType, InType
<1>11. Completes(acc.v, x, y, z, a, w)
  BY <1>4, <1>6, <1>7, ByteComesOut
<1>12. /\ j = 4 * m => /\ j % 4 = 0 /\ (j + 1) % 4 = 1 /\ (j + 1) \div 4 = m
                        /\ (6 * j) \div 8 = 3 * m /\ (6 * (j + 1)) \div 8 = 3 * m
       /\ j = 4 * m + 1 => /\ j % 4 = 1 /\ (j + 1) % 4 = 2 /\ (j + 1) \div 4 = m
                            /\ (6 * j) \div 8 = 3 * m /\ (6 * (j + 1)) \div 8 = 3 * m + 1
       /\ j = 4 * m + 2 => /\ j % 4 = 2 /\ (j + 1) % 4 = 3 /\ (j + 1) \div 4 = m
                            /\ (6 * j) \div 8 = 3 * m + 1 /\ (6 * (j + 1)) \div 8 = 3 * m + 2
       /\ j = 4 * m + 3 => /\ j % 4 = 3 /\ (j + 1) % 4 = 0
                            /\ (6 * j) \div 8 = 3 * m + 2 /\ (6 * (j + 1)) \div 8 = 3 * m + 3
  <2> HIDE DEF m
  <2> QED
    BY <1>2, SMT
<1>13. /\ j = 4 * m + 1 => 3 * m + 1 <= n /\ 3 * m \in Nat
       /\ j = 4 * m + 2 => 3 * m + 2 <= n /\ (3 * m + 1) + 1 = 3 * m + 2
       /\ j = 4 * m + 3 => 3 * m + 3 <= n /\ (3 * m + 2) + 1 = 3 * m + 3
  <2> HIDE DEF m, n
  <2> QED
    BY <1>1, <1>2, SMT DEF Written, n
<1> HIDE DEF m, n, x, y, z, w, r
<1>14. /\ Sextet(x, y, z, 0) = x \div 4
       /\ Sextet(x, y, z, 1) = 16 * (x % 4) + (y \div 16)
       /\ Sextet(x, y, z, 2) = 4 * (y % 16) + (z \div 64)
       /\ Sextet(x, y, z, 3) = z % 64
  BY ONLY SextetCases
<1>15. CASE j = 4 * m
  <2>1. /\ j % 4 = 0 /\ (j + 1) % 4 = 1 /\ (6 * j) \div 8 = 3 * m /\ (6 * (j + 1)) \div 8 = 3 * m
        /\ (j + 1) \div 4 = m
    BY <1>12, <1>15
  <2>2. a = x \div 4
    BY <1>5, <1>14, <2>1
  <2>3. w % 64 = x \div 4
    BY <1>11, <2>2 DEF Completes
  <2>4. acc.bits = 0
    BY <1>8, <2>1
  <2>5. r.bits = 6 /\ r.out = SubSeq(data, 1, 3 * m)
    BY <1>7, <1>9, <2>1, <2>4
  <2>6. Part(data, r, j + 1)
    <3>1. ~(1 = 0) /\ ~(1 = 2) /\ ~(1 = 3)
      BY SMT
    <3>2. r.v % 64 = Byte(data, 3 * m + 1) \div 4
      BY <1>9, <2>3 DEF x
    <3> QED
      BY <1>10, <2>1, <2>5, <3>1, <3>2 DEF Part
  <2> QED
    BY <2>6 DEF r, a
<1>16. CASE j = 4 * m + 1
  <2>1. /\ j % 4 = 1 /\ (j + 1) % 4 = 2 /\ (6 * j) \div 8 = 3 * m /\ (6 * (j + 1)) \div 8 = 3 * m + 1 /\ (j + 1) \div 4 = m
    BY <1>12, <1>16
  <2>2. acc.bits = 6
    BY <1>8, <2>1
  <2>3. a = 16 * (x % 4) + (y \div 16) /\ acc.v % 64 = x \div 4
    BY <1>5, <1>8, <1>14, <2>1
  <2>4. (w \div 16) % 256 = x /\ w % 16 = y \div 16
    BY <1>11, <2>3 DEF Completes
  <2>5. x = data[3 * m + 1]
    BY <1>13, <1>16 DEF x, n, Byte
  <2>6. Append(SubSeq(data, 1, 3 * m), data[3 * m + 1]) = SubSeq(data, 1, 3 * m + 1)
    BY <1>3, <1>13, <1>16, PrefixGrows DEF n
  <2>7. r.bits = 4 /\ r.out = SubSeq(data, 1, 3 * m + 1)
    <3>1. r.bits = 4 /\ r.out = Append(acc.out, (w \div 16) % 256)
      BY <1>9, <2>2
    <3>2. acc.out = SubSeq(data, 1, 3 * m)
      BY <1>7, <2>1
    <3> QED
      BY ONLY <2>4, <2>5, <2>6, <3>1, <3>2
  <2>8. Part(data, r, j + 1)
    <3>1. ~(2 = 0) /\ ~(2 = 1) /\ ~(2 = 3)
      BY SMT
    <3>2. r.v % 16 = Byte(data, 3 * m + 2) \div 16
      BY <1>9, <2>4 DEF y
    <3> QED
      BY <1>10, <2>1, <2>7, <3>1, <3>2 DEF Part
  <2> QED
    BY <2>8 DEF r, a
<1>17. CASE j = 4 * m + 2
  <2>1. /\ j % 4 = 2 /\ (j + 1) % 4 = 3 /\ (6 * j) \div 8 = 3 * m + 1 /\ (6 * (j + 1)) \div 8 = 3 * m + 2 /\ (j + 1) \div 4 = m
    BY <1>12, <1>17
  <2>2. acc.bits = 4
    BY <1>8, <2>1
  <2>3. a = 4 * (y % 16) + (z \div 64) /\ acc.v % 16 = y \div 16
    BY <1>5, <1>8, <1>14, <2>1
  <2>4. (w \div 4) % 256 = y /\ w % 4 = z \div 64
    BY <1>11, <2>3 DEF Completes
  <2>5. y = data[3 * m + 2]
    BY <1>13, <1>17 DEF y, n, Byte
  <2>6. Append(SubSeq(data, 1, 3 * m + 1), data[3 * m + 2]) = SubSeq(data, 1, 3 * m + 2)
    BY <1>3, <1>13, <1>17, PrefixGrows DEF n
  <2>7. r.bits = 2 /\ r.out = SubSeq(data, 1, 3 * m + 2)
    <3>1. r.bits = 2 /\ r.out = Append(acc.out, (w \div 4) % 256)
      BY <1>9, <2>2
    <3>2. acc.out = SubSeq(data, 1, 3 * m + 1)
      BY <1>7, <2>1
    <3> QED
      BY ONLY <2>4, <2>5, <2>6, <3>1, <3>2
  <2>8. Part(data, r, j + 1)
    <3>1. ~(3 = 0) /\ ~(3 = 1) /\ ~(3 = 2)
      BY SMT
    <3>2. r.v % 4 = Byte(data, 3 * m + 3) \div 64
      BY <1>9, <2>4 DEF z
    <3> QED
      BY <1>10, <2>1, <2>7, <3>1, <3>2 DEF Part
  <2> QED
    BY <2>8 DEF r, a
<1>18. CASE j = 4 * m + 3
  <2>1. /\ j % 4 = 3 /\ (j + 1) % 4 = 0 /\ (6 * j) \div 8 = 3 * m + 2 /\ (6 * (j + 1)) \div 8 = 3 * m + 3
    BY <1>12, <1>18
  <2>2. acc.bits = 2
    BY <1>8, <2>1
  <2>3. a = z % 64 /\ acc.v % 4 = z \div 64
    BY <1>5, <1>8, <1>14, <2>1
  <2>4. w % 256 = z
    BY <1>11, <2>3 DEF Completes
  <2>5. z = data[3 * m + 3]
    BY <1>13, <1>18 DEF z, n, Byte
  <2>6. Append(SubSeq(data, 1, 3 * m + 2), data[3 * m + 3]) = SubSeq(data, 1, 3 * m + 3)
    BY <1>3, <1>13, <1>18, PrefixGrows DEF n
  <2>7. r.bits = 0 /\ r.out = SubSeq(data, 1, 3 * m + 3)
    <3>1. r.bits = 0 /\ r.out = Append(acc.out, w % 256)
      BY <1>9, <2>2
    <3>2. acc.out = SubSeq(data, 1, 3 * m + 2)
      BY <1>7, <2>1
    <3> QED
      BY ONLY <2>4, <2>5, <2>6, <3>1, <3>2
  <2>8. Part(data, r, j + 1)
    <3>1. ~(0 = 1) /\ ~(0 = 2) /\ ~(0 = 3)
      BY SMT
    <3> QED
      BY <1>10, <2>1, <2>7, <3>1 DEF Part
  <2> QED
    BY <2>8 DEF r, a
<1> QED
  BY <1>2, <1>15, <1>16, <1>17, <1>18

\* The loop of base64_decode.
Blank == [v |-> 0, bits |-> 0, out |-> <<>>, bad |-> FALSE]
Decodes(h, s) == h = [i \in 0..Len(s) |-> IF i = 0 THEN Blank ELSE Decode(h[i - 1], s[i])]

LEMMA DecodeRuns ==
  ASSUME NEW s
  PROVE  Base64Decode(s) = LET h == CHOOSE h : Decodes(h, s)
                           IN IF h[Len(s)].bad THEN <<>> ELSE h[Len(s)].out
BY SMT DEF Base64Decode, Decodes, Blank

LEMMA BlankType == Blank \in Acc
<1>1. 0 \in Nat /\ <<>> \in Seq(Octet)
  BY EmptySeq, SMT
<1> QED
  BY <1>1 DEF Blank, Acc

LEMMA DecodeExists ==
  ASSUME NEW s \in Seq(Nat)
  PROVE  \E h : Decodes(h, s)
<1> DEFINE n == Len(s)
           g == [a \in Acc \X (1..n) |-> Decode(a[1], s[a[2]])]
<1>1. n \in Nat
  BY LenProperties
<1>2. g \in [Acc \X (1..n) -> Acc]
  <2>1. \A a \in Acc \X (1..n) : a[1] \in Acc
    BY SMT
  <2> QED
    BY <2>1, DecodeType
<1>3. \A a \in Acc, i \in 1..n : g[<<a, i>>] = Decode(a, s[i])
  OBVIOUS
<1>4. PICK h \in [0..n -> Acc] : h[0] = Blank /\ \A i \in 1..n : h[i] = g[<<h[i - 1], i>>]
  <2> HIDE DEF g, n
  <2>1. \E h : Loop(h, Acc, Blank, n, g)
    BY <1>1, <1>2, BlankType, LoopExists
  <2> QED
    BY <2>1 DEF Loop
<1>5. ASSUME NEW i \in 0..n PROVE h[i] = IF i = 0 THEN Blank ELSE Decode(h[i - 1], s[i])
  <2>1. i # 0 => i \in 1..n /\ i - 1 \in 0..n
    BY <1>1, SMT
  <2> HIDE DEF g
  <2> QED
    BY <1>3, <1>4, <2>1
<1>6. h = [i \in 0..n |-> h[i]]
  OBVIOUS
<1>7. Decodes(h, s)
  <2> HIDE DEF g
  <2> QED
    BY <1>5, <1>6 DEF Decodes
<1> QED
  BY <1>7

\* base64_decode undoes this encoding.
LEMMA DecodeInverts ==
  ASSUME NEW data \in Seq(Octet)
  PROVE  Base64Decode(Encoding(data)) = data
<1> DEFINE n == Len(data)
           W == Written(n)
           e == Encoding(data)
           N == 4 * ((n + 2) \div 3)
<1>1. n \in Nat
  BY LenProperties
<1>2. W \in Nat /\ N \in Nat /\ W <= N /\ (6 * W) \div 8 = n /\ (6 * 0) \div 8 = 0 /\ 0 <= W
  <2> HIDE DEF n
  <2> QED
    BY <1>1, SMT DEF Written
<1>3. /\ e = [j \in 1..N |-> IF j <= W THEN B64Digit(Six(data, j)) ELSE Filler]
      /\ e \in Seq(Nat) /\ Len(e) = N
  <2>1. e = [j \in 1..N |-> IF j <= W THEN B64Digit(Six(data, j)) ELSE Filler]
    BY DEF Encoding
  <2>2. Filler \in Nat /\ \A j \in 1..N : j \in Nat /\ j # 0
    BY <1>2, SMT DEF Filler
  <2>3. \A j \in 1..N : B64Digit(Six(data, j)) \in Nat
    BY <2>2, SixType, ValueOfDigit
  <2> HIDE DEF e, N, W
  <2>4. e \in [1..N -> Nat]
    BY <2>1, <2>2, <2>3
  <2> QED
    BY <1>2, <2>1, <2>4, Listed
<1> HIDE DEF e, N, W, n
<1> DEFINE h == CHOOSE h : Decodes(h, e)
<1>4. Decodes(h, e)
  BY <1>3, DecodeExists
<1>5. Base64Decode(e) = IF h[N].bad THEN <<>> ELSE h[N].out
  <2>1. Base64Decode(e) = IF h[Len(e)].bad THEN <<>> ELSE h[Len(e)].out
    BY ONLY DecodeRuns
  <2> HIDE DEF h
  <2> QED
    BY <1>3, <2>1
<1> HIDE DEF h
<1>6. \A i \in 0..N : h[i] = IF i = 0 THEN Blank ELSE Decode(h[i - 1], e[i])
  BY <1>3, <1>4 DEF Decodes
<1> DEFINE Good(i) == IF i <= W THEN Part(data, h[i], i) ELSE h[i].bad = FALSE /\ h[i].out = data
           H == {i \in Nat : Good(i)}
<1>7. SubSeq(data, 1, 0) = <<>> /\ SubSeq(data, 1, n) = data
  <2>1. 0 \in Nat /\ 0 <= Len(data) /\ n <= Len(data)
    BY <1>1, SMT DEF n
  <2>2. SubSeq(data, 1, 0) \in Seq(Octet) /\ Len(SubSeq(data, 1, 0)) = 0
    BY <2>1, Prefix
  <2>3. /\ SubSeq(data, 1, n) \in Seq(Octet) /\ Len(SubSeq(data, 1, n)) = n
        /\ \A i \in 1..n : SubSeq(data, 1, n)[i] = data[i]
    BY <1>1, <2>1, Prefix
  <2> QED
    BY <2>2, <2>3, EmptySeq, SameElements DEF n
<1>8. 0 \in H
  <2>1. 0 \in 0..N /\ 0 \in Nat /\ 0 % 4 = 0 /\ ~(0 = 1) /\ ~(0 = 2) /\ ~(0 = 3)
    BY <1>2, SMT
  <2>2. h[0] = Blank
    BY <1>6, <2>1
  <2>3. Blank.bad = FALSE /\ Blank.out = <<>> /\ Blank.bits = 0
    BY DEF Blank
  <2>4. Part(data, h[0], 0)
    BY <1>2, <1>7, <2>1, <2>2, <2>3, BlankType DEF Part
  <2> QED
    BY <1>2, <2>1, <2>4
<1>9. ASSUME NEW i \in 1..N, i - 1 \in H PROVE i \in H
  <2>1. i \in Nat /\ i - 1 \in Nat /\ i # 0 /\ i \in 0..N /\ (i - 1) + 1 = i
    BY <1>2, SMT
  <2>2. h[i] = Decode(h[i - 1], e[i]) /\ e[i] = IF i <= W THEN B64Digit(Six(data, i)) ELSE Filler
    BY <1>3, <1>6, <2>1
  <2>3. CASE i <= W
    <3>1. i - 1 <= W
      BY <1>2, <2>1, <2>3, SMT
    <3>2. Part(data, h[i - 1], i - 1)
      BY <1>9, <3>1
    <3>3. Part(data, Decode(h[i - 1], B64Digit(Six(data, (i - 1) + 1))), (i - 1) + 1)
      BY <2>1, <2>3, <3>2, PartStep DEF W, n
    <3> QED
      BY <2>1, <2>2, <2>3, <3>3
  <2>4. CASE ~(i <= W)
    <3>1. h[i] = h[i - 1]
      BY <2>2, <2>4, FillerPasses
    <3>2. ASSUME i - 1 <= W PROVE h[i - 1].bad = FALSE /\ h[i - 1].out = data
      <4>1. i - 1 = W
        BY <1>2, <2>1, <2>4, <3>2, SMT
      <4>2. Part(data, h[W], W)
        <5>1. Part(data, h[i - 1], i - 1)
          BY <1>9, <3>2
        <5> QED
          BY ONLY <4>1, <5>1
      <4> QED
        BY <1>2, <1>7, <4>1, <4>2 DEF Part
    <3> QED
      BY <1>9, <2>1, <2>4, <3>1, <3>2
  <2> QED
    BY <2>3, <2>4
<1>10. \A i \in 0..N : i \in H
  <2> HIDE DEF H
  <2> QED
    BY <1>2, <1>8, <1>9, Climb
<1>11. N \in 0..N
  BY <1>2, SMT
<1>12. Good(N)
  BY <1>10, <1>11
<1>13. h[N].bad = FALSE /\ h[N].out = data
  <2>1. N <= W => N = W
    BY <1>2, SMT
  <2> QED
    BY <1>2, <1>7, <1>12, <2>1 DEF Part
<1> QED
  BY <1>5, <1>13 DEF e

\* Whatever the bytes and however many: base64_encode writes what RFC 4648 says,
\* and hex_decode and base64_decode read back what was written.
THEOREM EncodingsAreUndone == \A data \in Seq(Octet) : Inverts(data)
<1> SUFFICES ASSUME NEW data \in Seq(Octet) PROVE Inverts(data)
  OBVIOUS
<1> QED
  BY HexInverts, ReferenceEncodes, EncodeEncodes, DecodeInverts DEF Inverts

\* So they do for every stream that the parsers are fed.
THEOREM EncodingsInvertAlways == StreamSpec => []EncodingsInvert
<1>1. HashInv => EncodingsInvert
  <2> SUFFICES ASSUME HashInv PROVE Inverts(Widened)
    BY DEF EncodingsInvert
  <2>1. fed \in Seq(Bytes)
    BY DEF HashInv
  <2>2. DOMAIN fed = 1..Len(fed) /\ Len(fed) \in Nat
    BY <2>1, LenProperties
  <2>3. Widened \in [1..Len(fed) -> Octet]
    <3> DEFINE W(x) == CASE x = 0 -> 0 [] x = 1 -> 97 [] OTHER -> 255
    <3>1. \A x : W(x) \in Octet
      BY SMT DEF Octet
    <3>2. Widened = [i \in 1..Len(fed) |-> W(fed[i])]
      BY <2>2 DEF Widened
    <3> HIDE DEF W
    <3> QED
      BY <3>1, <3>2
  <2>4. Widened \in Seq(Octet)
    BY <2>2, <2>3, Listed
  <2> QED
    BY <2>4, EncodingsAreUndone
<1> QED
  BY <1>1, DigestInvariant, PTL

=============================================================================
