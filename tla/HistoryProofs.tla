--------------------------- MODULE HistoryProofs ---------------------------
(***************************************************************************)
(* Proofs about History.  A page is described without the loop and without *)
(* the query (Newest); both stores' pages are shown to meet the            *)
(* description, which no two sequences do; and the client's walk keeps an  *)
(* invariant that speaks of the description only.                          *)
(*                                                                         *)
(* The in-memory store's loop is a recursive function and the order of     *)
(* MySQL's rows a CHOOSE.  That they are what they should be for every     *)
(* length is shown by contradiction from a least counterexample (Least).   *)
(***************************************************************************)
EXTENDS History, SequenceTheorems, FiniteSetTheorems, TLAPS

\* Most leaves are first-order: Zenon is the default, SMT is cited by name.
USE Zenon

-----------------------------------------------------------------------------
(* Naturals and sequences.                                                   *)

\* A set of naturals that is not empty has a least element.
LEMMA Least ==
  ASSUME NEW T, T \subseteq Nat, T # {}
  PROVE  \E x \in T : \A y \in T : x <= y
<1>1. \E x \in T : \A y \in T : <<y, x>> \notin OpToRel(<, Nat)
  BY WFMin, NatLessThanWellFounded
<1>2. ASSUME NEW x \in T, NEW y \in T, <<y, x>> \notin OpToRel(<, Nat)
      PROVE  x <= y
  BY <1>2, SMT DEF OpToRel
<1> QED
  BY <1>1, <1>2

\* The values of a sequence: the loops of this module speak of them as a set.
Values(s) == {s[i] : i \in DOMAIN s}

Decreasing(s) == \A i, j \in DOMAIN s : i < j => s[i] > s[j]
Increasing(s) == \A i, j \in DOMAIN s : i < j => s[i] < s[j]

LEMMA SeqValues ==
  ASSUME NEW S, NEW s \in Seq(S)
  PROVE  Values(s) \subseteq S
<1>1. DOMAIN s = 1..Len(s)
  BY LenProperties
<1>2. \A i \in 1..Len(s) : s[i] \in S
  BY ElementOfSeq
<1> QED
  BY <1>1, <1>2 DEF Values

(* s holds the n greatest elements of S, or all of S, the greatest first:    *)
(* what ORDER BY id DESC LIMIT n returns.                                    *)
Newest(s, S, n) ==
  /\ s \in Seq(S)
  /\ Decreasing(s)
  /\ Len(s) <= n
  /\ \A x \in S : x \in Values(s) \/ (Len(s) = n /\ \A i \in DOMAIN s : x < s[i])

\* std::reverse turns the order round and keeps the values.
LEMMA Reversed ==
  ASSUME NEW S \in SUBSET Nat, NEW s \in Seq(S), Decreasing(s)
  PROVE  /\ Reverse(s) \in Seq(S)
         /\ Len(Reverse(s)) = Len(s)
         /\ Increasing(Reverse(s))
         /\ Values(Reverse(s)) = Values(s)
<1> DEFINE r == Reverse(s)
<1>1. Len(s) \in Nat /\ DOMAIN s = 1..Len(s)
  BY LenProperties
<1>2. r = [i \in 1..Len(s) |-> s[Len(s) + 1 - i]]
  BY DEF Reverse
<1>3. \A i \in 1..Len(s) : Len(s) + 1 - i \in 1..Len(s)
  BY <1>1, SMT
<1>4. \A i \in 1..Len(s) : s[i] \in S
  BY <1>1, ElementOfSeq
<1>5. r \in Seq(S) /\ Len(r) = Len(s) /\ DOMAIN r = 1..Len(s)
  BY <1>1, <1>2, <1>3, <1>4, SMT
<1>6. ASSUME NEW i \in DOMAIN r, NEW j \in DOMAIN r, i < j
      PROVE  r[i] < r[j]
  <2>1. /\ Len(s) + 1 - i \in DOMAIN s /\ Len(s) + 1 - j \in DOMAIN s
        /\ Len(s) + 1 - j < Len(s) + 1 - i
    BY <1>1, <1>5, <1>6, SMT
  <2>2. s[Len(s) + 1 - j] > s[Len(s) + 1 - i]
    BY <2>1 DEF Decreasing
  <2>3. r[i] = s[Len(s) + 1 - i] /\ r[j] = s[Len(s) + 1 - j]
    BY <1>2, <1>5
  <2>4. s[Len(s) + 1 - i] \in Nat /\ s[Len(s) + 1 - j] \in Nat
    BY <2>1, <1>1, <1>4
  <2> QED
    BY <2>2, <2>3, <2>4, SMT
<1>7. Increasing(r)
  BY <1>6 DEF Increasing
<1>8. ASSUME NEW i \in DOMAIN s PROVE s[i] \in Values(r)
  <2>1. Len(s) + 1 - i \in 1..Len(s) /\ Len(s) + 1 - (Len(s) + 1 - i) = i
    BY <1>1, SMT
  <2>2. r[Len(s) + 1 - i] = s[i]
    BY <2>1, <1>2, SMT
  <2> QED
    BY <2>1, <2>2, <1>5 DEF Values
<1>9. ASSUME NEW i \in DOMAIN r PROVE r[i] \in Values(s)
  BY <1>2, <1>3, <1>5, <1>1 DEF Values
<1>10. Values(r) = Values(s)
  BY <1>8, <1>9 DEF Values
<1> QED
  BY <1>5, <1>7, <1>10

\* Where two descriptions of the same newest agree up to k, the one has no more at k.
LEMMA NewestNotAbove ==
  ASSUME NEW S \in SUBSET Nat, NEW n \in Nat, NEW s, NEW t, Newest(s, S, n), Newest(t, S, n),
         NEW k \in Nat, k \in DOMAIN s, k \in DOMAIN t, \A j \in Nat : 0 < j /\ j < k => s[j] = t[j]
  PROVE  ~(s[k] > t[k])
<1> SUFFICES ASSUME s[k] > t[k] PROVE FALSE
  OBVIOUS
<1>1. s \in Seq(S) /\ t \in Seq(S) /\ Decreasing(s) /\ Decreasing(t)
  BY DEF Newest
<1>2. /\ Len(s) \in Nat /\ DOMAIN s = 1..Len(s) /\ Len(t) \in Nat /\ DOMAIN t = 1..Len(t)
  BY <1>1, LenProperties
<1>3. s[k] \in S /\ s[k] \in Nat /\ t[k] \in Nat
  BY <1>1, <1>2, ElementOfSeq
<1>4. CASE \A i \in DOMAIN t : s[k] < t[i]
  <2>1. s[k] < t[k]
    BY <1>4
  <2> QED
    BY <2>1, <1>3, SMT
<1>5. CASE s[k] \in Values(t)
  <2>1. PICK j \in DOMAIN t : t[j] = s[k]
    BY <1>5 DEF Values
  <2>2. j \in Nat /\ 0 < j /\ (j < k => j \in DOMAIN s)
    BY <1>2, SMT
  <2>3. CASE j < k
    <3>1. s[j] > s[k] /\ s[j] = s[k]
      BY <2>1, <2>2, <2>3, <1>1 DEF Decreasing
    <3> QED
      BY <3>1, <1>3, SMT
  <2>4. CASE k < j
    <3>1. t[k] > s[k]
      BY <2>1, <2>4, <1>1 DEF Decreasing
    <3> QED
      BY <3>1, <1>3, SMT
  <2>5. j < k \/ k < j \/ j = k
    BY <2>2, SMT
  <2>6. CASE j = k
    BY <2>1, <2>6, <1>3, SMT
  <2> QED
    BY <2>3, <2>4, <2>5, <2>6
<1> QED
  BY <1>3, <1>4, <1>5 DEF Newest

\* ... and so they agree wherever both are defined,
LEMMA NewestAgree ==
  ASSUME NEW S \in SUBSET Nat, NEW n \in Nat, NEW s, NEW t, Newest(s, S, n), Newest(t, S, n)
  PROVE  \A k \in Nat : k \in DOMAIN s /\ k \in DOMAIN t => s[k] = t[k]
<1> DEFINE Bad == {k \in Nat : k \in DOMAIN s /\ k \in DOMAIN t /\ s[k] # t[k]}
<1> SUFFICES ASSUME Bad # {} PROVE FALSE
  OBVIOUS
<1>1. PICK k \in Bad : \A y \in Bad : k <= y
  BY Least
<1>2. s \in Seq(S) /\ t \in Seq(S)
  BY DEF Newest
<1>3. Len(s) \in Nat /\ DOMAIN s = 1..Len(s) /\ Len(t) \in Nat /\ DOMAIN t = 1..Len(t)
  BY <1>2, LenProperties
<1>4. ASSUME NEW j \in Nat, 0 < j, j < k PROVE s[j] = t[j]
  <2>1. j \in DOMAIN s /\ j \in DOMAIN t /\ ~(k <= j)
    BY <1>3, <1>4, SMT
  <2> QED
    BY <2>1, <1>1
<1>5. ~(s[k] > t[k])
  BY <1>4, NewestNotAbove
<1>6. ~(t[k] > s[k])
  BY <1>4, NewestNotAbove
<1>7. s[k] \in Nat /\ t[k] \in Nat
  BY <1>2, <1>3, ElementOfSeq
<1> QED
  BY <1>5, <1>6, <1>7, SMT

\* ... and none goes on where the other ends:
LEMMA NewestNotLonger ==
  ASSUME NEW S \in SUBSET Nat, NEW n \in Nat, NEW s, NEW t, Newest(s, S, n), Newest(t, S, n)
  PROVE  ~(Len(s) < Len(t))
<1> SUFFICES ASSUME Len(s) < Len(t) PROVE FALSE
  OBVIOUS
<1> DEFINE m == Len(s) + 1
<1>1. s \in Seq(S) /\ t \in Seq(S) /\ Decreasing(t) /\ Len(t) <= n
  BY DEF Newest
<1>2. Len(s) \in Nat /\ Len(t) \in Nat
  BY <1>1, LenProperties
<1>3. DOMAIN s = 1..Len(s) /\ DOMAIN t = 1..Len(t)
  BY <1>1, LenProperties
<1>4. m \in 1..Len(t) /\ Len(s) # n
  BY <1>1, <1>2, SMT
<1>5. t[m] \in S /\ m \in DOMAIN t
  BY <1>1, <1>3, <1>4, ElementOfSeq
<1>6. t[m] \in Values(s)
  BY <1>4, <1>5 DEF Newest
<1>7. PICK j \in DOMAIN s : s[j] = t[m]
  BY <1>6 DEF Values
<1>8. j \in Nat /\ j \in 1..Len(t) /\ j < m
  <2>1. j \in 1..Len(s)
    BY <1>3
  <2> QED
    BY <2>1, <1>2, SMT
<1>9. s[j] = t[j]
  <2>1. \A k \in Nat : k \in DOMAIN s /\ k \in DOMAIN t => s[k] = t[k]
    BY NewestAgree, SMT
  <2> QED
    BY <2>1, <1>3, <1>8
<1>10. t[j] > t[m]
  BY <1>1, <1>3, <1>5, <1>8 DEF Decreasing
<1>11. t[m] > t[m] /\ t[m] \in Nat
  BY <1>5, <1>7, <1>9, <1>10
<1> QED
  BY <1>11, SMT

\* ... the description is met by one sequence at most.
LEMMA NewestUnique ==
  ASSUME NEW S \in SUBSET Nat, NEW n \in Nat, NEW s, NEW t, Newest(s, S, n), Newest(t, S, n)
  PROVE  s = t
<1>1. s \in Seq(S) /\ t \in Seq(S)
  BY DEF Newest
<1>2. Len(s) \in Nat /\ Len(t) \in Nat
  BY <1>1, LenProperties
<1>3. ~(Len(s) < Len(t)) /\ ~(Len(t) < Len(s))
  BY NewestNotLonger
<1>4. Len(s) = Len(t)
  BY <1>2, <1>3, SMT
<1>5. \A i \in 1..Len(s) : i \in Nat
  BY <1>2, SMT
<1>6. \A i \in 1..Len(s) : s[i] = t[i]
  <2>1. DOMAIN s = 1..Len(s) /\ DOMAIN t = 1..Len(s)
    BY <1>1, <1>4, LenProperties
  <2>2. \A k \in Nat : k \in DOMAIN s /\ k \in DOMAIN t => s[k] = t[k]
    BY NewestAgree, SMT
  <2> QED
    BY <2>1, <2>2, <1>5
<1> QED
  BY <1>1, <1>4, <1>6, SeqEqual

-----------------------------------------------------------------------------
(* MySQL's page.                                                             *)

\* A finite set of ids can be put in descending order,
LEMMA DescendingExists ==
  ASSUME NEW U \in SUBSET Nat, IsFiniteSet(U)
  PROVE  \E s \in [1..Cardinality(U) -> U] : Decreasing(s)
<1> DEFINE Sorts(n, S) == \E s \in [1..n -> S] : Decreasing(s)
           Bad == {n \in Nat : \E S \in SUBSET Nat : IsFiniteSet(S) /\ Cardinality(S) = n /\ ~Sorts(n, S)}
<1>1. ASSUME Bad # {} PROVE FALSE
  <2>1. PICK n \in Bad : \A m \in Bad : n <= m
    BY <1>1, Least
  <2>2. PICK S \in SUBSET Nat : IsFiniteSet(S) /\ Cardinality(S) = n /\ ~Sorts(n, S)
    OBVIOUS
  <2>3. S # {}
    <3> SUFFICES ASSUME S = {} PROVE FALSE
      OBVIOUS
    <3>1. n = 0
      BY <2>2, FS_EmptySet
    <3>2. <<>> \in [1..n -> S] /\ Decreasing(<<>>)
      BY <3>1, SMT DEF Decreasing
    <3> QED
      BY <2>2, <3>2
  <2>4. PICK x \in S : \A y \in S : x <= y
    BY <2>3, Least
  <2> DEFINE R == S \ {x}
  <2>5. IsFiniteSet(R) /\ Cardinality(R) = n - 1
    BY <2>2, FS_RemoveElement
  <2>6. n \in Nat /\ n - 1 \in Nat /\ ~(n <= n - 1)
    BY <2>2, <2>3, FS_EmptySet, SMT
  <2>7. Sorts(n - 1, R)
    BY <2>1, <2>5, <2>6
  <2>8. PICK s \in [1..(n - 1) -> R] : Decreasing(s)
    BY <2>7
  <2> DEFINE t == [i \in 1..n |-> IF i = n THEN x ELSE s[i]]
  <2>9. \A i \in 1..n : i # n => i \in 1..(n - 1)
    BY <2>6, SMT
  <2>10. t \in [1..n -> S]
    BY <2>9
  <2>11. ASSUME NEW i \in 1..n, NEW j \in 1..n, i < j PROVE t[i] > t[j]
    <3>1. i # n /\ i \in 1..(n - 1) /\ t[i] = s[i] /\ s[i] \in R
      BY <2>6, <2>11, SMT
    <3>2. CASE j = n
      <4>1. s[i] # x /\ x <= s[i] /\ s[i] \in Nat /\ x \in Nat
        BY <3>1, <2>4
      <4>2. s[i] > x
        BY <4>1, SMT
      <4> QED
        BY <3>1, <3>2, <4>2
    <3>3. CASE j # n
      BY <2>8, <2>9, <2>11, <3>1, <3>3 DEF Decreasing
    <3> QED
      BY <3>2, <3>3
  <2>12. Decreasing(t)
    BY <2>11 DEF Decreasing
  <2> QED
    BY <2>2, <2>10, <2>12
<1>2. Cardinality(U) \in Nat
  BY FS_CardinalityType
<1> QED
  BY <1>1, <1>2

\* ... so that all of it is there, and a part from the front is the newest of it.
LEMMA FrontIsNewest ==
  ASSUME NEW S \in SUBSET Nat, IsFiniteSet(S), NEW n \in Nat,
         NEW s \in [1..Cardinality(S) -> S], Decreasing(s)
  PROVE  Newest(SubSeq(s, 1, Smaller(Len(s), n)), S, n)
<1> DEFINE c == Cardinality(S)
           m == Smaller(Len(s), n)
           t == SubSeq(s, 1, m)
<1>1. c \in Nat
  BY FS_CardinalityType
<1>2. s \in Seq(S) /\ Len(s) = c /\ DOMAIN s = 1..c
  BY <1>1, SMT
<1>3. m \in 0..c /\ m <= n /\ (m # c => m = n)
  BY <1>1, <1>2, SMT DEF Smaller
<1>4. \A i \in 1..m : i \in 1..c /\ s[i] \in S /\ s[i] \in Nat
  <2>1. \A i \in 1..m : i \in 1..c
    BY <1>1, <1>3, SMT
  <2> QED
    BY <2>1
<1>5. t \in Seq(S) /\ Len(t) = m /\ \A i \in 1..m : t[i] = s[i]
  BY <1>3, <1>4, SubSeqProperties, SMT
<1>6. DOMAIN t = 1..m
  BY <1>5, LenProperties
<1>7. Decreasing(t)
  <2>1. ASSUME NEW i \in 1..m, NEW j \in 1..m, i < j PROVE t[i] > t[j]
    <3>1. s[i] > s[j]
      BY <2>1, <1>2, <1>4 DEF Decreasing
    <3> QED
      BY <3>1, <1>5
  <2> QED
    BY <2>1, <1>6 DEF Decreasing
<1>8. ASSUME NEW i \in 1..c, NEW j \in 1..c, i # j PROVE s[i] # s[j]
  <2>1. i < j \/ j < i
    BY <1>8, <1>1, SMT
  <2>2. s[i] > s[j] \/ s[j] > s[i]
    BY <2>1, <1>2 DEF Decreasing
  <2>3. s[i] \in Nat /\ s[j] \in Nat
    OBVIOUS
  <2> QED
    BY <2>2, <2>3, SMT
<1>9. s \in Injection(1..c, S)
  BY <1>8 DEF Injection, IsInjective
<1>10. Cardinality(1..c) = c
  BY <1>1, FS_Interval, SMT
<1>11. s \in Surjection(1..c, S)
  BY <1>9, <1>10, FS_Injection
<1>12. ASSUME NEW x \in S
       PROVE  x \in Values(t) \/ (Len(t) = n /\ \A i \in DOMAIN t : x < t[i])
  <2>1. PICK k \in 1..c : s[k] = x
    BY <1>11 DEF Surjection
  <2>2. CASE k \in 1..m
    BY <2>1, <2>2, <1>5, <1>6 DEF Values
  <2>3. CASE k \notin 1..m
    <3>1. m = n /\ \A i \in 1..m : i < k
      BY <2>3, <1>1, <1>3, SMT
    <3>2. \A i \in 1..m : s[i] > x
      BY <3>1, <2>1, <1>2, <1>4 DEF Decreasing
    <3>3. \A i \in 1..m : x < s[i]
      BY <3>2, <1>4, SMT
    <3> QED
      BY <3>1, <3>3, <1>5, <1>6
  <2> QED
    BY <2>2, <2>3
<1> QED
  BY <1>3, <1>5, <1>7, <1>12 DEF Newest

\* What the stores search: the messages of q that are older than b.
Hits(q, b) == {id \in Visible : Match(q, id) /\ (b # 0 => id < b)}

\* The rows hold ids; in memory they are all the ids, in order.
RowsOK ==
  /\ posted \in Seq(Posts) /\ Len(posted) <= Len(Clock)
  /\ rows \in Seq(1..Len(posted))
  /\ mysql \in BOOLEAN
  /\ ~mysql => Len(rows) = Len(posted) /\ \A i \in 1..Len(rows) : rows[i] = i

LEMMA IdsAreFinite ==
  ASSUME RowsOK, NEW q, NEW b
  PROVE  /\ Visible \in SUBSET (1..Len(posted)) /\ Visible \in SUBSET Nat
         /\ Hits(q, b) \in SUBSET Visible /\ Hits(q, b) \in SUBSET Nat /\ IsFiniteSet(Hits(q, b))
<1>1. Len(posted) \in Nat
  BY LenProperties DEF RowsOK
<1>2. Visible \in SUBSET (1..Len(posted))
  <2>1. \A i \in DOMAIN rows : rows[i] \in 1..Len(posted)
    BY LenProperties, ElementOfSeq DEF RowsOK
  <2> QED
    BY <2>1 DEF Visible
<1>3. 1..Len(posted) \in SUBSET Nat /\ IsFiniteSet(1..Len(posted))
  BY <1>1, FS_Interval, SMT
<1>4. Hits(q, b) \in SUBSET Visible
  BY DEF Hits
<1> QED
  BY <1>2, <1>3, <1>4, FS_Subset

\* MySQL's page is, read backwards, the newest of the hits: as many as the limit or the cap.
LEMMA MysqlPageIsNewest ==
  ASSUME RowsOK, NEW q, NEW b, NEW lim \in Nat
  PROVE  \E s : Newest(s, Hits(q, b), Smaller(lim, Cap)) /\ MysqlPage(q, b, lim) = Reverse(s)
<1> DEFINE hits == Hits(q, b)
           newest == CHOOSE s \in [1..Cardinality(hits) -> hits] : \A i, j \in DOMAIN s : i < j => s[i] > s[j]
<1>1. hits \in SUBSET Nat /\ IsFiniteSet(hits)
  BY IdsAreFinite
<1>2. \E s \in [1..Cardinality(hits) -> hits] : \A i, j \in DOMAIN s : i < j => s[i] > s[j]
  BY <1>1, DescendingExists DEF Decreasing
<1>3. newest \in [1..Cardinality(hits) -> hits] /\ Decreasing(newest)
  BY <1>2 DEF Decreasing
<1>4. Smaller(lim, Cap) \in Nat
  BY HistoryAssumption, SMT DEF Smaller
<1>5. Newest(SubSeq(newest, 1, Smaller(Len(newest), Smaller(lim, Cap))), hits, Smaller(lim, Cap))
  <2> HIDE DEF newest, hits
  <2> QED
    BY <1>1, <1>3, <1>4, FrontIsNewest
<1>6. MysqlPage(q, b, lim) = Reverse(SubSeq(newest, 1, Smaller(Len(newest), Smaller(lim, Cap))))
  BY DEF MysqlPage, Hits
<1> QED
  BY <1>5, <1>6

-----------------------------------------------------------------------------
(* The in-memory store's page.                                               *)

\* f holds what a loop of n rounds has after each, g being what a round makes of the last.
Loop(f, T, base, n, g) == f \in [0..n -> T] /\ f[0] = base /\ \A i \in 1..n : f[i] = g[<<f[i - 1], i>>]

\* A loop has such values.
LEMMA LoopExists ==
  ASSUME NEW T, NEW base \in T, NEW n \in Nat, NEW g \in [T \X (1..n) -> T]
  PROVE  \E f : Loop(f, T, base, n, g)
<1> DEFINE Runs(m) == \E f : Loop(f, T, base, m, g)
           Bad == {m \in Nat : m <= n /\ ~Runs(m)}
<1>1. ASSUME Bad # {} PROVE FALSE
  <2>1. PICK m \in Bad : \A k \in Bad : m <= k
    BY <1>1, Least
  <2>2. m \in Nat /\ m <= n /\ ~Runs(m)
    OBVIOUS
  <2>3. m # 0
    <3> SUFFICES ASSUME m = 0 PROVE FALSE
      OBVIOUS
    <3> DEFINE f == [i \in 0..0 |-> base]
    <3>1. Loop(f, T, base, m, g)
      BY SMT DEF Loop
    <3> HIDE DEF f
    <3> QED
      BY <2>2, <3>1
  <2>4. m - 1 \in Nat /\ m - 1 <= n /\ ~(m <= m - 1)
    BY <2>2, <2>3, SMT
  <2>5. Runs(m - 1)
    BY <2>1, <2>4
  <2>6. PICK f \in [0..(m - 1) -> T] : f[0] = base /\ \A i \in 1..(m - 1) : f[i] = g[<<f[i - 1], i>>]
    BY <2>5 DEF Loop
  <2> DEFINE h == [i \in 0..m |-> IF i = m THEN g[<<f[m - 1], m>>] ELSE f[i]]
  <2>7. m \in 1..n /\ m - 1 \in 0..(m - 1) /\ \A i \in 0..m : i # m => i \in 0..(m - 1)
    BY <2>2, <2>3, SMT
  <2>8. g[<<f[m - 1], m>>] \in T
    BY <2>7
  <2>9. h \in [0..m -> T]
    BY <2>7, <2>8
  <2>10. h[0] = base
    BY <2>2, <2>3, <2>6, SMT
  <2>11. ASSUME NEW i \in 1..m PROVE h[i] = g[<<h[i - 1], i>>]
    <3>1. i \in 0..m /\ i - 1 \in 0..m /\ i - 1 # m /\ (i # m => i \in 1..(m - 1))
      BY <2>2, SMT
    <3>2. h[i - 1] = f[i - 1] /\ h[i] = IF i = m THEN g[<<f[m - 1], m>>] ELSE f[i]
      BY <3>1
    <3> QED
      BY <3>1, <3>2, <2>6
  <2> HIDE DEF h
  <2> QED
    BY <2>2, <2>9, <2>10, <2>11 DEF Loop
<1>2. n <= n
  BY SMT
<1> QED
  BY <1>1, <1>2

\* One round: the row with id i + 1 is looked at when out has been collected.
Round(q, b, lim, out, id) ==
  IF Len(out) >= lim \/ (b # 0 /\ id >= b) \/ ~Match(q, id) THEN out ELSE Append(out, id)

\* f is what the loop has collected at each index.
Scans(f, q, b, lim) ==
  f = [i \in 0..Len(rows) |-> IF i = Len(rows) THEN <<>> ELSE Round(q, b, lim, f[i + 1], rows[i + 1])]

LEMMA MemoryPageScans ==
  ASSUME NEW q, NEW b, NEW lim
  PROVE  MemoryPage(q, b, lim) = Reverse((CHOOSE f : Scans(f, q, b, lim))[0])
BY DEF MemoryPage, MemoryPageAs, Scans, Round

LEMMA RoundType ==
  ASSUME NEW q, NEW b, NEW lim, NEW out \in Seq(Nat), NEW id \in Nat
  PROVE  Round(q, b, lim, out, id) \in Seq(Nat)
BY AppendProperties DEF Round

\* The loop's values exist.
LEMMA ScanExists ==
  ASSUME RowsOK, NEW q, NEW b, NEW lim
  PROVE  \E f : Scans(f, q, b, lim)
<1> DEFINE n == Len(rows)
           g == [x \in Seq(Nat) \X (1..n) |-> Round(q, b, lim, x[1], rows[n + 1 - x[2]])]
<1>1. n \in Nat /\ Len(posted) \in Nat
  BY LenProperties DEF RowsOK
<1>2. \A k \in 1..n : n + 1 - k \in 1..n
  BY <1>1, SMT
<1>3. \A k \in 1..n : rows[k] \in Nat
  <2>1. \A k \in 1..n : rows[k] \in 1..Len(posted)
    BY ElementOfSeq DEF RowsOK
  <2>2. \A x \in 1..Len(posted) : x \in Nat
    BY <1>1, SMT
  <2> QED
    BY <2>1, <2>2
<1>4. g \in [Seq(Nat) \X (1..n) -> Seq(Nat)]
  <2>1. ASSUME NEW x \in Seq(Nat) \X (1..n)
        PROVE  Round(q, b, lim, x[1], rows[n + 1 - x[2]]) \in Seq(Nat)
    BY <1>2, <1>3, RoundType
  <2> QED
    BY <2>1
<1>5. <<>> \in Seq(Nat)
  BY EmptySeq
<1> HIDE DEF g
<1>6. PICK h \in [0..n -> Seq(Nat)] : h[0] = <<>> /\ \A i \in 1..n : h[i] = g[<<h[i - 1], i>>]
  <2>1. \E h : Loop(h, Seq(Nat), <<>>, n, g)
    BY <1>1, <1>4, <1>5, LoopExists
  <2> QED
    BY <2>1 DEF Loop
<1> DEFINE f == [i \in 0..n |-> h[n - i]]
<1>7. ASSUME NEW i \in 0..n
      PROVE  f[i] = IF i = n THEN <<>> ELSE Round(q, b, lim, f[i + 1], rows[i + 1])
  <2>1. CASE i = n
    BY <1>1, <1>6, <2>1, SMT
  <2>2. CASE i # n
    <3>1. /\ n - i \in 1..n /\ i + 1 \in 0..n /\ n - (i + 1) = (n - i) - 1 /\ n + 1 - (n - i) = i + 1
          /\ (n - i) - 1 \in 0..n
      BY <1>1, <2>2, SMT
    <3>2. f[i] = h[n - i] /\ f[i + 1] = h[(n - i) - 1]
      BY <3>1
    <3>3. h[n - i] = g[<<h[(n - i) - 1], n - i>>]
      BY <3>1, <1>6
    <3>4. <<h[(n - i) - 1], n - i>> \in Seq(Nat) \X (1..n)
      BY <3>1
    <3>5. g[<<h[(n - i) - 1], n - i>>] = Round(q, b, lim, h[(n - i) - 1], rows[i + 1])
      BY <3>1, <3>4 DEF g
    <3> QED
      BY <2>2, <3>2, <3>3, <3>5
  <2> QED
    BY <2>1, <2>2
<1>8. f = [i \in 0..n |-> IF i = n THEN <<>> ELSE Round(q, b, lim, f[i + 1], rows[i + 1])]
  <2>1. f = [i \in 0..n |-> f[i]]
    OBVIOUS
  <2> HIDE DEF f
  <2> QED
    BY <1>7, <2>1
<1> HIDE DEF f
<1>9. Scans(f, q, b, lim)
  BY <1>8 DEF Scans
<1> QED
  BY <1>9

\* The hits among the rows that the loop has passed when i rows are left.
HitsAbove(q, b, i) == {id \in Hits(q, b) : id > i}

\* A round keeps the newest of the hits that were passed.
LEMMA RoundKeepsNewest ==
  ASSUME RowsOK, NEW q, NEW b \in Nat, NEW lim \in Nat, NEW i \in Nat, i + 1 \in Visible,
         NEW out, Newest(out, HitsAbove(q, b, i + 1), lim)
  PROVE  Newest(Round(q, b, lim, out, i + 1), HitsAbove(q, b, i), lim)
<1> DEFINE id == i + 1
           old == HitsAbove(q, b, i + 1)
           new == HitsAbove(q, b, i)
<1>1. Hits(q, b) \in SUBSET Nat
  BY IdsAreFinite
<1>2. id \in Nat /\ i < id
  BY SMT
<1>3. ASSUME NEW x \in Nat PROVE x > i <=> (x > id \/ x = id)
  BY SMT
<1>4. new \in SUBSET Nat /\ old \in SUBSET new /\ \A x \in new : x \in old \/ x = id
  BY <1>1, <1>3 DEF HitsAbove
<1>5. id \in new <=> id \in Hits(q, b)
  BY <1>2, <1>3 DEF HitsAbove
<1>6. out \in Seq(old) /\ out \in Seq(new) /\ Decreasing(out)
  BY <1>4, SeqMonotonic DEF Newest
<1>7. Len(out) \in Nat /\ DOMAIN out = 1..Len(out)
  BY <1>6, LenProperties
<1>8. \A k \in DOMAIN out : out[k] \in old /\ out[k] > id
  <2>1. \A k \in DOMAIN out : out[k] \in old
    BY <1>6, <1>7, ElementOfSeq
  <2> QED
    BY <2>1 DEF HitsAbove
<1>9. \A k \in DOMAIN out : id < out[k]
  BY <1>2, <1>4, <1>8, SMT
<1>10. Len(out) <= lim
  BY DEF Newest
<1>11. CASE Len(out) >= lim
  <2>1. Round(q, b, lim, out, id) = out
    BY <1>11 DEF Round
  <2>2. Len(out) = lim
    <3>1. Len(out) \in Nat
      BY <1>7
    <3> QED
      BY <3>1, <1>10, <1>11, SMT
  <2>3. \A x \in new : x \in Values(out) \/ (Len(out) = lim /\ \A k \in DOMAIN out : x < out[k])
    BY <1>4, <1>9, <2>2 DEF Newest
  <2> QED
    BY <2>1, <2>3, <1>6, <1>10 DEF Newest
<1>12. CASE id \notin Hits(q, b)
  <2>1. old = new
    BY <1>4, <1>5, <1>12
  <2>2. ~Match(q, id) \/ (b # 0 /\ ~(id < b))
    BY <1>12 DEF Hits
  <2>3. ~(id < b) <=> id >= b
    BY SMT
  <2>4. Round(q, b, lim, out, id) = out
    BY <2>2, <2>3 DEF Round
  <2> QED
    BY <2>1, <2>4
<1>13. CASE ~(Len(out) >= lim) /\ id \in Hits(q, b)
  <2> DEFINE t == Append(out, id)
  <2>1. Match(q, id) /\ ~(b # 0 /\ id >= b)
    <3>1. Match(q, id) /\ (b # 0 => id < b)
      BY <1>13 DEF Hits
    <3> QED
      BY <3>1, <1>2, SMT
  <2>2. Round(q, b, lim, out, id) = t
    BY <1>13, <2>1 DEF Round
  <2>3. /\ t \in Seq(new) /\ Len(t) = Len(out) + 1 /\ t[Len(out) + 1] = id
        /\ \A k \in 1..Len(out) : t[k] = out[k]
    BY <1>5, <1>6, <1>13, AppendProperties, SMT
  <2>4. Len(t) \in Nat /\ DOMAIN t = 1..Len(t)
    BY <2>3, LenProperties
  <2>5. \A k \in DOMAIN t : k \in 1..Len(out) \/ k = Len(out) + 1
    BY <1>7, <2>3, <2>4, SMT
  <2>6. ASSUME NEW j \in DOMAIN t, NEW k \in DOMAIN t, j < k PROVE t[j] > t[k]
    <3>1. j \in 1..Len(out)
      BY <1>7, <2>3, <2>4, <2>6, SMT
    <3>2. CASE k \in 1..Len(out)
      BY <3>1, <3>2, <2>3, <2>6, <1>6, <1>7 DEF Decreasing
    <3>3. CASE k = Len(out) + 1
      BY <3>1, <3>3, <2>3, <1>7, <1>8
    <3> QED
      BY <2>5, <3>2, <3>3
  <2>7. Len(t) <= lim
    BY <1>7, <1>13, <2>3, SMT
  <2>8. ASSUME NEW x \in new PROVE x \in Values(t)
    <3>1. CASE x = id
      <4>1. Len(out) + 1 \in DOMAIN t
        BY <1>7, <2>3, <2>4, SMT
      <4> QED
        BY <3>1, <4>1, <2>3 DEF Values
    <3>2. CASE x \in old
      <4>1. Len(out) # lim
        BY <1>13, SMT
      <4>2. PICK k \in DOMAIN out : out[k] = x
        BY <3>2, <4>1 DEF Newest, Values
      <4>3. k \in DOMAIN t /\ t[k] = x
        BY <4>2, <1>7, <2>3, <2>4, SMT
      <4> QED
        BY <4>3 DEF Values
    <3> QED
      BY <1>4, <3>1, <3>2
  <2>9. Decreasing(t)
    BY <2>6 DEF Decreasing
  <2> QED
    BY <2>2, <2>3, <2>7, <2>8, <2>9 DEF Newest
<1> QED
  BY <1>11, <1>12, <1>13

\* At the end of the loop these are the newest of all hits.
LEMMA ScanIsNewest ==
  ASSUME RowsOK, ~mysql, NEW q, NEW b \in Nat, NEW lim \in Nat, NEW f, Scans(f, q, b, lim)
  PROVE  Newest(f[0], Hits(q, b), lim)
<1> DEFINE n == Len(rows)
           Bad == {k \in Nat : k <= n /\ ~Newest(f[n - k], HitsAbove(q, b, n - k), lim)}
<1>1. n \in Nat /\ n = Len(posted) /\ DOMAIN rows = 1..n /\ \A i \in 1..n : rows[i] = i
  BY LenProperties DEF RowsOK
<1>2. \A i \in 0..n : f[i] = IF i = n THEN <<>> ELSE Round(q, b, lim, f[i + 1], rows[i + 1])
  BY DEF Scans
<1>3. Hits(q, b) \in SUBSET (1..n) /\ Hits(q, b) \in SUBSET Nat
  BY <1>1, IdsAreFinite
<1>4. ASSUME Bad # {} PROVE FALSE
  <2>1. PICK k \in Bad : \A j \in Bad : k <= j
    BY <1>4, Least
  <2>2. k \in Nat /\ k <= n /\ ~Newest(f[n - k], HitsAbove(q, b, n - k), lim)
    OBVIOUS
  <2>3. CASE k = 0
    <3>1. n - k = n /\ n \in 0..n
      BY <1>1, <2>3, SMT
    <3>2. f[n] = <<>>
      BY <1>2, <3>1
    <3>3. \A x \in 1..n : ~(x > n)
      BY <1>1, SMT
    <3>4. HitsAbove(q, b, n) = {}
      BY <1>3, <3>3 DEF HitsAbove
    <3>5. Newest(<<>>, {}, lim)
      BY SMT DEF Newest, Decreasing
    <3> QED
      BY <2>2, <3>1, <3>2, <3>4, <3>5
  <2>4. CASE k # 0
    <3> DEFINE i == n - k
    <3>0. n \in Nat
      BY <1>1
    <3>1. /\ k - 1 \in Nat /\ k - 1 <= n /\ ~(k <= k - 1) /\ n - (k - 1) = i + 1
          /\ i \in Nat /\ i \in 0..n /\ i # n /\ i + 1 \in 1..n
      BY <3>0, <2>2, <2>4, SMT
    <3>2. Newest(f[i + 1], HitsAbove(q, b, i + 1), lim)
      BY <2>1, <3>1
    <3>3. rows[i + 1] = i + 1 /\ i + 1 \in Visible
      BY <1>1, <3>1 DEF Visible
    <3>4. f[i] = Round(q, b, lim, f[i + 1], i + 1)
      BY <1>2, <3>1, <3>3
    <3>5. Newest(f[i], HitsAbove(q, b, i), lim)
      BY <3>1, <3>2, <3>3, <3>4, RoundKeepsNewest
    <3> QED
      BY <2>2, <3>5
  <2> QED
    BY <2>3, <2>4
<1>5. n \in Nat /\ n <= n /\ n - n = 0
  BY <1>1, SMT
<1>6. Newest(f[0], HitsAbove(q, b, 0), lim)
  BY <1>4, <1>5
<1>7. \A x \in 1..n : x > 0
  BY <1>1, SMT
<1>8. HitsAbove(q, b, 0) = Hits(q, b)
  BY <1>3, <1>7 DEF HitsAbove
<1> QED
  BY <1>6, <1>8

\* The in-memory store's page is, read backwards, the newest of the hits: as many as the limit.
LEMMA MemoryPageIsNewest ==
  ASSUME RowsOK, ~mysql, NEW q, NEW b \in Nat, NEW lim \in Nat
  PROVE  \E s : Newest(s, Hits(q, b), lim) /\ MemoryPage(q, b, lim) = Reverse(s)
<1> DEFINE f == CHOOSE f : Scans(f, q, b, lim)
<1>1. Scans(f, q, b, lim)
  BY ScanExists
<1>2. MemoryPage(q, b, lim) = Reverse(f[0])
  BY MemoryPageScans
<1> HIDE DEF f
<1>3. Newest(f[0], Hits(q, b), lim)
  BY <1>1, ScanIsNewest
<1> QED
  BY <1>2, <1>3

\* Two such pages are the same.
LEMMA StoresAgreeOnRows ==
  ASSUME RowsOK
  PROVE  StoresAgree
<1> SUFFICES ASSUME ~mysql, NEW q \in Queries, NEW b \in {0} \cup Ids, NEW lim \in 0..Cap
             PROVE  MemoryPage(q, b, lim) = MysqlPage(q, b, lim)
  BY DEF StoresAgree
<1>1. Cap \in Nat /\ Len(Clock) \in Nat
  BY HistoryAssumption, LenProperties
<1>2. b \in Nat /\ lim \in Nat /\ Smaller(lim, Cap) = lim
  BY <1>1, SMT DEF Ids, MaxMessages, Smaller
<1>3. PICK s : Newest(s, Hits(q, b), lim) /\ MemoryPage(q, b, lim) = Reverse(s)
  BY <1>2, MemoryPageIsNewest
<1>4. PICK t : Newest(t, Hits(q, b), lim) /\ MysqlPage(q, b, lim) = Reverse(t)
  BY <1>2, MysqlPageIsNewest
<1>5. Hits(q, b) \in SUBSET Nat
  BY IdsAreFinite
<1>6. s = t
  BY <1>2, <1>3, <1>4, <1>5, NewestUnique
<1> QED
  BY <1>3, <1>4, <1>6

\* A page is ascending, made of hits, no longer than asked for, and either holds all
\* hits or has only older ones left out; it is empty only if there are none.
LEMMA PageIsExact ==
  ASSUME RowsOK, NEW q, NEW b \in Nat, NEW lim \in Int, NEW page, page = Page(q, b, lim)
  PROVE  /\ page \in Seq(Hits(q, b)) /\ Increasing(page) /\ Len(page) <= lim % Word
         /\ \A x \in Hits(q, b) : \/ x \in Values(page)
                                  \/ \A i \in DOMAIN page : x < page[i]
         /\ page = <<>> /\ lim % Word # 0 => Hits(q, b) = {}
<1> DEFINE n == lim % Word
           m == IF mysql THEN Smaller(n, Cap) ELSE n
<1>1. n \in Nat /\ m \in Nat /\ m <= n /\ (n # 0 => m # 0)
  BY HistoryAssumption, SMT DEF Smaller
<1>2. \E s : Newest(s, Hits(q, b), m) /\ page = Reverse(s)
  <2>1. CASE mysql
    BY <1>1, <2>1, MysqlPageIsNewest DEF Page
  <2>2. CASE ~mysql
    <3>1. m = n /\ page = MemoryPage(q, b, n)
      BY <2>2 DEF Page
    <3> HIDE DEF n, m
    <3>2. \E s : Newest(s, Hits(q, b), n) /\ MemoryPage(q, b, n) = Reverse(s)
      BY <1>1, <2>2, MemoryPageIsNewest
    <3> QED
      BY <3>1, <3>2
  <2> QED
    BY <2>1, <2>2
<1> HIDE DEF n, m
<1>3. PICK s : Newest(s, Hits(q, b), m) /\ page = Reverse(s)
  BY <1>2
<1>4. Hits(q, b) \in SUBSET Nat
  BY IdsAreFinite
<1>5. s \in Seq(Hits(q, b)) /\ Decreasing(s) /\ Len(s) <= m
  BY <1>3 DEF Newest
<1>6. /\ page \in Seq(Hits(q, b)) /\ Len(page) = Len(s)
      /\ Increasing(page) /\ Values(page) = Values(s)
  BY <1>3, <1>4, <1>5, Reversed
<1>7. Len(s) \in Nat
  BY <1>5, LenProperties
<1>8. Len(page) <= n
  BY <1>1, <1>5, <1>6, <1>7, SMT
<1>9. ASSUME NEW x \in Hits(q, b), x \notin Values(page), NEW i \in DOMAIN page PROVE x < page[i]
  <2>1. \A k \in DOMAIN s : x < s[k]
    BY <1>3, <1>6, <1>9 DEF Newest
  <2>2. PICK k \in DOMAIN s : s[k] = page[i]
    BY <1>6 DEF Values
  <2> QED
    BY <2>1, <2>2
<1>10. ASSUME page = <<>>, n # 0, NEW x \in Hits(q, b) PROVE FALSE
  <2>1. Len(s) = 0
    BY <1>6, <1>10, EmptySeq
  <2>2. DOMAIN s = {}
    BY <1>5, <2>1, SMT
  <2>3. x \notin Values(s) /\ Len(s) # m
    BY <1>1, <1>10, <2>1, <2>2 DEF Values
  <2> QED
    BY <1>3, <2>3 DEF Newest
<1> QED
  BY <1>6, <1>8, <1>9, <1>10 DEF n

-----------------------------------------------------------------------------
(* The walk.                                                                 *)

(* What the client holds between two pages: an ascending run of the          *)
(* conversation that begins at before; and, unless the limit is 0, what was  *)
(* there at the first page and has not been sent is older than all of it.    *)
Walk ==
  /\ query = None => got = <<>> /\ before = 0 /\ atFirst = {} /\ state = "over"
  /\ got \in Seq(Visible) /\ Increasing(got)
  /\ \A x \in Values(got) : Match(query, x)
  /\ before \in Nat /\ limit \in Int
  /\ IF got = <<>> THEN before = 0 ELSE before = got[1] /\ before # 0
  /\ atFirst \subseteq Visible /\ \A x \in atFirst : Match(query, x)
  /\ limit % Word # 0 =>
       \A x \in atFirst : \/ x \in Values(got)
                          \/ (state # "over" \/ failed) /\ \A y \in Values(got) : x < y
  /\ state = "unanswered" => limit % Word > Fits

\* A run of ids put before a run of later ones.
LEMMA PutBefore ==
  ASSUME NEW S \in SUBSET Nat, NEW s \in Seq(S), NEW t \in Seq(S), Increasing(s), Increasing(t),
         \A x \in Values(s), y \in Values(t) : x < y
  PROVE  /\ s \o t \in Seq(S) /\ Increasing(s \o t) /\ Values(s \o t) = Values(s) \cup Values(t)
         /\ s # <<>> => (s \o t) # <<>> /\ (s \o t)[1] = s[1] /\ s[1] \in Values(s)
<1> DEFINE u == s \o t
           m == Len(s)
           n == Len(t)
<1>1. m \in Nat /\ n \in Nat
  BY LenProperties
<1>2. DOMAIN s = 1..m /\ DOMAIN t = 1..n
  BY LenProperties
<1>3. u \in Seq(S) /\ Len(u) = m + n
  BY ConcatProperties
<1>4. DOMAIN u = 1..(m + n)
  BY <1>3, LenProperties
<1>5. \A i \in 1..(m + n) : u[i] = IF i <= m THEN s[i] ELSE t[i - m]
  BY ConcatProperties
<1>6. \A i \in 1..(m + n) : IF i <= m THEN i \in 1..m ELSE i - m \in 1..n
  BY <1>1, SMT
<1>7. ASSUME NEW i \in 1..(m + n) PROVE u[i] \in Values(s) \cup Values(t)
  BY <1>2, <1>5, <1>6 DEF Values
<1>8. ASSUME NEW i \in 1..m PROVE i \in 1..(m + n) /\ u[i] = s[i]
  <2>1. i \in 1..(m + n) /\ i <= m
    BY <1>1, SMT
  <2> QED
    BY <2>1, <1>5
<1>9. ASSUME NEW i \in 1..n PROVE m + i \in 1..(m + n) /\ u[m + i] = t[i]
  <2>1. m + i \in 1..(m + n) /\ ~(m + i <= m) /\ (m + i) - m = i
    BY <1>1, SMT
  <2> QED
    BY <2>1, <1>5
<1>10. Values(u) = Values(s) \cup Values(t)
  <2>1. Values(u) \subseteq Values(s) \cup Values(t)
    BY <1>4, <1>7 DEF Values
  <2>2. Values(s) \subseteq Values(u)
    BY <1>2, <1>4, <1>8 DEF Values
  <2>3. Values(t) \subseteq Values(u)
    BY <1>2, <1>4, <1>9 DEF Values
  <2> QED
    BY <2>1, <2>2, <2>3
<1>11. ASSUME NEW i \in 1..(m + n), NEW j \in 1..(m + n), i < j PROVE u[i] < u[j]
  <2>1. CASE i <= m /\ j <= m
    BY <2>1, <1>2, <1>5, <1>6, <1>11 DEF Increasing
  <2>2. CASE i <= m /\ ~(j <= m)
    <3>1. u[i] = s[i] /\ i \in 1..m /\ u[j] = t[j - m] /\ j - m \in 1..n
      BY <2>2, <1>5, <1>6
    <3>2. s[i] \in Values(s) /\ t[j - m] \in Values(t)
      BY <3>1, <1>2 DEF Values
    <3> QED
      BY <3>1, <3>2
  <2>3. CASE ~(i <= m) /\ ~(j <= m)
    <3>1. i - m < j - m
      BY <1>1, <1>11, SMT
    <3>2. u[i] = t[i - m] /\ i - m \in 1..n /\ u[j] = t[j - m] /\ j - m \in 1..n
      BY <2>3, <1>5, <1>6
    <3> QED
      BY <3>1, <3>2, <1>2 DEF Increasing
  <2>4. i <= m \/ ~(j <= m)
    BY <1>1, <1>11, SMT
  <2> QED
    BY <2>1, <2>2, <2>3, <2>4
<1>12. Increasing(u)
  BY <1>4, <1>11 DEF Increasing
<1>13. ASSUME s # <<>> PROVE u # <<>> /\ u[1] = s[1] /\ s[1] \in Values(s)
  <2>1. m # 0
    BY <1>13, EmptySeq
  <2>2. 1 \in 1..m /\ m + n # 0
    BY <2>1, <1>1, SMT
  <2>3. u[1] = s[1]
    BY <2>2, <1>8
  <2>4. Len(<<>>) = 0
    BY EmptySeq
  <2>5. u # <<>>
    BY <2>2, <2>4, <1>3
  <2> QED
    BY <2>2, <2>3, <2>5, <1>2 DEF Values
<1> QED
  BY <1>3, <1>10, <1>12, <1>13

\* A message keeps its id and its row while others are written.
LEMMA RowsGrow ==
  ASSUME RowsOK, NEW p \in Posts, posted' = Append(posted, p) \/ posted' = posted,
         NEW id, rows' = Append(rows, id) \/ rows' = rows, id \in 1..Len(posted')
  PROVE  /\ Visible \subseteq Visible'
         /\ \A q : \A x \in Visible : Match(q, x)' = Match(q, x)
<1>1. /\ Len(posted) \in Nat /\ Len(posted') \in Nat
      /\ \A x \in 1..Len(posted) : posted'[x] = posted[x]
  <2>1. posted \in Seq(Posts)
    BY DEF RowsOK
  <2>2. CASE posted' = posted
    BY <2>1, <2>2, LenProperties
  <2>3. CASE posted' = Append(posted, p)
    BY <2>1, <2>3, SMT
  <2> QED
    BY <2>2, <2>3
<1>2. rows \in Seq(Nat) /\ id \in Nat
  <2>1. rows \in Seq(1..Len(posted))
    BY DEF RowsOK
  <2> QED
    BY <2>1, <1>1, SMT
<1>3. \A i \in DOMAIN rows : i \in DOMAIN rows' /\ rows'[i] = rows[i]
  BY <1>2, SMT
<1>4. Visible \subseteq Visible'
  BY <1>3 DEF Visible
<1>5. Visible \in SUBSET (1..Len(posted))
  BY IdsAreFinite
<1>6. \A q : \A x \in Visible : Match(q, x)' = Match(q, x)
  BY <1>1, <1>5 DEF Match
<1> QED
  BY <1>4, <1>6

\* Nothing that the walk holds is disturbed by it.
LEMMA WalkStays ==
  ASSUME Walk, Visible \subseteq Visible', \A q : \A x \in Visible : Match(q, x)' = Match(q, x),
         UNCHANGED walkVars
  PROVE  Walk'
<1>1. UNCHANGED <<query, limit, before, got, state, failed, atFirst>>
  BY DEF walkVars
<1>2. got \in Seq(Visible) /\ got \in Seq(Visible')
  BY SeqMonotonic DEF Walk
<1>3. \A x \in Values(got) : x \in Visible
  BY <1>2, SeqValues
<1>4. \A x \in Values(got) : Match(query, x)'
  BY <1>1, <1>3 DEF Walk
<1>5. atFirst \subseteq Visible' /\ \A x \in atFirst : Match(query, x)'
  BY <1>1 DEF Walk
<1>6. Values(got)' = Values(got) /\ (Increasing(got)' <=> Increasing(got))
  BY <1>1 DEF Values, Increasing
<1> QED
  BY <1>1, <1>2, <1>4, <1>5, <1>6 DEF Walk

\* What the walk holds before a page of q is asked for, with limit lim and old there at the first page.
Asks(q, lim, old) ==
  /\ q # None /\ lim \in Int
  /\ got \in Seq(Visible) /\ Increasing(got)
  /\ \A x \in Values(got) : Match(q, x)
  /\ before \in Nat
  /\ IF got = <<>> THEN before = 0 ELSE before = got[1] /\ before # 0
  /\ old \subseteq Visible /\ \A x \in old : Match(q, x)
  /\ lim % Word # 0 => \A x \in old : x \in Values(got) \/ \A y \in Values(got) : x < y

\* The first of an ascending run is its least.
LEMMA FirstIsLeast ==
  ASSUME NEW S \in SUBSET Nat, NEW s \in Seq(S), Increasing(s), s # <<>>
  PROVE  s[1] \in Values(s) /\ \A y \in Values(s) : s[1] <= y
<1>1. Len(s) \in Nat /\ DOMAIN s = 1..Len(s) /\ Len(s) # 0
  BY LenProperties, EmptySeq
<1>2. 1 \in DOMAIN s /\ \A i \in DOMAIN s : i = 1 \/ 1 < i
  BY <1>1, SMT
<1>3. Values(s) \subseteq Nat
  BY SeqValues
<1>4. \A i \in DOMAIN s : s[i] \in Values(s)
  BY DEF Values
<1>5. \A y \in Values(s) : s[1] = y \/ s[1] < y
  BY <1>2 DEF Increasing, Values
<1>6. \A y \in Values(s) : s[1] <= y
  BY <1>2, <1>3, <1>4, <1>5, SMT
<1> QED
  BY <1>2, <1>4, <1>6

\* A reply with no messages of its own keeps the walk, if nothing has to be
\* there: an error, or a query that failed.
LEMMA NothingSent ==
  ASSUME NEW q, NEW lim, NEW old, Asks(q, lim, old), before' = before, got' = got,
         state' = "refused" \/ (state' = "over" /\ failed'),
         query' = q, limit' = lim, atFirst' = old, UNCHANGED <<mysql, posted, rows>>
  PROVE  Walk'
<1>1. Visible' = Visible /\ \A x : Match(q, x)' = Match(q, x)
  BY DEF Visible, Match
<1>2. Values(got)' = Values(got) /\ (Increasing(got)' <=> Increasing(got))
  BY DEF Values, Increasing
<1>3. "refused" # "over" /\ "refused" # "unanswered" /\ "over" # "unanswered"
  OBVIOUS
<1>4. state' # "unanswered" /\ (state' # "over" \/ failed')
  BY <1>3
<1> QED
  BY <1>1, <1>2, <1>4 DEF Walk, Asks

\* A page keeps the walk, whatever it is answered with.
LEMMA ReplyKeepsWalk ==
  ASSUME RowsOK, NEW q, NEW lim, NEW old, Asks(q, lim, old), Reply(Page(q, before, lim)),
         query' = q, limit' = lim, atFirst' = old, UNCHANGED <<mysql, posted, rows>>
  PROVE  Walk'
<1> DEFINE page == Page(q, before, lim)
           hits == Hits(q, before)
<1>1. /\ q # None /\ lim \in Int /\ before \in Nat
      /\ got \in Seq(Visible) /\ Increasing(got) /\ \A x \in Values(got) : Match(q, x)
  BY DEF Asks
<1>2. /\ page \in Seq(hits) /\ Increasing(page) /\ Len(page) <= lim % Word
      /\ \A x \in hits : \/ x \in Values(page)
                         \/ \A i \in DOMAIN page : x < page[i]
      /\ page = <<>> /\ lim % Word # 0 => hits = {}
  BY <1>1, PageIsExact
<1>3. hits \in SUBSET Visible /\ Visible \in SUBSET Nat /\ \A x \in Visible : x # 0
  <2>1. Visible \in SUBSET (1..Len(posted)) /\ Len(posted) \in Nat
    BY IdsAreFinite, LenProperties DEF RowsOK
  <2>2. \A x \in 1..Len(posted) : x # 0
    BY <2>1, SMT
  <2> QED
    BY <2>1, <2>2, IdsAreFinite
<1>4. Visible' = Visible /\ \A x : Match(q, x)' = Match(q, x)
  BY DEF Visible, Match
<1>5. \A x \in hits : Match(q, x) /\ (before # 0 => x < before)
  BY DEF Hits
<1>6. ASSUME NEW x \in old, x \notin Values(got), lim % Word # 0 PROVE x \in hits
  <2>1. x \in Visible /\ Match(q, x) /\ \A y \in Values(got) : x < y
    BY <1>6 DEF Asks
  <2>2. ASSUME before # 0 PROVE x < before
    <3>1. got # <<>> /\ before = got[1]
      BY <2>2 DEF Asks
    <3>2. got[1] \in Values(got)
      BY <3>1, <1>1, <1>3, FirstIsLeast
    <3> QED
      BY <2>1, <3>1, <3>2
  <2> QED
    BY <2>1, <2>2 DEF Hits
<1> HIDE DEF page, hits
<1>7. CASE Len(page) > Fits
  <2>1. state' = "unanswered" /\ before' = before /\ got' = got
    BY <1>7 DEF Reply, ReplyAs, page
  <2>2. Len(page) \in Nat /\ lim % Word \in Nat /\ Fits \in Nat
    BY <1>1, <1>2, LenProperties, HistoryAssumption, SMT
  <2>3. lim % Word > Fits
    BY <2>2, <1>2, <1>7, SMT
  <2>4. Values(got)' = Values(got) /\ (Increasing(got)' <=> Increasing(got))
    BY <2>1 DEF Values, Increasing
  <2>5. "unanswered" # "over"
    OBVIOUS
  <2> QED
    BY <2>1, <2>3, <2>4, <2>5, <1>1, <1>4 DEF Walk, Asks
<1>8. CASE ~(Len(page) > Fits) /\ page = <<>>
  <2>1. state' = "over" /\ before' = before /\ got' = got
    BY <1>8 DEF Reply, ReplyAs, page
  <2>2. lim % Word # 0 => \A x \in old : x \in Values(got)
    BY <1>2, <1>6, <1>8
  <2>3. Values(got)' = Values(got) /\ (Increasing(got)' <=> Increasing(got))
    BY <2>1 DEF Values, Increasing
  <2>4. "over" # "unanswered"
    OBVIOUS
  <2> QED
    BY <2>1, <2>2, <2>3, <2>4, <1>1, <1>4 DEF Walk, Asks
<1>9. CASE ~(Len(page) > Fits) /\ page # <<>>
  <2>1. state' = "asking" /\ before' = page[1] /\ got' = page \o got
    BY <1>9 DEF Reply, ReplyAs, page
  <2>2. Values(page) \subseteq hits /\ Values(got) \subseteq Visible
    BY <1>1, <1>2, SeqValues
  <2>3. ASSUME NEW x \in Values(page), NEW y \in Values(got) PROVE x < y
    <3>1. got # <<>>
      BY EmptySeq, SMT DEF Values
    <3>2. before = got[1] /\ before # 0
      BY <3>1 DEF Asks
    <3>3. x < before /\ before <= y
      BY <3>1, <3>2, <2>2, <1>1, <1>3, <1>5, FirstIsLeast
    <3>4. x \in Nat /\ y \in Nat
      BY <2>2, <1>3
    <3> QED
      BY <3>3, <3>4, <1>1, SMT
  <2>4. page \in Seq(Visible)
    BY <1>2, <1>3, SeqMonotonic
  <2>5. /\ got' \in Seq(Visible) /\ Increasing(page \o got) /\ Values(page \o got) = Values(page) \cup Values(got)
        /\ got' # <<>> /\ got'[1] = page[1] /\ page[1] \in Values(page)
    <3>1. page # <<>> /\ got \in Seq(Visible) /\ Visible \in SUBSET Nat /\ Increasing(page) /\ Increasing(got)
      BY <1>1, <1>2, <1>3, <1>9
    <3>2. /\ page \o got \in Seq(Visible) /\ Increasing(page \o got) /\ Values(page \o got) = Values(page) \cup Values(got)
          /\ page # <<>> => page \o got # <<>> /\ (page \o got)[1] = page[1] /\ page[1] \in Values(page)
      BY ONLY <2>3, <2>4, <3>1, PutBefore
    <3> QED
      BY ONLY <2>1, <3>1, <3>2
  <2>6. Values(got)' = Values(page) \cup Values(got) /\ Increasing(got)'
    BY <2>1, <2>5 DEF Values, Increasing
  <2>7. \A x \in Values(page) \cup Values(got) : Match(q, x)
    BY <2>2, <1>1, <1>5
  <2>8. page[1] \in Nat /\ page[1] # 0
    BY <2>2, <2>5, <1>3
  <2>9. ASSUME lim % Word # 0, NEW x \in old, x \notin Values(page) \cup Values(got), NEW y \in Values(page) \cup Values(got)
        PROVE  x < y
    <3>1. CASE y \in Values(got)
      BY <3>1, <2>9 DEF Asks
    <3>2. CASE y \in Values(page)
      BY <3>2, <2>9, <1>2, <1>6 DEF Values
    <3> QED
      BY <3>1, <3>2
  <2>10. "asking" # "over" /\ "asking" # "unanswered"
    OBVIOUS
  <2>11. old \subseteq Visible /\ \A x \in old : Match(q, x)
    BY DEF Asks
  <2> QED
    BY <2>1, <2>5, <2>6, <2>7, <2>8, <2>9, <2>10, <2>11, <1>1, <1>4 DEF Walk
<1> QED
  BY <1>7, <1>8, <1>9

\* So does a request, whichever way it goes.
LEMMA AskKeepsWalk ==
  ASSUME RowsOK, NEW q, NEW lim, NEW old, Asks(q, lim, old), Ask(q, before, lim),
         query' = q, limit' = lim, atFirst' = old, UNCHANGED <<mysql, posted, rows>>
  PROVE  Walk'
<1>1. CASE Refuse(q)
  <2>1. before' = before /\ got' = got /\ state' = "refused"
    BY <1>1 DEF Refuse
  <2> QED
    BY <2>1, NothingSent
<1>2. CASE Reply(Page(q, before, lim))
  BY <1>2, ReplyKeepsWalk
<1>3. CASE Reply(<<>>) /\ failed' = TRUE
  <2>1. ~(Len(<<>>) > Fits)
    BY HistoryAssumption, SMT
  <2>2. state' = "over" /\ before' = before /\ got' = got
    BY <1>3, <2>1 DEF Reply, ReplyAs
  <2> QED
    BY <1>3, <2>2, NothingSent
<1> QED
  BY <1>1, <1>2, <1>3 DEF Ask

-----------------------------------------------------------------------------
(* The specification.                                                        *)

HistoryInv == RowsOK /\ Walk

LEMMA InitHistory ==
  ASSUME Init
  PROVE  HistoryInv
<1>1. Len(Clock) \in Nat
  BY HistoryAssumption, LenProperties
<1>2. RowsOK
  BY <1>1, SMT DEF Init, RowsOK
<1>3. Values(<<>>) = {} /\ Increasing(<<>>) /\ <<>> \in Seq(Visible)
  BY SMT DEF Values, Increasing
<1>4. "over" # "unanswered" /\ 0 \in Nat /\ 0 \in Int
  BY SMT
<1>5. Walk
  BY <1>3, <1>4 DEF Init, Walk
<1> QED
  BY <1>2, <1>5 DEF HistoryInv

LEMMA InsertStep ==
  ASSUME HistoryInv, NEW p \in Posts, Insert(p)
  PROVE  HistoryInv'
<1> DEFINE id == Len(posted) + 1
<1>1. /\ posted \in Seq(Posts) /\ rows \in Seq(1..Len(posted)) /\ mysql \in BOOLEAN
      /\ Len(posted) \in Nat /\ Len(Clock) \in Nat
  BY HistoryAssumption, LenProperties DEF HistoryInv, RowsOK
<1>2. /\ posted' = Append(posted, p) /\ rows' = IF mysql THEN rows ELSE Append(rows, id)
      /\ mysql' = mysql /\ UNCHANGED walkVars /\ Len(posted) < Len(Clock)
  BY DEF Insert, MaxMessages
<1>3. posted' \in Seq(Posts) /\ Len(posted') = id /\ id <= Len(Clock) /\ id \in 1..Len(posted')
  BY <1>1, <1>2, SMT
<1>4. rows \in Seq(1..Len(posted'))
  <2>1. 1..Len(posted) \subseteq 1..Len(posted')
    BY <1>1, <1>3, SMT
  <2> QED
    BY <2>1, <1>1, SeqMonotonic
<1>5. rows' \in Seq(1..Len(posted'))
  BY <1>2, <1>3, <1>4, AppendProperties
<1>6. ASSUME ~mysql PROVE Len(rows') = Len(posted') /\ \A i \in 1..Len(rows') : rows'[i] = i
  <2>1. Len(rows) = Len(posted) /\ \A i \in 1..Len(rows) : rows[i] = i
    BY <1>6 DEF HistoryInv, RowsOK
  <2>2. rows' = Append(rows, id)
    BY <1>2, <1>6
  <2>3. /\ Len(rows') = Len(rows) + 1 /\ rows'[Len(rows) + 1] = id
        /\ \A i \in 1..Len(rows) : rows'[i] = rows[i]
    BY <2>2, <1>3, <1>4, AppendProperties, SMT
  <2>4. \A i \in 1..id : i = id \/ i \in 1..Len(posted)
    BY <1>1, SMT
  <2> QED
    BY <2>1, <2>3, <2>4, <1>3
<1>7. RowsOK'
  BY <1>2, <1>3, <1>5, <1>6, <1>1 DEF RowsOK
<1>8. Visible \subseteq Visible' /\ \A q : \A x \in Visible : Match(q, x)' = Match(q, x)
  BY <1>2, <1>3, RowsGrow DEF HistoryInv
<1> QED
  BY <1>2, <1>7, <1>8, WalkStays DEF HistoryInv

LEMMA CommitStep ==
  ASSUME HistoryInv, NEW id \in Ids, Commit(id)
  PROVE  HistoryInv'
<1>1. posted \in Seq(Posts) /\ rows \in Seq(1..Len(posted))
  BY DEF HistoryInv, RowsOK
<1>2. /\ mysql /\ mysql' = mysql /\ posted' = posted /\ rows' = Append(rows, id) /\ UNCHANGED walkVars
      /\ id \in 1..Len(posted)
  BY <1>1, LenProperties DEF Commit
<1>3. rows' \in Seq(1..Len(posted'))
  BY <1>1, <1>2, AppendProperties
<1>4. RowsOK'
  BY <1>2, <1>3 DEF HistoryInv, RowsOK
<1>5. posted # <<>>
  BY <1>1, <1>2, SMT
<1>6. PICK p \in Posts : TRUE
  BY <1>1, <1>5, HeadTailProperties
<1>7. Visible \subseteq Visible' /\ \A q : \A x \in Visible : Match(q, x)' = Match(q, x)
  BY <1>2, <1>6, RowsGrow DEF HistoryInv
<1> QED
  BY <1>2, <1>4, <1>7, WalkStays DEF HistoryInv

LEMMA RowsStay ==
  ASSUME RowsOK, UNCHANGED <<mysql, posted, rows>>
  PROVE  RowsOK'
BY DEF RowsOK

LEMMA FirstPageStep ==
  ASSUME HistoryInv, NEW q \in Queries, NEW lim \in Limits, FirstPage(q, lim)
  PROVE  HistoryInv'
<1> DEFINE old == {id \in Visible : Match(q, id)}
<1>1. /\ query = None /\ query' = q /\ limit' = lim /\ atFirst' = old
      /\ UNCHANGED <<mysql, posted, rows>> /\ Ask(q, 0, lim)
  BY DEF FirstPage
<1>2. got = <<>> /\ before = 0
  BY <1>1 DEF HistoryInv, Walk
<1>3. q # None /\ lim \in Int
  BY HistoryAssumption
<1>4. Values(got) = {}
  BY <1>2, SMT DEF Values
<1>5. Asks(q, lim, old)
  BY <1>2, <1>3, <1>4 DEF HistoryInv, Walk, Asks
<1>6. Walk'
  BY <1>1, <1>2, <1>5, AskKeepsWalk DEF HistoryInv
<1> QED
  BY <1>1, <1>6, RowsStay DEF HistoryInv

LEMMA NextPageStep ==
  ASSUME HistoryInv, NextPage
  PROVE  HistoryInv'
<1>1. /\ query # None /\ state = "asking" /\ UNCHANGED <<mysql, posted, rows>>
      /\ query' = query /\ limit' = limit /\ atFirst' = atFirst /\ Ask(query, before, limit)
  BY DEF NextPage
<1>2. Asks(query, limit, atFirst)
  BY <1>1 DEF HistoryInv, Walk, Asks
<1>3. Walk'
  BY <1>1, <1>2, AskKeepsWalk DEF HistoryInv
<1> QED
  BY <1>1, <1>3, RowsStay DEF HistoryInv

LEMMA LeaveStep ==
  ASSUME HistoryInv, Leave
  PROVE  HistoryInv'
<1>1. /\ query' = None /\ limit' = 0 /\ before' = 0 /\ got' = <<>> /\ state' = "over" /\ atFirst' = {}
      /\ UNCHANGED <<mysql, posted, rows>>
  BY DEF Leave
<1>2. Values(<<>>) = {} /\ Increasing(<<>>) /\ <<>> \in Seq(Visible')
  BY SMT DEF Values, Increasing
<1>3. "over" # "unanswered" /\ 0 \in Nat /\ 0 \in Int
  BY SMT
<1>4. Values(got)' = {} /\ Increasing(got)'
  BY <1>1, <1>2 DEF Values, Increasing
<1>5. Walk'
  BY <1>1, <1>2, <1>3, <1>4 DEF Walk
<1> QED
  BY <1>1, <1>5, RowsStay DEF HistoryInv

\* The invariant, from the actions one by one.
THEOREM HistoryInvariant == Spec => []HistoryInv
<1>1. Init => HistoryInv
  BY InitHistory
<1>2. HistoryInv /\ [Next]_vars => HistoryInv'
  <2> SUFFICES ASSUME HistoryInv, [Next]_vars PROVE HistoryInv'
    OBVIOUS
  <2>1. CASE \E p \in Posts : Insert(p)
    BY <2>1, InsertStep
  <2>2. CASE \E id \in Ids : Commit(id)
    BY <2>2, CommitStep
  <2>3. CASE \E q \in Queries, lim \in Limits : FirstPage(q, lim)
    BY <2>3, FirstPageStep
  <2>4. CASE NextPage
    BY <2>4, NextPageStep
  <2>5. CASE Leave
    BY <2>5, LeaveStep
  <2>6. CASE UNCHANGED vars
    <3>1. UNCHANGED <<mysql, posted, rows>> /\ UNCHANGED walkVars
      BY <2>6 DEF vars, walkVars
    <3>2. Visible' = Visible /\ \A q : \A x \in Visible : Match(q, x)' = Match(q, x)
      BY <3>1 DEF Visible, Match
    <3> QED
      BY <3>1, <3>2, RowsStay, WalkStays DEF HistoryInv
  <2> QED
    BY <2>1, <2>2, <2>3, <2>4, <2>5, <2>6 DEF Next
<1> QED
  BY <1>1, <1>2, PTL DEF Spec

(* The client that pages backwards is sent messages of the conversation      *)
(* only, once each and in order, and none is passed over: whatever it lacks  *)
(* of what was there when it began is older than all it was sent, and an     *)
(* empty page that is not a failed query means that it lacks nothing.  It    *)
(* goes without an answer only if it asks for more than a frame holds.  For  *)
(* any number of messages, any limits, any cap, and rows that become visible *)
(* in any order (history_dm, history_room, the handlers).                    *)
THEOREM PagesAreExactAlways == Spec => []PagesAreExact
<1>1. HistoryInv => PagesAreExact
  <2> SUFFICES ASSUME HistoryInv PROVE PagesAreExact
    OBVIOUS
  <2>1. \A i, j \in DOMAIN got : i < j => got[i] < got[j]
    BY DEF HistoryInv, Walk, Increasing
  <2>2. Values(got) \subseteq Visible
    BY SeqValues DEF HistoryInv, Walk
  <2>3. \A id \in Values(got) : id \in Visible /\ Match(query, id)
    BY <2>2 DEF HistoryInv, Walk
  <2>4. limit % Word # 0 => \A id \in atFirst \ Values(got) : \A later \in Values(got) : id < later
    BY DEF HistoryInv, Walk
  <2>5. query # None /\ state = "over" /\ ~failed /\ limit % Word # 0 => atFirst \subseteq Values(got)
    BY DEF HistoryInv, Walk
  <2>6. state = "unanswered" => limit % Word > Fits
    BY DEF HistoryInv, Walk
  <2> QED
    BY <2>1, <2>3, <2>4, <2>5, <2>6 DEF PagesAreExact, Values
<1> QED
  BY <1>1, HistoryInvariant, PTL

(* The loop of the in-memory store and the query of the MySQL store return   *)
(* the same page, for any rows, any conversation, any before_id and any      *)
(* limit up to the cap (both stores' history_dm and history_room).           *)
THEOREM StoresAgreeAlways == Spec => []StoresAgree
<1>1. HistoryInv => StoresAgree
  BY StoresAgreeOnRows DEF HistoryInv
<1> QED
  BY <1>1, HistoryInvariant, PTL

\* MySQL reads the milliseconds as decimals of a second; from 100 on they are what they say.
Millis == 0..999
Moment(a, x) == 1000 * a + x
ReadAs(c, x) == x \in Millis /\ c <= x /\ (c >= 100 => x = c)

LEMMA FractionRead ==
  ASSUME NEW c \in Millis
  PROVE  ReadAs(c, Fraction(c))
BY SMT DEF Fraction, ReadAs, Millis

\* Seconds come before what is read as their milliseconds.
LEMMA ReadInOrder ==
  ASSUME NEW a \in Nat, NEW b \in Nat, NEW c \in Millis, NEW d \in Millis, NEW x, NEW y,
         ReadAs(c, x), ReadAs(d, y), a < b \/ (a = b /\ c < d), ~(a = b /\ c < 100)
  PROVE  Moment(a, x) < Moment(b, y)
<1>1. x \in 0..999 /\ y \in 0..999 /\ c \in 0..999 /\ d \in 0..999
  BY SMT DEF ReadAs, Millis
<1>2. CASE a < b
  BY <1>1, <1>2, SMT DEF Moment
<1>3. CASE a = b /\ c < d
  <2>1. x = c /\ d <= y
    BY <1>1, <1>3, SMT DEF ReadAs
  <2> QED
    BY <1>1, <1>3, <2>1, SMT DEF Moment
<1> QED
  BY <1>2, <1>3

LEMMA StoredOrder ==
  ASSUME NEW s \in Nat, NEW t \in Nat, s < t, mysql,
         ~(s \div 1000 = t \div 1000 /\ s % 1000 < 100)
  PROVE  Stored(s) < Stored(t)
<1> DEFINE a == s \div 1000
           b == t \div 1000
           c == s % 1000
           d == t % 1000
<1>1. /\ a \in Nat /\ b \in Nat /\ c \in Millis /\ d \in Millis
      /\ a < b \/ (a = b /\ c < d)
  BY SMT DEF Millis
<1>2. Stored(s) = Moment(a, Fraction(c)) /\ Stored(t) = Moment(b, Fraction(d))
  BY SMT DEF Stored, Moment
<1>3. ~(a = b /\ c < 100)
  OBVIOUS
<1> HIDE DEF a, b, c, d
<1>4. Moment(a, Fraction(c)) < Moment(b, Fraction(d))
  BY <1>1, <1>3, FractionRead, ReadInOrder
<1> QED
  BY <1>2, <1>4

(* For any clock, the stored times are in its order, but for a message of    *)
(* the first 100 ms of a second and a later one of that second               *)
(* (FROM_UNIXTIME in insert_dm and insert_room_msg).                         *)
THEOREM TimesKeepOrderAlways == Spec => []TimesKeepOrder
<1>1. HistoryInv => TimesKeepOrder
  <2> SUFFICES ASSUME HistoryInv, NEW i \in Visible, NEW j \in Visible, Clock[i] < Clock[j],
                      ~(mysql /\ Clock[i] \div 1000 = Clock[j] \div 1000 /\ Clock[i] % 1000 < 100)
               PROVE  Stored(Clock[i]) < Stored(Clock[j])
    BY DEF TimesKeepOrder
  <2>1. Visible \in SUBSET (1..Len(posted)) /\ Len(posted) <= Len(Clock) /\ Len(posted) \in Nat
    BY IdsAreFinite, LenProperties DEF HistoryInv, RowsOK
  <2>2. Clock \in Seq(Nat) /\ Len(Clock) \in Nat
    BY HistoryAssumption, LenProperties
  <2>3. \A x \in 1..Len(posted) : x \in 1..Len(Clock)
    BY <2>1, <2>2, SMT
  <2>4. Clock[i] \in Nat /\ Clock[j] \in Nat
    BY <2>1, <2>2, <2>3, ElementOfSeq
  <2>5. CASE mysql
    <3>1. ~(Clock[i] \div 1000 = Clock[j] \div 1000 /\ Clock[i] % 1000 < 100)
      BY <2>5, SMT
    <3> QED
      BY <3>1, <2>4, <2>5, StoredOrder
  <2>6. CASE ~mysql
    <3>1. Stored(Clock[i]) = Clock[i] /\ Stored(Clock[j]) = Clock[j]
      BY <2>6, SMT DEF Stored
    <3> QED
      BY <3>1
  <2> QED
    BY <2>5, <2>6
<1> QED
  BY <1>1, HistoryInvariant, PTL
=============================================================================
