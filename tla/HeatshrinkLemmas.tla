--------------------------- MODULE HeatshrinkLemmas ---------------------------
(***************************************************************************)
(* Facts about the operators of Heatshrink, whatever its state: induction, *)
(* powers of two, streams of bits and what the decoder reads in them.      *)
(*                                                                         *)
(* Induction over the natural numbers is stated for a set where the        *)
(* library's theorems have an operator, which the provers at hand cannot   *)
(* instantiate: the property to prove is given as the set of numbers that  *)
(* have it.                                                                *)
(***************************************************************************)
EXTENDS Heatshrink, SequenceTheorems, WellFoundedInduction, TLAPS

Bit == {0, 1}
Byte == 0..255

-----------------------------------------------------------------------------
(* Induction and iteration.                                                *)

Less == {ss \in Nat \X Nat : ss[1] < ss[2]}

LEMMA Smallest == ASSUME NEW T \in SUBSET Nat, T # {} PROVE \E x \in T : \A y \in T : x <= y
<1>1. IsWellFoundedOn(Less, Nat)
  BY NatLessThanWellFounded DEF OpToRel, Less
<1>2. PICK x \in T : \A y \in T : ~(<<y, x>> \in Less)
  BY <1>1, WFMin
<1>3. \A y \in T : x <= y
  <2> TAKE y \in T
  <2>1. <<y, x>> \in Less <=> y < x
    BY DEF Less
  <2> QED
    BY <1>2, <2>1
<1> QED
  BY <1>3

LEMMA Induction ==
    ASSUME NEW T, 0 \in T, \A n \in Nat : n \in T => n + 1 \in T
    PROVE  Nat \subseteq T
<1> SUFFICES ASSUME Nat \ T # {} PROVE FALSE
  OBVIOUS
<1>1. PICK x \in Nat \ T : \A y \in Nat \ T : x <= y
  <2>1. Nat \ T \in SUBSET Nat
    OBVIOUS
  <2> QED
    BY <2>1, Smallest
<1>2. x # 0 /\ x - 1 \in Nat
  BY <1>1
<1>3. x - 1 \in T
  BY <1>1, <1>2
<1> QED
  BY <1>2, <1>3

\* The same up to a bound.
LEMMA InductionTo ==
    ASSUME NEW T, NEW n \in Nat, 0 \in T, \A k \in 0..(n - 1) : k \in T => k + 1 \in T
    PROVE  0..n \subseteq T
<1> DEFINE P == {k \in Nat : k <= n => k \in T}
<1>1. 0 \in P /\ \A k \in Nat : k \in P => k + 1 \in P
  OBVIOUS
<1>2. Nat \subseteq P
  <2> HIDE DEF P
  <2> QED
    BY <1>1, Induction
<1> QED
  BY <1>2

\* f is the function f[k \in 0..n] == IF k = 0 THEN a ELSE G[f[k - 1]].
Iterates(f, S, a, G, n) ==
    f \in [0..n -> S] /\ f[0] = a /\ \A k \in 1..n : f[k] = G[f[k - 1]]

LEMMA IterationExists ==
    ASSUME NEW S, NEW a \in S, NEW G \in [S -> S], NEW n \in Nat
    PROVE  \E f : Iterates(f, S, a, G, n)
<1> DEFINE Is(f, m) == f \in [0..m -> S] /\ f[0] = a /\ \A k \in 1..m : f[k] = G[f[k - 1]]
           T == {m \in Nat : \E f : Is(f, m)}
<1>1. 0 \in T
  <2> DEFINE f == [k \in 0..0 |-> a]
  <2>1. f \in [0..0 -> S] /\ f[0] = a
    OBVIOUS
  <2>2. \A k \in 1..0 : FALSE
    OBVIOUS
  <2>3. Is(f, 0)
    BY <2>1, <2>2
  <2> QED
    BY <2>3
<1>2. \A m \in Nat : m \in T => m + 1 \in T
  <2> SUFFICES ASSUME NEW m \in Nat, NEW f, Is(f, m) PROVE \E g : Is(g, m + 1)
    OBVIOUS
  <2> DEFINE g == [k \in 0..(m + 1) |-> IF k = m + 1 THEN G[f[m]] ELSE f[k]]
  <2>1. g \in [0..(m + 1) -> S] /\ g[0] = a
    OBVIOUS
  <2>2. \A k \in 1..(m + 1) : g[k] = G[g[k - 1]]
    OBVIOUS
  <2>3. Is(g, m + 1)
    BY <2>1, <2>2
  <2> QED
    BY <2>3
<1>3. n \in T
  <2> HIDE DEF T
  <2> QED
    BY <1>1, <1>2, Induction
<1> QED
  BY <1>3 DEF Iterates

-----------------------------------------------------------------------------
(* Extrema.                                                                *)

LEMMA MinExists ==
    ASSUME NEW S \in SUBSET Nat, S # {}
    PROVE  Min(S) \in S /\ \A y \in S : Min(S) <= y
BY Smallest DEF Min

LEMMA MaxExists ==
    ASSUME NEW S \in SUBSET Int, S # {}, NEW b \in Int, \A x \in S : x <= b
    PROVE  Max(S) \in S /\ \A y \in S : Max(S) >= y
<1> DEFINE T == {b - x : x \in S}
<1>1. T \in SUBSET Nat /\ T # {}
  <2>1. \A x \in S : b - x \in Nat
    OBVIOUS
  <2>2. PICK x \in S : TRUE
    OBVIOUS
  <2>3. b - x \in T
    OBVIOUS
  <2> QED
    BY <2>1, <2>3
<1>2. PICK t \in T : \A u \in T : t <= u
  BY <1>1, Smallest
<1>3. \E x \in S : \A y \in S : x >= y
  <2>1. PICK x \in S : t = b - x
    BY <1>2
  <2>2. \A y \in S : b - x <= b - y
    BY <1>2, <2>1
  <2> QED
    BY <2>2
<1> QED
  BY <1>3 DEF Max

LEMMA MinOfTwo == ASSUME NEW x \in Int, NEW y \in Int PROVE Min({x, y}) = IF x < y THEN x ELSE y
<1>1. \E z \in {x, y} : \A u \in {x, y} : z <= u
  OBVIOUS
<1>2. Min({x, y}) \in {x, y} /\ \A u \in {x, y} : Min({x, y}) <= u
  BY <1>1 DEF Min
<1> QED
  BY <1>2

-----------------------------------------------------------------------------
(* Powers of two.                                                          *)

LEMMA PowerValues ==
    ASSUME NEW k \in Nat, k <= 14
    PROVE  /\ 2^k \in {1, 2, 4, 8, 16, 32, 64, 128, 256, 512, 1024, 2048, 4096, 8192, 16384}
           /\ 2^(k + 1) = 2 * 2^k
<1>1. CASE k = 0
  <2>1. 2^k = 1 /\ 2^(k + 1) = 2
    BY <1>1
  <2> QED
    BY <2>1
<1>2. CASE k = 1
  <2>1. 2^k = 2 /\ 2^(k + 1) = 4
    BY <1>2
  <2> QED
    BY <2>1
<1>3. CASE k = 2
  <2>1. 2^k = 4 /\ 2^(k + 1) = 8
    BY <1>3
  <2> QED
    BY <2>1
<1>4. CASE k = 3
  <2>1. 2^k = 8 /\ 2^(k + 1) = 16
    BY <1>4
  <2> QED
    BY <2>1
<1>5. CASE k = 4
  <2>1. 2^k = 16 /\ 2^(k + 1) = 32
    BY <1>5
  <2> QED
    BY <2>1
<1>6. CASE k = 5
  <2>1. 2^k = 32 /\ 2^(k + 1) = 64
    BY <1>6
  <2> QED
    BY <2>1
<1>7. CASE k = 6
  <2>1. 2^k = 64 /\ 2^(k + 1) = 128
    BY <1>7
  <2> QED
    BY <2>1
<1>8. CASE k = 7
  <2>1. 2^k = 128 /\ 2^(k + 1) = 256
    BY <1>8
  <2> QED
    BY <2>1
<1>9. CASE k = 8
  <2>1. 2^k = 256 /\ 2^(k + 1) = 512
    BY <1>9
  <2> QED
    BY <2>1
<1>10. CASE k = 9
  <2>1. 2^k = 512 /\ 2^(k + 1) = 1024
    BY <1>10
  <2> QED
    BY <2>1
<1>11. CASE k = 10
  <2>1. 2^k = 1024 /\ 2^(k + 1) = 2048
    BY <1>11
  <2> QED
    BY <2>1
<1>12. CASE k = 11
  <2>1. 2^k = 2048 /\ 2^(k + 1) = 4096
    BY <1>12
  <2> QED
    BY <2>1
<1>13. CASE k = 12
  <2>1. 2^k = 4096 /\ 2^(k + 1) = 8192
    BY <1>13
  <2> QED
    BY <2>1
<1>14. CASE k = 13
  <2>1. 2^k = 8192 /\ 2^(k + 1) = 16384
    BY <1>14
  <2> QED
    BY <2>1
<1>15. CASE k = 14
  <2>1. 2^k = 16384 /\ 2^(k + 1) = 32768
    BY <1>15
  <2> QED
    BY <2>1
<1> QED
  BY <1>1, <1>2, <1>3, <1>4, <1>5, <1>6, <1>7, <1>8, <1>9, <1>10, <1>11, <1>12, <1>13, <1>14, <1>15

LEMMA Powers ==
    ASSUME NEW k \in Nat, k <= 14
    PROVE  2^k \in Nat /\ 2^k >= 1 /\ 2^k <= 16384 /\ 2^(k + 1) = 2 * 2^k
BY PowerValues

LEMMA PowersGrow ==
    ASSUME NEW n \in Nat, n <= 14, NEW m \in Nat, m <= n
    PROVE  2^m <= 2^n
<1> DEFINE T == {k \in Nat : m + k <= 14 => 2^m <= 2^(m + k)}
<1>1. 0 \in T
  <2>1. m + 0 = m /\ 2^m \in Nat
    BY Powers
  <2> QED
    BY <2>1
<1>2. \A k \in Nat : k \in T => k + 1 \in T
  <2> SUFFICES ASSUME NEW k \in Nat, k \in T, m + (k + 1) <= 14 PROVE 2^m <= 2^(m + (k + 1))
    OBVIOUS
  <2> DEFINE l == m + k
  <2>1. l \in Nat /\ l <= 14 /\ m + (k + 1) = l + 1
    OBVIOUS
  <2>2. 2^m \in Nat /\ 2^m <= 2^l
    BY Powers
  <2> HIDE DEF l
  <2>3. 2^(l + 1) = 2 * 2^l /\ 2^l \in Nat
    BY <2>1, Powers
  <2> QED
    BY <2>1, <2>2, <2>3
<1>3. n - m \in T
  <2> HIDE DEF T
  <2> QED
    BY <1>1, <1>2, Induction
<1>4. m + (n - m) = n
  OBVIOUS
<1> QED
  BY <1>3, <1>4

LEMMA Sizes ==
    /\ WindowBits \in Nat /\ WindowBits >= 4 /\ WindowBits <= 14
    /\ LookaheadBits \in Nat /\ LookaheadBits >= 3 /\ LookaheadBits < WindowBits
    /\ Window \in Nat /\ Window >= 16 /\ Window <= 16384
    /\ Lookahead \in Nat /\ Lookahead >= 8 /\ 2 * Lookahead <= Window
<1>1. /\ WindowBits \in Nat /\ WindowBits >= 4 /\ WindowBits <= 14
      /\ LookaheadBits \in Nat /\ LookaheadBits >= 3 /\ LookaheadBits < WindowBits
  BY ParametersAssumption
<1>2. \A n \in Nat : n >= 4 /\ n <= 14 => 2^n >= 16
  <2>1. \A m \in Nat : m = 4 => 2^m = 16
    OBVIOUS
  <2> QED
    BY <2>1, PowersGrow
<1>3. \A n \in Nat : n >= 3 /\ n <= 14 => 2^n >= 8
  <2>1. \A m \in Nat : m = 3 => 2^m = 8
    OBVIOUS
  <2> QED
    BY <2>1, PowersGrow
<1>4. 2^(LookaheadBits + 1) <= Window
  BY <1>1, PowersGrow DEF Window
<1>5. 2^(LookaheadBits + 1) = 2 * Lookahead
  BY <1>1, Powers DEF Lookahead
<1>6. Window >= 16 /\ Lookahead >= 8
  BY <1>1, <1>2, <1>3 DEF Window, Lookahead
<1>7. Window \in Nat /\ Lookahead \in Nat /\ Window <= 16384
  BY <1>1, Powers DEF Window, Lookahead
<1> QED
  BY <1>1, <1>4, <1>5, <1>6, <1>7

\* The bits of a number.
LEMMA BitsType ==
    ASSUME NEW v \in Int, NEW n \in Nat, n <= 14
    PROVE  Bits(v, n) \in Seq(Bit) /\ Len(Bits(v, n)) = n
<1>1. \A i \in 1..n : (v \div 2^(n - i)) % 2 \in Bit
  <2> TAKE i \in 1..n
  <2>1. 2^(n - i) \in Nat /\ 2^(n - i) >= 1
    BY Powers
  <2>2. \A d \in Nat : d >= 1 => (v \div d) % 2 \in Bit
    BY DEF Bit
  <2> QED
    BY <2>1, <2>2
<1>2. Bits(v, n) \in [1..n -> Bit]
  BY <1>1 DEF Bits
<1> QED
  BY <1>2

LEMMA ByteBits ==
    ASSUME NEW v \in Int
    PROVE  Bits(v, 8) \in Seq(Bit) /\ Len(Bits(v, 8)) = 8 /\ Len(Bits(v, 8)) <= 8
<1>1. Bits(v, 8) \in Seq(Bit) /\ Len(Bits(v, 8)) = 8
  BY BitsType, 8 \in Nat, 8 <= 14
<1> DEFINE k == Len(Bits(v, 8))
<1>2. k = 8
  BY <1>1
<1> HIDE DEF k
<1>3. k <= 8
  BY <1>2
<1> QED
  BY <1>1, <1>3 DEF k

-----------------------------------------------------------------------------
(* Output.                                                                 *)

\* A sequence cut in two.
LEMMA CutInTwo ==
    ASSUME NEW S, NEW s \in Seq(S), NEW n \in Nat, n <= Len(s)
    PROVE  /\ SubSeq(s, 1, n) \in Seq(S) /\ Len(SubSeq(s, 1, n)) = n
           /\ SubSeq(s, n + 1, Len(s)) \in Seq(S) /\ Len(SubSeq(s, n + 1, Len(s))) = Len(s) - n
           /\ SubSeq(s, 1, n) \o SubSeq(s, n + 1, Len(s)) = s
<1> DEFINE a == SubSeq(s, 1, n)
           b == SubSeq(s, n + 1, Len(s))
<1>1. a \in Seq(S) /\ Len(a) = n /\ \A i \in 1..n : a[i] = s[i]
  BY SubSeqProperties
<1>2. b \in Seq(S) /\ Len(b) = Len(s) - n /\ \A i \in 1..(Len(s) - n) : b[i] = s[n + i]
  BY SubSeqProperties
<1> HIDE DEF a, b
<1>3. /\ a \o b \in Seq(S) /\ Len(a \o b) = Len(s)
      /\ \A i \in 1..Len(s) : (a \o b)[i] = IF i <= n THEN a[i] ELSE b[i - n]
  BY <1>1, <1>2, ConcatProperties
<1>4. \A i \in 1..Len(s) : (a \o b)[i] = s[i]
  <2> TAKE i \in 1..Len(s)
  <2>0. i \in Nat /\ Len(s) \in Nat
    BY LenProperties
  <2>1. CASE i <= n
    BY <1>1, <1>3, <2>1
  <2>2. CASE i > n
    <3>1. i - n \in 1..(Len(s) - n) /\ n + (i - n) = i
      BY <2>0, <2>2
    <3> QED
      BY <1>2, <1>3, <2>2, <3>1
  <2>3. i <= n \/ i > n
    BY <2>0
  <2> HIDE DEF a, b
  <2> QED
    BY <2>1, <2>2, <2>3
<1>5. a \o b = s
  BY <1>3, <1>4, SeqEqual
<1> QED
  BY <1>1, <1>2, <1>5 DEF a, b

\* Joining streams of bits.
LEMMA Concat ==
    ASSUME NEW s \in Seq(Bit), NEW t \in Seq(Bit)
    PROVE  /\ s \o t \in Seq(Bit) /\ Len(s \o t) = Len(s) + Len(t)
           /\ Len(s) \in Nat /\ Len(t) \in Nat
           /\ s \o <<>> = s /\ <<>> \o s = s
BY ConcatProperties, ConcatEmptySeq

LEMMA Associative ==
    ASSUME NEW s \in Seq(Bit), NEW t \in Seq(Bit), NEW u \in Seq(Bit)
    PROVE  (s \o t) \o u = s \o (t \o u)
<1> DEFINE S == Bit
<1>1. s \in Seq(S) /\ t \in Seq(S) /\ u \in Seq(S)
  OBVIOUS
<1> HIDE DEF S
<1> QED
  BY <1>1, ConcatAssociative

LEMMA AssociativeFour ==
    ASSUME NEW s \in Seq(Bit), NEW t \in Seq(Bit), NEW u \in Seq(Bit), NEW v \in Seq(Bit)
    PROVE  ((s \o t) \o u) \o v = s \o (t \o (u \o v)) /\ s \o (t \o (u \o v)) \in Seq(Bit)
<1> DEFINE w == u \o v
           r == s \o t
           x == t \o w
<1>1. w \in Seq(Bit)
  BY Concat
<1>2. r \in Seq(Bit)
  BY Concat
<1>3. (s \o t) \o w = s \o (t \o w) /\ x \in Seq(Bit)
  <2> HIDE DEF w
  <2>1. (s \o t) \o w = s \o (t \o w)
    BY <1>1, Associative, ZenonT(40)
  <2>2. x \in Seq(Bit)
    BY <1>1, Concat
  <2> QED
    BY <2>1, <2>2
<1>4. (r \o u) \o v = r \o (u \o v)
  <2> HIDE DEF r
  <2> QED
    BY <1>2, Associative
<1>5. s \o x \in Seq(Bit)
  <2> HIDE DEF x
  <2> QED
    BY <1>3, Concat
<1> QED
  BY <1>3, <1>4, <1>5, Zenon

-----------------------------------------------------------------------------
(* Numbers in the stream.                                                  *)

LEMMA Halves ==
    ASSUME NEW v \in Nat, NEW k \in Nat, k <= 14
    PROVE  v \div 2^(k + 1) = (v \div 2^k) \div 2 /\ v \div 2^k \in Nat
<1> DEFINE d == 2^k
           e == 2^(k + 1)
<1>1. /\ d \in {1, 2, 4, 8, 16, 32, 64, 128, 256, 512, 1024, 2048, 4096, 8192, 16384}
      /\ e = 2 * d
  BY PowerValues
<1> HIDE DEF d, e
<1>2. v \div e = (v \div d) \div 2 /\ v \div d \in Nat
  BY <1>1
<1> QED
  BY <1>2 DEF d, e

\* The decoder reads what the encoder wrote.
LEMMA ValueOfBits ==
    ASSUME NEW n \in Nat, n <= 14, NEW v \in Nat, v < 2^n
    PROVE  Value(Bits(v, n)) = v
<1> DEFINE bits == Bits(v, n)
           Is(f) == f = [i \in 0..Len(bits) |-> IF i = 0 THEN 0 ELSE 2 * f[i - 1] + bits[i]]
           value == CHOOSE f : Is(f)
           w == [i \in 0..n |-> v \div 2^(n - i)]
<1>1. Len(bits) = n
  BY BitsType
<1>2. w[0] = 0
  <2>1. 2^n \in Nat
    BY Powers
  <2>2. \A e \in Nat : v < e => v \div e = 0
    OBVIOUS
  <2> QED
    BY <2>1, <2>2
<1>3. w[n] = v
  <2>1. n - n = 0 /\ 2^0 = 1 /\ v \div 1 = v
    OBVIOUS
  <2> QED
    BY <2>1
<1>4. \A i \in 1..n : w[i] = 2 * w[i - 1] + bits[i]
  <2> TAKE i \in 1..n
  <2> DEFINE k == n - i
             x == v \div 2^k
  <2>1. k \in Nat /\ k <= 14 /\ n - (i - 1) = k + 1
    OBVIOUS
  <2> HIDE DEF k
  <2>2. v \div 2^(k + 1) = x \div 2 /\ x \in Nat
    BY <2>1, Halves
  <2>3. w[i - 1] = x \div 2
    <3>1. i - 1 \in 0..n
      OBVIOUS
    <3>2. w[i - 1] = v \div 2^(n - (i - 1))
      BY <3>1
    <3> HIDE DEF w, x
    <3> QED
      BY <2>1, <2>2, <3>2
  <2>4. w[i] = x
    BY DEF k
  <2>5. bits[i] = x % 2
    BY DEF Bits, k
  <2> HIDE DEF w, x, bits
  <2>6. x = 2 * (x \div 2) + (x % 2)
    BY <2>2
  <2> QED
    BY <2>3, <2>4, <2>5, <2>6
<1> HIDE DEF bits
<1>5. Is(w)
  <2>1. w = [i \in 0..n |-> IF i = 0 THEN 0 ELSE 2 * w[i - 1] + bits[i]]
    <3>1. \A i \in 0..n : w[i] = IF i = 0 THEN 0 ELSE 2 * w[i - 1] + bits[i]
      <4> HIDE DEF w
      <4> QED
        BY <1>2, <1>4
    <3>2. w = [i \in 0..n |-> w[i]]
      OBVIOUS
    <3> HIDE DEF w
    <3> QED
      BY <3>1, <3>2
  <2> QED
    BY <1>1, <2>1
<1>6. Is(value)
  <2> HIDE DEF Is
  <2> QED
    BY <1>5
<1>7. value[n] = w[n]
  <2> DEFINE T == {i \in Nat : value[i] = w[i]}
  <2>1. /\ value[0] = 0 /\ \A i \in 0..(n - 1) : value[i + 1] = 2 * value[i] + bits[i + 1]
    <3> HIDE DEF value
    <3> QED
      BY <1>1, <1>6
  <2>2. /\ w[0] = 0 /\ \A i \in 0..(n - 1) : w[i + 1] = 2 * w[i] + bits[i + 1]
    <3> HIDE DEF w
    <3>1. \A i \in 0..(n - 1) : i + 1 \in 1..n /\ (i + 1) - 1 = i
      OBVIOUS
    <3> QED
      BY <1>2, <1>4, <3>1
  <2> HIDE DEF value, w
  <2>3. 0 \in T /\ \A i \in 0..(n - 1) : i \in T => i + 1 \in T
    BY <2>1, <2>2
  <2>4. 0..n \subseteq T
    <3> HIDE DEF T
    <3> QED
      BY <2>3, InductionTo
  <2> QED
    BY <2>4
<1>8. Value(bits) = value[n]
  BY <1>1 DEF Value
<1> QED
  BY <1>3, <1>7, <1>8 DEF bits

-----------------------------------------------------------------------------
(* Prefixes of the data.                                                   *)

Prefix(s, m) == SubSeq(s, 1, m)

LEMMA PrefixElements ==
    ASSUME NEW s \in Seq(Byte), NEW m \in Nat, m <= Len(s)
    PROVE  /\ Prefix(s, m) \in Seq(Byte) /\ Len(Prefix(s, m)) = m
           /\ \A i \in 1..m : Prefix(s, m)[i] = s[i]
<1> DEFINE S == Byte
<1>1. s \in Seq(S)
  OBVIOUS
<1> HIDE DEF S
<1>2. SubSeq(s, 1, m) \in Seq(S) /\ Len(SubSeq(s, 1, m)) = m /\ \A i \in 1..m : SubSeq(s, 1, m)[i] = s[i]
  BY <1>1, SubSeqProperties
<1> QED
  BY <1>2 DEF Prefix, S

\* The next byte.
LEMMA PrefixAppend ==
    ASSUME NEW s \in Seq(Byte), NEW m \in Nat, m < Len(s)
    PROVE  Append(Prefix(s, m), s[m + 1]) = Prefix(s, m + 1)
<1> DEFINE p == Prefix(s, m)
           q == Prefix(s, m + 1)
           a == Append(p, s[m + 1])
<1>0. Len(s) \in Nat
  BY LenProperties
<1>1. p \in Seq(Byte) /\ Len(p) = m /\ \A i \in 1..m : p[i] = s[i]
  BY <1>0, PrefixElements
<1>2. q \in Seq(Byte) /\ Len(q) = m + 1 /\ \A i \in 1..(m + 1) : q[i] = s[i]
  BY <1>0, PrefixElements
<1>3. s[m + 1] \in Byte
  <2>1. m + 1 \in 1..Len(s)
    BY <1>0
  <2> QED
    BY <2>1, ElementOfSeq
<1> HIDE DEF p, q
<1>4. /\ a \in Seq(Byte) /\ Len(a) = m + 1
      /\ \A i \in 1..m : a[i] = p[i]
      /\ a[m + 1] = s[m + 1]
  BY <1>1, <1>3, AppendProperties
<1> HIDE DEF a
<1>5. \A i \in 1..(m + 1) : a[i] = q[i]
  BY <1>1, <1>2, <1>4
<1>6. a = q
  BY <1>2, <1>4, <1>5, SeqEqual
<1> QED
  BY <1>6 DEF a, p, q

\* Bytes that repeat what lies a distance before them are copied from there,
\* from zeros where the distance reaches before the data.
LEMMA CopiedFrom ==
    ASSUME NEW s \in Seq(Byte), NEW m \in Nat, NEW d \in Nat, d >= 1, NEW n \in Nat, m + n <= Len(s),
           \A i \in 1..n : s[m + i] = At(s, m + i - d)
    PROVE  Copied(Prefix(s, m), d, n) = Prefix(s, m + n)
<1> DEFINE p == Prefix(s, m)
           Grow(x, i) == Append(x, At(x, Len(p) + i - d))
           Is(f) == f = [i \in 0..n |-> IF i = 0 THEN p ELSE Grow(f[i - 1], i)]
           copy == CHOOSE f : Is(f)
           w == [i \in 0..n |-> Prefix(s, m + i)]
<1>0. Len(s) \in Nat
  BY LenProperties
<1>1. Len(p) = m
  BY <1>0, PrefixElements
<1>2. w[0] = p
  <2>1. m + 0 = m
    OBVIOUS
  <2> QED
    BY <2>1
<1>3. \A i \in 1..n : w[i] = Grow(w[i - 1], i)
  <2> TAKE i \in 1..n
  <2> DEFINE j == m + (i - 1)
             q == Prefix(s, j)
  <2>1. j \in Nat /\ j < Len(s) /\ j + 1 = m + i /\ i - 1 \in 0..n
    BY <1>0
  <2>2. w[i - 1] = q /\ w[i] = Prefix(s, m + i)
    BY <2>1
  <2>3. \A l \in 1..j : q[l] = s[l]
    <3> HIDE DEF j
    <3>1. j <= Len(s)
      BY <1>0, <2>1
    <3> QED
      BY <2>1, <3>1, PrefixElements
  <2>4. At(q, m + i - d) = At(s, m + i - d)
    <3> HIDE DEF q, j
    <3>1. CASE m + i - d < 1
      BY <3>1 DEF At
    <3>2. CASE m + i - d >= 1
      <4>1. m + i - d \in 1..j
        BY <2>1, <3>2
      <4>2. ~(m + i - d < 1)
        BY <3>2
      <4> QED
        BY <2>3, <4>1, <4>2 DEF At
    <3> QED
      BY <3>1, <3>2
  <2>5. At(q, m + i - d) = s[j + 1]
    BY <2>1, <2>4
  <2>6. Append(q, s[j + 1]) = Prefix(s, j + 1)
    <3> HIDE DEF j
    <3> QED
      BY <1>0, <2>1, PrefixAppend
  <2> HIDE DEF w, p, q, j
  <2> QED
    BY <1>1, <2>1, <2>2, <2>5, <2>6
<1>7. Copied(p, d, n) = copy[n]
  BY DEF Copied
<1> HIDE DEF p, Grow
<1>4. Is(w)
  <2>1. \A i \in 0..n : w[i] = IF i = 0 THEN p ELSE Grow(w[i - 1], i)
    <3> HIDE DEF w
    <3> QED
      BY <1>2, <1>3
  <2>2. w = [i \in 0..n |-> w[i]]
    OBVIOUS
  <2> HIDE DEF w
  <2> QED
    BY <2>1, <2>2
<1>5. Is(copy)
  <2> HIDE DEF Is
  <2> QED
    BY <1>4
<1>6. copy[n] = w[n]
  <2> DEFINE T == {i \in Nat : copy[i] = w[i]}
  <2>1. /\ copy[0] = p
        /\ \A i \in 1..n : copy[i] = Grow(copy[i - 1], i)
    <3> HIDE DEF copy
    <3> QED
      BY <1>5
  <2> HIDE DEF copy, w
  <2>2. \A i \in 0..(n - 1) : i \in T => i + 1 \in T
    <3> TAKE i \in 0..(n - 1)
    <3>1. i + 1 \in 1..n /\ (i + 1) - 1 = i
      OBVIOUS
    <3> DEFINE k == i + 1
    <3> HIDE DEF k
    <3>2. k \in 1..n /\ k - 1 = i
      BY <3>1 DEF k
    <3>3. copy[i] = w[i] => copy[k] = w[k]
      BY <1>3, <2>1, <3>2
    <3> QED
      BY <3>3 DEF k
  <2>3. 0 \in T
    BY <1>2, <2>1
  <2>4. 0..n \subseteq T
    <3> HIDE DEF T
    <3> QED
      BY <2>2, <2>3, InductionTo
  <2> QED
    BY <2>4
<1>8. w[n] = Prefix(s, m + n)
  OBVIOUS
<1> QED
  BY <1>6, <1>7, <1>8 DEF p

\* Data with more data behind.
Appended(s, t) ==
    /\ s \o t \in Seq(Byte) /\ Len(s \o t) = Len(s) + Len(t)
    /\ \A i \in 1..Len(s) : (s \o t)[i] = s[i]
    /\ \A i \in 1..Len(t) : (s \o t)[Len(s) + i] = t[i]

LEMMA AppendedBytes ==
    ASSUME NEW s \in Seq(Byte), NEW t \in Seq(Byte)
    PROVE  Appended(s, t)
<1> DEFINE u == s \o t
           l == Len(s)
           n == Len(t)
<1>1. /\ u \in Seq(Byte) /\ Len(u) = l + n /\ l \in Nat /\ n \in Nat
      /\ \A i \in 1..(l + n) : u[i] = IF i <= l THEN s[i] ELSE t[i - l]
  <2> DEFINE S == Byte
  <2>1. s \in Seq(S) /\ t \in Seq(S)
    OBVIOUS
  <2> HIDE DEF S
  <2>2. /\ u \in Seq(S) /\ Len(u) = l + n
        /\ \A i \in 1..(l + n) : u[i] = IF i <= l THEN s[i] ELSE t[i - l]
    BY <2>1, ConcatProperties
  <2> QED
    BY <2>1, <2>2, LenProperties DEF S
<1> HIDE DEF u, l, n
<1>2. \A i \in 1..l : u[i] = s[i]
  BY <1>1
<1>3. \A i \in 1..n : u[l + i] = t[i]
  <2> TAKE i \in 1..n
  <2>1. l + i \in 1..(l + n) /\ ~(l + i <= l) /\ (l + i) - l = i
    BY <1>1
  <2> QED
    BY <1>1, <2>1
<1> QED
  BY <1>1, <1>2, <1>3 DEF Appended, u, l, n

-----------------------------------------------------------------------------
(* The decoder, a token at a time.                                         *)

Start == [pos |-> 0, bytes |-> <<>>]
Field(bits, pos, n) == Value(SubSeq(bits, pos + 1, pos + n))
TokenSize(bits, pos) == IF bits[pos + 1] = 1 THEN 9 ELSE 1 + WindowBits + LookaheadBits
Whole(bits, pos) == pos < Len(bits) /\ pos + TokenSize(bits, pos) <= Len(bits)
Token(bits, d) ==
    [pos |-> d.pos + TokenSize(bits, d.pos),
     bytes |-> IF bits[d.pos + 1] = 1
               THEN Append(d.bytes, Field(bits, d.pos + 1, 8))
               ELSE Copied(d.bytes, Field(bits, d.pos + 1, WindowBits) + 1,
                           Field(bits, d.pos + 1 + WindowBits, LookaheadBits) + 1)]

\* f is what the decoder has after each of the first n tokens of bits.
Run(bits, f, n) ==
    /\ f[0] = Start
    /\ \A k \in 0..n : f[k].pos \in Nat
    /\ \A k \in 0..(n - 1) : Whole(bits, f[k].pos) /\ f[k + 1] = Token(bits, f[k])

\* bits are whole tokens, which decode to bytes.
Encodes(bits, bytes) ==
    /\ bits \in Seq(Bit)
    /\ \E n \in Nat : \E f : Run(bits, f, n) /\ f[n] = [pos |-> Len(bits), bytes |-> bytes]

LEMMA TokenSizes == ASSUME NEW bits, NEW pos PROVE TokenSize(bits, pos) \in Nat /\ TokenSize(bits, pos) >= 8
BY Sizes DEF TokenSize

LEMMA EncodesNothing == Encodes(<<>>, <<>>)
<1> DEFINE bits == <<>>
           f == [k \in 0..0 |-> Start]
<1>1. bits \in Seq(Bit) /\ Len(bits) = 0
  OBVIOUS
<1>2. Run(bits, f, 0)
  BY DEF Run, Start
<1>3. f[0] = [pos |-> 0, bytes |-> <<>>]
  BY DEF Start
<1> QED
  BY <1>1, <1>2, <1>3 DEF Encodes

\* A run takes at least eight bits for a token.
LEMMA RunLength ==
    ASSUME NEW bits, NEW n \in Nat, NEW f, Run(bits, f, n)
    PROVE  f[n].pos >= 8 * n
<1> DEFINE T == {k \in Nat : f[k].pos >= 8 * k}
<1>1. 0 \in T
  BY DEF Run, Start
<1>2. \A k \in 0..(n - 1) : k \in T => k + 1 \in T
  <2> TAKE k \in 0..(n - 1)
  <2>1. f[k + 1] = Token(bits, f[k]) /\ f[k].pos \in Nat
    BY DEF Run
  <2>2. f[k + 1].pos = f[k].pos + TokenSize(bits, f[k].pos)
    BY <2>1 DEF Token
  <2> QED
    BY <2>1, <2>2, TokenSizes
<1>3. 0..n \subseteq T
  <2> HIDE DEF T
  <2> QED
    BY <1>1, <1>2, InductionTo
<1> QED
  BY <1>3

\* What follows changes no token read before.
LEMMA FieldGrows ==
    ASSUME NEW s \in Seq(Bit), NEW t \in Seq(Bit), NEW pos \in Nat, NEW n \in Nat, pos + n <= Len(s)
    PROVE  Field(s \o t, pos, n) = Field(s, pos, n)
<1> DEFINE u == s \o t
           a == SubSeq(s, pos + 1, pos + n)
           b == SubSeq(u, pos + 1, pos + n)
<1>1. u \in Seq(Bit) /\ Len(u) = Len(s) + Len(t) /\ Len(s) \in Nat /\ Len(t) \in Nat
      /\ \A i \in 1..Len(s) : u[i] = s[i]
  BY Concat, ConcatProperties
<1>2. a \in Seq(Bit) /\ Len(a) = n /\ \A i \in 1..n : a[i] = s[pos + i]
  <2>1. \A i \in 1..n : (pos + 1) + i - 1 = pos + i
    OBVIOUS
  <2> QED
    BY <1>1, <2>1, SubSeqProperties
<1> HIDE DEF u
<1>3. b \in Seq(Bit) /\ Len(b) = n /\ \A i \in 1..n : b[i] = u[pos + i]
  BY <1>1, SubSeqProperties
<1> HIDE DEF a, b
<1>4. \A i \in 1..n : a[i] = b[i]
  <2> TAKE i \in 1..n
  <2> DEFINE j == pos + i
  <2>1. j \in 1..Len(s)
    BY <1>1
  <2>2. a[i] = s[j] /\ b[i] = u[j]
    BY <1>2, <1>3
  <2> HIDE DEF j
  <2> QED
    BY <1>1, <2>1, <2>2
<1>5. a = b
  BY <1>2, <1>3, <1>4, SeqEqual
<1> QED
  BY <1>5 DEF a, b, u, Field

LEMMA TokenGrows ==
    ASSUME NEW s \in Seq(Bit), NEW t \in Seq(Bit), NEW d, d.pos \in Nat, Whole(s, d.pos)
    PROVE  Whole(s \o t, d.pos) /\ Token(s \o t, d) = Token(s, d)
<1> DEFINE u == s \o t
           pos == d.pos
<1>1. u \in Seq(Bit) /\ Len(u) = Len(s) + Len(t) /\ Len(s) \in Nat /\ Len(t) \in Nat
      /\ \A i \in 1..Len(s) : u[i] = s[i]
  BY Concat, ConcatProperties
<1>2. pos \in Nat /\ pos < Len(s) /\ pos + TokenSize(s, pos) <= Len(s)
  BY DEF Whole
<1> HIDE DEF u, pos
<1>3. u[pos + 1] = s[pos + 1]
  <2>1. pos + 1 \in 1..Len(s)
    BY <1>1, <1>2
  <2> QED
    BY <1>1, <2>1
<1>4. TokenSize(u, pos) = TokenSize(s, pos)
  BY <1>3 DEF TokenSize
<1>5. Whole(u, pos)
  BY <1>1, <1>2, <1>4, TokenSizes DEF Whole
<1>6. CASE s[pos + 1] = 1
  <2>1. pos + 1 \in Nat /\ pos + 1 + 8 <= Len(s)
    BY <1>1, <1>2, <1>6 DEF TokenSize
  <2>2. Field(u, pos + 1, 8) = Field(s, pos + 1, 8)
    <3> DEFINE p == pos + 1
               n == 8
    <3>1. p \in Nat /\ n \in Nat /\ p + n <= Len(s)
      BY <2>1
    <3> HIDE DEF p, n
    <3>2. Field(u, p, n) = Field(s, p, n)
      BY <3>1, FieldGrows DEF u
    <3> QED
      BY <3>2 DEF p, n
  <2> QED
    BY <1>3, <1>4, <1>5, <1>6, <2>2 DEF Token, u, pos
<1>7. CASE s[pos + 1] # 1
  <2>1. pos + 1 + WindowBits + LookaheadBits <= Len(s)
    BY <1>1, <1>2, <1>7, Sizes DEF TokenSize
  <2>2. Field(u, pos + 1, WindowBits) = Field(s, pos + 1, WindowBits)
    <3> DEFINE p == pos + 1
    <3>1. p \in Nat /\ p + WindowBits <= Len(s)
      BY <1>1, <1>2, <2>1, Sizes
    <3> HIDE DEF p
    <3>2. Field(u, p, WindowBits) = Field(s, p, WindowBits)
      BY <3>1, Sizes, FieldGrows DEF u
    <3> QED
      BY <3>2 DEF p
  <2>3. Field(u, pos + 1 + WindowBits, LookaheadBits) = Field(s, pos + 1 + WindowBits, LookaheadBits)
    <3> DEFINE p == pos + 1 + WindowBits
    <3>1. p \in Nat /\ p + LookaheadBits <= Len(s)
      BY <1>1, <1>2, <2>1, Sizes
    <3> HIDE DEF p
    <3>2. Field(u, p, LookaheadBits) = Field(s, p, LookaheadBits)
      BY <3>1, Sizes, FieldGrows DEF u
    <3> QED
      BY <3>2 DEF p
  <2> QED
    BY <1>3, <1>4, <1>5, <1>7, <2>2, <2>3 DEF Token, u, pos
<1> QED
  BY <1>6, <1>7

LEMMA RunGrows ==
    ASSUME NEW s \in Seq(Bit), NEW t \in Seq(Bit), NEW n \in Nat, NEW f, Run(s, f, n)
    PROVE  Run(s \o t, f, n)
<1>1. \A k \in 0..(n - 1) : f[k].pos \in Nat /\ Whole(s, f[k].pos) /\ f[k + 1] = Token(s, f[k])
  BY DEF Run
<1>2. \A k \in 0..(n - 1) : Whole(s \o t, f[k].pos) /\ f[k + 1] = Token(s \o t, f[k])
  BY <1>1, TokenGrows
<1> QED
  BY <1>2 DEF Run

\* What follows whole tokens, if it is no whole token, is ignored.
LEMMA DecodeReads ==
    ASSUME NEW s, NEW b, Encodes(s, b), NEW t \in Seq(Bit), ~Whole(s \o t, Len(s))
    PROVE  Decode(s \o t) = b
<1> DEFINE bits == s \o t
           Read(d) == IF d.pos >= Len(bits) THEN d
                      ELSE IF d.pos + TokenSize(bits, d.pos) > Len(bits) THEN d ELSE Token(bits, d)
           Is(g) == g = [k \in 0..Len(bits) |-> IF k = 0 THEN Start ELSE Read(g[k - 1])]
           after == CHOOSE g : Is(g)
<1>0. s \in Seq(Bit)
  BY DEF Encodes
<1>1. bits \in Seq(Bit) /\ Len(bits) = Len(s) + Len(t) /\ Len(s) \in Nat /\ Len(t) \in Nat
  BY <1>0, Concat
<1> PICK n \in Nat : \E f : Run(s, f, n) /\ f[n] = [pos |-> Len(s), bytes |-> b]
  BY DEF Encodes
<1>2. PICK f : Run(s, f, n) /\ f[n] = [pos |-> Len(s), bytes |-> b]
  OBVIOUS
<1>3. Run(bits, f, n)
  BY <1>0, <1>2, RunGrows
<1>4. n <= Len(bits) \div 8 /\ Len(bits) \div 8 \in Nat /\ Len(bits) \div 8 <= Len(bits)
  <2>1. f[n].pos = Len(s) /\ f[n].pos >= 8 * n
    BY <1>2, RunLength
  <2> HIDE DEF bits
  <2> QED
    BY <1>1, <2>1
<1>5. Decode(bits) = after[Len(bits) \div 8].bytes
  BY DEF Decode, Start, TokenSize, Token, Field
<1>6. \A k \in 0..(n - 1) : f[k + 1] = Read(f[k])
  <2> TAKE k \in 0..(n - 1)
  <2>1. Whole(bits, f[k].pos) /\ f[k + 1] = Token(bits, f[k]) /\ f[k].pos \in Nat
    BY <1>3 DEF Run
  <2>2. TokenSize(bits, f[k].pos) \in Nat
    BY TokenSizes
  <2> HIDE DEF bits
  <2> QED
    BY <1>1, <2>1, <2>2 DEF Whole
<1>7. Read(f[n]) = f[n]
  <2>1. f[n].pos = Len(s) /\ ~Whole(bits, f[n].pos)
    BY <1>2
  <2>2. TokenSize(bits, f[n].pos) \in Nat
    BY TokenSizes
  <2> HIDE DEF bits
  <2> QED
    BY <1>1, <2>1, <2>2 DEF Whole
<1>8. f[0] = Start
  BY <1>3 DEF Run
<1> HIDE DEF bits, Read
<1> DEFINE g == [k \in 0..Len(bits) |-> IF k <= n THEN f[k] ELSE f[n]]
           m == Len(bits)
<1>9. m \in Nat /\ n <= m
  BY <1>1, <1>4
<1>10. g[0] = Start /\ \A k \in 1..m : g[k] = Read(g[k - 1])
  <2>1. g[0] = Start
    BY <1>8, <1>9
  <2>2. ASSUME NEW k \in 1..m PROVE g[k] = Read(g[k - 1])
    <3>1. k - 1 \in 0..m /\ k \in 0..m
      BY <1>9
    <3>2. CASE k <= n
      <4>1. k - 1 \in 0..(n - 1) /\ (k - 1) + 1 = k
        BY <3>2
      <4>2. g[k] = f[k] /\ g[k - 1] = f[k - 1]
        BY <3>1, <3>2
      <4> HIDE DEF g
      <4>3. f[k] = Read(f[k - 1])
        BY <1>6, <4>1
      <4> QED
        BY <4>2, <4>3
    <3>3. CASE k > n
      <4>1. g[k] = f[n] /\ g[k - 1] = f[n]
        BY <3>1, <3>3
      <4> HIDE DEF g
      <4> QED
        BY <1>7, <4>1
    <3> QED
      BY <3>2, <3>3
  <2> QED
    BY <2>1, <2>2
<1>11. Is(g)
  <2>1. \A k \in 0..m : g[k] = IF k = 0 THEN Start ELSE Read(g[k - 1])
    <3> HIDE DEF g, m
    <3> QED
      BY <1>9, <1>10
  <2>2. g = [k \in 0..m |-> g[k]]
    OBVIOUS
  <2>3. g = [k \in 0..m |-> IF k = 0 THEN Start ELSE Read(g[k - 1])]
    <3> HIDE DEF g, m
    <3> QED
      BY <2>1, <2>2
  <2> QED
    BY <2>3
<1>12. Is(after)
  <2> HIDE DEF Is
  <2> QED
    BY <1>11
<1>13. 0..m \subseteq {k \in Nat : after[k] = g[k]}
  <2> DEFINE T == {k \in Nat : after[k] = g[k]}
  <2>1. after[0] = Start /\ \A k \in 1..m : after[k] = Read(after[k - 1])
    <3>1. after = [k \in 0..m |-> IF k = 0 THEN Start ELSE Read(after[k - 1])]
      BY <1>12
    <3> HIDE DEF after, m
    <3> QED
      BY <1>9, <3>1
  <2> HIDE DEF after, g, m
  <2>2. \A k \in 0..(m - 1) : k \in T => k + 1 \in T
    <3> TAKE k \in 0..(m - 1)
    <3> DEFINE l == k + 1
    <3>1. l \in 1..m /\ l - 1 = k
      BY <1>9
    <3> HIDE DEF l
    <3>2. after[k] = g[k] => after[l] = g[l]
      BY <1>10, <2>1, <3>1
    <3> QED
      BY <3>2 DEF l
  <2>3. 0 \in T
    BY <1>10, <2>1
  <2> HIDE DEF T
  <2>4. 0..m \subseteq T
    BY <1>9, <2>2, <2>3, InductionTo
  <2> QED
    BY <2>4 DEF T
<1>14. after[Len(bits) \div 8] = f[n]
  <2> DEFINE k == Len(bits) \div 8
  <2>1. k \in 0..m /\ n <= k
    BY <1>4
  <2> HIDE DEF k
  <2>2. g[k] = f[n]
    BY <2>1
  <2> HIDE DEF after, g, m
  <2>3. after[k] = g[k]
    BY <1>13, <2>1
  <2> QED
    BY <2>2, <2>3 DEF k
<1>15. f[n].bytes = b
  BY <1>2
<1> QED
  BY <1>5, <1>14, <1>15 DEF bits

\* A token more.
LEMMA EncodesMore ==
    ASSUME NEW s, NEW b, Encodes(s, b), NEW t \in Seq(Bit), Len(t) >= 1,
           TokenSize(s \o t, Len(s)) = Len(t), NEW c,
           Token(s \o t, [pos |-> Len(s), bytes |-> b]).bytes = c
    PROVE  Encodes(s \o t, c)
<1> DEFINE bits == s \o t
           last == [pos |-> Len(s), bytes |-> b]
           token == Token(bits, last)
<1>0. s \in Seq(Bit)
  BY DEF Encodes
<1>1. bits \in Seq(Bit) /\ Len(bits) = Len(s) + Len(t) /\ Len(s) \in Nat /\ Len(t) \in Nat
  BY <1>0, Concat
<1> PICK n \in Nat : \E f : Run(s, f, n) /\ f[n] = last
  BY DEF Encodes
<1>2. PICK f : Run(s, f, n) /\ f[n] = last
  OBVIOUS
<1>3. Run(bits, f, n)
  BY <1>0, <1>2, RunGrows
<1>4. last.pos = Len(s) /\ Whole(bits, last.pos)
  BY <1>1 DEF Whole
<1>5. token = [pos |-> Len(bits), bytes |-> c]
  <2>1. token.pos = Len(bits)
    BY <1>1, <1>4 DEF Token
  <2>2. token = [pos |-> token.pos, bytes |-> token.bytes]
    BY DEF Token
  <2> QED
    BY <2>1, <2>2
<1> HIDE DEF bits, last, token
<1> DEFINE g == [k \in 0..(n + 1) |-> IF k <= n THEN f[k] ELSE token]
<1>6. /\ f[0] = Start
      /\ \A k \in 0..n : f[k].pos \in Nat
      /\ \A k \in 0..(n - 1) : Whole(bits, f[k].pos) /\ f[k + 1] = Token(bits, f[k])
  BY <1>3 DEF Run
<1>7. g[n + 1] = token /\ \A k \in 0..n : g[k] = f[k]
  OBVIOUS
<1> HIDE DEF g
<1>8. \A k \in 0..(n + 1) : g[k].pos \in Nat
  <2>1. token.pos \in Nat
    BY <1>1, <1>5
  <2> TAKE k \in 0..(n + 1)
  <2>2. CASE k \in 0..n
    BY <1>6, <1>7, <2>2
  <2>3. CASE k = n + 1
    BY <1>7, <2>1, <2>3
  <2> QED
    BY <2>2, <2>3
<1>9. \A k \in 0..n : Whole(bits, g[k].pos) /\ g[k + 1] = Token(bits, g[k])
  <2> TAKE k \in 0..n
  <2>1. CASE k < n
    BY <1>6, <1>7, <2>1
  <2>2. CASE k = n
    BY <1>2, <1>4, <1>7, <2>2 DEF token
  <2> QED
    BY <2>1, <2>2
<1>10. Run(bits, g, n + 1)
  <2>1. (n + 1) - 1 = n /\ 0 \in 0..n
    OBVIOUS
  <2> QED
    BY <1>6, <1>7, <1>8, <1>9, <2>1 DEF Run
<1> QED
  <2>1. g[n + 1] = [pos |-> Len(bits), bytes |-> c]
    BY <1>5, <1>7
  <2> DEFINE m == n + 1
  <2>2. m \in Nat /\ Run(bits, g, m) /\ g[m] = [pos |-> Len(bits), bytes |-> c]
    BY <1>10, <2>1
  <2> HIDE DEF m
  <2>3. Encodes(bits, c)
    BY <1>1, <2>2 DEF Encodes
  <2> QED
    BY <2>3 DEF bits

LEMMA ConcatEnd ==
    ASSUME NEW s \in Seq(Bit), NEW x \in Seq(Bit)
    PROVE  \A i \in 1..Len(x) : (s \o x)[Len(s) + i] = x[i]
<1> DEFINE l == Len(s)
           n == Len(x)
<1>1. \A i \in 1..(l + n) : (s \o x)[i] = IF i <= l THEN s[i] ELSE x[i - l]
  BY ConcatProperties
<1>2. l \in Nat /\ n \in Nat
  BY LenProperties
<1> SUFFICES \A i \in 1..n : (s \o x)[l + i] = x[i]
  OBVIOUS
<1> HIDE DEF l, n
<1> TAKE i \in 1..n
<1>3. l + i \in 1..(l + n) /\ ~(l + i <= l) /\ (l + i) - l = i
  BY <1>2
<1> QED
  BY <1>1, <1>3

\* A field in the middle of a stream.
LEMMA FieldOf ==
    ASSUME NEW s \in Seq(Bit), NEW t \in Seq(Bit), NEW u \in Seq(Bit)
    PROVE  Field(s \o (t \o u), Len(s), Len(t)) = Value(t)
<1> DEFINE x == t \o u
           y == s \o x
           n == Len(t)
           l == Len(s)
           f == SubSeq(y, l + 1, l + n)
<1>1. /\ x \in Seq(Bit) /\ Len(x) = n + Len(u) /\ n \in Nat /\ Len(u) \in Nat
      /\ \A i \in 1..n : x[i] = t[i]
  BY Concat, ConcatProperties
<1> HIDE DEF x
<1>2. /\ y \in Seq(Bit) /\ Len(y) = l + Len(x) /\ l \in Nat
      /\ \A i \in 1..Len(x) : y[l + i] = x[i]
  BY <1>1, Concat, ConcatEnd
<1> HIDE DEF y, l, n
<1>3. f \in Seq(Bit) /\ Len(f) = n /\ \A i \in 1..n : f[i] = y[l + i]
  <2>1. \A i \in (l + 1)..(l + n) : y[i] \in Bit
    <3> TAKE i \in (l + 1)..(l + n)
    <3>1. i \in 1..Len(y)
      BY <1>1, <1>2
    <3> QED
      BY <1>2, <3>1, ElementOfSeq
  <2> DEFINE a == l + 1
             b == l + n
  <2>2. a \in Int /\ b \in Int /\ \A i \in a..b : y[i] \in Bit
    BY <1>1, <1>2, <2>1
  <2>3. b - a + 1 = n /\ \A i \in 1..n : a + i - 1 = l + i
    BY <1>1, <1>2
  <2>4. IF a <= b THEN b - a + 1 = n ELSE n = 0
    BY <1>1, <1>2
  <2> HIDE DEF a, b
  <2>5. /\ SubSeq(y, a, b) \in Seq(Bit)
        /\ Len(SubSeq(y, a, b)) = IF a <= b THEN b - a + 1 ELSE 0
        /\ \A i \in 1..(b - a + 1) : SubSeq(y, a, b)[i] = y[a + i - 1]
    BY <2>2, SubSeqProperties
  <2>6. SubSeq(y, a, b) \in Seq(Bit) /\ Len(SubSeq(y, a, b)) = n
        /\ \A i \in 1..n : SubSeq(y, a, b)[i] = y[l + i]
    BY <2>3, <2>4, <2>5
  <2> QED
    BY <2>6 DEF a, b
<1> HIDE DEF f
<1>4. \A i \in 1..n : f[i] = t[i]
  BY <1>1, <1>2, <1>3
<1>5. f = t
  BY <1>3, <1>4, SeqEqual DEF n
<1> QED
  BY <1>5 DEF Field, f, y, x, l, n

\* The tag of a token decides its size.
Tagged(s, tag, x) ==
    /\ (s \o (tag \o x))[Len(s) + 1] = tag[1]
    /\ tag \o x \in Seq(Bit) /\ Len(tag \o x) = 1 + Len(x)
    /\ s \o tag \in Seq(Bit) /\ Len(s \o tag) = Len(s) + 1
    /\ s \o (tag \o x) = (s \o tag) \o x

LEMMA TagRead ==
    ASSUME NEW s \in Seq(Bit), NEW tag \in Seq(Bit), Len(tag) = 1, NEW x \in Seq(Bit)
    PROVE  Tagged(s, tag, x)
<1> DEFINE t == tag \o x
<1>1. t \in Seq(Bit) /\ Len(t) = 1 + Len(x) /\ Len(x) \in Nat
  BY Concat
<1>2. t[1] = tag[1]
  <2>1. 1 \in 1..(Len(tag) + Len(x)) /\ 1 <= Len(tag)
    BY <1>1
  <2> QED
    BY <2>1, ConcatProperties
<1>3. s \o tag \in Seq(Bit) /\ Len(s \o tag) = Len(s) + 1
  <2>1. s \o tag \in Seq(Bit) /\ Len(s \o tag) = Len(s) + Len(tag)
    BY Concat
  <2> QED
    BY <2>1
<1>4. s \o t = (s \o tag) \o x
  BY Associative
<1> HIDE DEF t
<1>5. (s \o t)[Len(s) + 1] = t[1]
  <2>1. 1 \in 1..Len(t)
    BY <1>1
  <2> QED
    BY <1>1, <2>1, ConcatEnd
<1> QED
  BY <1>1, <1>2, <1>3, <1>4, <1>5 DEF t, Tagged

LEMMA EncodesLiteral ==
    ASSUME NEW s, NEW b, Encodes(s, b), NEW v \in Byte
    PROVE  Encodes(s \o (<<1>> \o Bits(v, 8)), Append(b, v))
<1> DEFINE tag == <<1>>
           x == Bits(v, 8)
           t == tag \o x
           y == s \o t
           l == Len(s)
<1>0. s \in Seq(Bit) /\ l \in Nat
  BY LenProperties DEF Encodes
<1>1. tag \in Seq(Bit) /\ Len(tag) = 1 /\ tag[1] = 1
  BY DEF Bit
<1>2. x \in Seq(Bit) /\ Len(x) = 8
  BY ByteBits DEF Byte
<1>3. Value(x) = v
  <2> DEFINE n == 8
  <2>1. n \in Nat /\ n <= 14 /\ v \in Nat /\ v < 2^n
    BY DEF Byte
  <2> HIDE DEF n
  <2>2. Value(Bits(v, n)) = v
    BY <2>1, ValueOfBits
  <2> QED
    BY <2>2 DEF n
<1> HIDE DEF tag, x, l
<1>4. /\ y[l + 1] = tag[1] /\ t \in Seq(Bit) /\ Len(t) = 1 + Len(x)
      /\ s \o tag \in Seq(Bit) /\ Len(s \o tag) = l + 1 /\ y = (s \o tag) \o x
  <2>1. Tagged(s, tag, x)
    BY <1>0, <1>1, <1>2, TagRead
  <2> QED
    BY <2>1 DEF Tagged, l
<1> HIDE DEF t, y
<1>5. TokenSize(y, l) = Len(t) /\ Len(t) >= 1 /\ Len(t) \in Nat
  <2>1. Len(t) = 9
    BY <1>2, <1>4
  <2>2. TokenSize(y, l) = 9
    BY <1>1, <1>4 DEF TokenSize
  <2>3. 9 \in Nat /\ 9 >= 1
    OBVIOUS
  <2> QED
    BY <2>1, <2>2, <2>3
<1>6. Field(y, l + 1, 8) = v
  <2> DEFINE z == s \o tag
             e == <<>>
  <2>1. z \in Seq(Bit) /\ Len(z) = l + 1 /\ y = z \o x /\ e \in Seq(Bit)
    BY <1>4
  <2>2. x \o e = x
    BY <1>2, Concat
  <2> HIDE DEF z, e
  <2>3. Field(z \o (x \o e), Len(z), Len(x)) = Value(x)
    BY <1>2, <2>1, FieldOf
  <2> QED
    BY <1>2, <1>3, <2>1, <2>2, <2>3
<1>7. Token(y, [pos |-> l, bytes |-> b]).bytes = Append(b, v)
  BY <1>1, <1>4, <1>6 DEF Token
<1>8. Encodes(y, Append(b, v))
  BY <1>4, <1>5, <1>7, EncodesMore DEF l, y
<1> QED
  BY <1>8 DEF y, t, x, tag

LEMMA EncodesReference ==
    ASSUME NEW s, NEW b, Encodes(s, b),
           NEW p \in Nat, p < Window, NEW q \in Nat, q < Lookahead
    PROVE  Encodes(s \o (<<0>> \o (Bits(p, WindowBits) \o Bits(q, LookaheadBits))),
                   Copied(b, p + 1, q + 1))
<1> DEFINE tag == <<0>>
           g == Bits(p, WindowBits)
           h == Bits(q, LookaheadBits)
           x == g \o h
           t == tag \o x
           y == s \o t
           l == Len(s)
           c == Copied(b, p + 1, q + 1)
<1>0. s \in Seq(Bit) /\ l \in Nat
  BY LenProperties DEF Encodes
<1>1. tag \in Seq(Bit) /\ Len(tag) = 1 /\ tag[1] = 0
  BY DEF Bit
<1>2. g \in Seq(Bit) /\ Len(g) = WindowBits /\ h \in Seq(Bit) /\ Len(h) = LookaheadBits
  BY BitsType, Sizes
<1>3. Value(g) = p /\ Value(h) = q
  BY ValueOfBits, Sizes DEF Window, Lookahead
<1> HIDE DEF tag, g, h, l, c
<1>4. x \in Seq(Bit) /\ Len(x) = WindowBits + LookaheadBits
  BY <1>2, Concat
<1> HIDE DEF x
<1>5. /\ y[l + 1] = tag[1] /\ t \in Seq(Bit) /\ Len(t) = 1 + Len(x)
      /\ s \o tag \in Seq(Bit) /\ Len(s \o tag) = l + 1 /\ y = (s \o tag) \o x
  <2>1. Tagged(s, tag, x)
    BY <1>0, <1>1, <1>4, TagRead
  <2> QED
    BY <2>1 DEF Tagged, l
<1> HIDE DEF t, y
<1>6. TokenSize(y, l) = Len(t) /\ Len(t) >= 1 /\ Len(t) \in Nat
  BY <1>1, <1>4, <1>5, Sizes DEF TokenSize
<1>7. Field(y, l + 1, WindowBits) = p
  <2> DEFINE z == s \o tag
  <2>1. z \in Seq(Bit) /\ Len(z) = l + 1 /\ y = z \o (g \o h)
    BY <1>5 DEF x
  <2> HIDE DEF z
  <2>2. Field(z \o (g \o h), Len(z), Len(g)) = Value(g)
    BY <1>2, <2>1, FieldOf
  <2> QED
    BY <1>2, <1>3, <2>1, <2>2
<1>8. Field(y, l + 1 + WindowBits, LookaheadBits) = q
  <2> DEFINE r == s \o tag
             z == r \o g
             e == <<>>
  <2>1. r \in Seq(Bit) /\ Len(r) = l + 1 /\ y = r \o (g \o h) /\ e \in Seq(Bit)
    BY <1>5 DEF x
  <2> HIDE DEF r, e
  <2>2. z \in Seq(Bit) /\ Len(z) = l + 1 + WindowBits
    <3>1. z \in Seq(Bit) /\ Len(z) = Len(r) + Len(g)
      BY <1>2, <2>1, Concat, Zenon
    <3> QED
      BY <1>2, <2>1, <3>1, Zenon
  <2>3. y = z \o h
    <3>1. (r \o g) \o h = r \o (g \o h)
      BY <1>2, <2>1, Associative, ZenonT(40)
    <3> QED
      BY <2>1, <3>1
  <2>4. h \o e = h
    <3>1. h \o <<>> = h
      BY <1>2, Concat
    <3> QED
      BY <3>1 DEF e
  <2> HIDE DEF z
  <2>5. Field(z \o (h \o e), Len(z), Len(h)) = Value(h)
    BY <1>2, <2>1, <2>2, FieldOf
  <2> QED
    BY <1>2, <1>3, <2>2, <2>3, <2>4, <2>5
<1>9. Token(y, [pos |-> l, bytes |-> b]).bytes = c
  <2> DEFINE d == [pos |-> l, bytes |-> b]
  <2>1. d.pos = l /\ d.bytes = b /\ y[l + 1] # 1
    BY <1>1, <1>5
  <2> HIDE DEF d
  <2>2. Token(y, d).bytes = Copied(b, Field(y, l + 1, WindowBits) + 1,
                                  Field(y, l + 1 + WindowBits, LookaheadBits) + 1)
    BY <2>1 DEF Token
  <2> QED
    BY <1>7, <1>8, <2>2 DEF c, d
<1>10. Encodes(y, c)
  BY <1>5, <1>6, <1>9, EncodesMore DEF l, y
<1> QED
  BY <1>10 DEF y, t, x, tag, g, h, c

\* Bits that are no whole token after s.
LEMMA NotWhole ==
    ASSUME NEW s \in Seq(Bit), NEW t \in Seq(Bit),
           \/ Len(t) < 8
           \/ Len(t) >= 1 /\ t[1] = 0 /\ Len(t) < 1 + WindowBits + LookaheadBits
    PROVE  ~Whole(s \o t, Len(s))
<1> DEFINE y == s \o t
<1>1. y \in Seq(Bit) /\ Len(y) = Len(s) + Len(t) /\ Len(s) \in Nat /\ Len(t) \in Nat
      /\ \A i \in 1..Len(t) : y[Len(s) + i] = t[i]
  BY Concat, ConcatEnd
<1> HIDE DEF y
<1>2. CASE Len(t) < 8
  BY <1>1, <1>2, TokenSizes DEF Whole, y
<1>3. CASE Len(t) >= 1 /\ t[1] = 0 /\ Len(t) < 1 + WindowBits + LookaheadBits
  <2>1. y[Len(s) + 1] = 0
    BY <1>1, <1>3
  <2>2. TokenSize(y, Len(s)) = 1 + WindowBits + LookaheadBits
    BY <2>1 DEF TokenSize
  <2> QED
    BY <1>1, <1>3, <2>2, Sizes DEF Whole, y
<1> QED
  BY <1>2, <1>3

LEMMA DecodesToPrefix ==
    ASSUME NEW s, NEW a \in Seq(Byte), NEW m \in Nat, m <= Len(a), Encodes(s, Prefix(a, m)),
           NEW t \in Seq(Bit), ~Whole(s \o t, Len(s))
    PROVE  IsPrefix(Decode(s \o t), a)
<1>1. Decode(s \o t) = Prefix(a, m)
  BY DecodeReads
<1>2. Len(Prefix(a, m)) = m
  BY PrefixElements
<1> QED
  BY <1>1, <1>2 DEF IsPrefix, Prefix

\* All of a sequence is a prefix of it.
LEMMA WholePrefix == ASSUME NEW s \in Seq(Byte) PROVE IsPrefix(s, s)
<1> DEFINE n == Len(s)
           p == Prefix(s, n)
<1>1. n \in Nat /\ n <= Len(s)
  BY LenProperties
<1>2. p \in Seq(Byte) /\ Len(p) = n /\ \A i \in 1..n : p[i] = s[i]
  <2> HIDE DEF n
  <2> QED
    BY <1>1, PrefixElements
<1>3. p = s
  <2> DEFINE S == Byte
  <2>1. p \in Seq(S) /\ s \in Seq(S) /\ Len(p) = Len(s) /\ \A i \in 1..Len(p) : p[i] = s[i]
    BY <1>2
  <2> HIDE DEF S, p
  <2> QED
    BY <2>1, SeqEqual
<1> QED
  BY <1>1, <1>3 DEF IsPrefix, Prefix

LEMMA WholeBits == ASSUME NEW s \in Seq(Bit) PROVE SubSeq(s, 1, Len(s)) = s
<1> DEFINE n == Len(s)
           S == Bit
           p == SubSeq(s, 1, n)
<1>1. n \in Nat /\ n <= Len(s) /\ s \in Seq(S)
  BY LenProperties
<1> HIDE DEF n, S
<1>2. p \in Seq(S) /\ Len(p) = n /\ \A i \in 1..n : p[i] = s[i]
  BY <1>1, SubSeqProperties
<1>3. Len(p) = Len(s) /\ \A i \in 1..Len(p) : p[i] = s[i]
  BY <1>2 DEF n
<1> HIDE DEF p
<1>4. p = s
  BY <1>1, <1>2, <1>3, SeqEqual
<1> QED
  BY <1>4 DEF p, n

\* No bits more.
LEMMA NoneMore == ASSUME NEW s \in Seq(Bit) PROVE ~Whole(s \o <<>>, Len(s))
<1> DEFINE e == <<>>
<1>1. e \in Seq(Bit) /\ Len(e) < 8
  OBVIOUS
<1> HIDE DEF e
<1>2. ~Whole(s \o e, Len(s))
  BY <1>1, NotWhole
<1> QED
  BY <1>2 DEF e

-----------------------------------------------------------------------------
(* The greedy encoding, token by token.                                    *)

\* The longest match at p is not longer than this.
Ahead(s, p) == Min({Lookahead, Len(s) - p})

\* k bytes after p repeat those at distance d.
Repeats(s, p, d, k) == \A j \in 1..k : At(s, p + j - d) = s[p + j]

Agreement(s, p, d) ==
    Max({k \in 0..Min({Lookahead, Len(s) - p}) : \A j \in 1..k : At(s, p + j - d) = s[p + j]})
Agreements(s, p) == [d \in 1..Window |-> Agreement(s, p, d)]
Longest(s, p) == Max({Agreements(s, p)[d] : d \in 1..Window})
Nearest(s, p) == Min({d \in 1..Window : Agreements(s, p)[d] = Longest(s, p)})

\* A match of which the search says that it is the longest and nearest.
GreedyMatch(s, p, length, distance) ==
    /\ length \in Nat /\ length <= Ahead(s, p)
    /\ length > 0 => /\ distance \in 1..Window /\ Repeats(s, p, distance, length)
                     /\ \A d \in 1..Window : d < distance => ~Repeats(s, p, d, length)
    /\ length # Ahead(s, p) => \A d \in 1..Window : ~Repeats(s, p, d, length + 1)

LEMMA RepeatsLess ==
    ASSUME NEW s, NEW p, NEW d, NEW k \in Nat, NEW l \in Nat, l <= k, Repeats(s, p, d, k)
    PROVE  Repeats(s, p, d, l)
<1>1. \A j \in 1..l : j \in 1..k
  OBVIOUS
<1> QED
  BY <1>1 DEF Repeats

LEMMA AgreementIs ==
    ASSUME NEW s, NEW p, NEW d, Ahead(s, p) \in Nat
    PROVE  /\ Agreement(s, p, d) \in Nat /\ Agreement(s, p, d) <= Ahead(s, p)
           /\ Repeats(s, p, d, Agreement(s, p, d))
           /\ \A k \in Nat : k <= Ahead(s, p) /\ Repeats(s, p, d, k) => k <= Agreement(s, p, d)
<1> DEFINE m == Ahead(s, p)
           S == {k \in 0..m : Repeats(s, p, d, k)}
           a == Agreement(s, p, d)
<1>1. a = Max(S)
  BY DEF Agreement, Ahead, Repeats
<1>2. S \in SUBSET Int /\ \A k \in S : k <= m
  OBVIOUS
<1>3. 0 \in S
  BY DEF Repeats
<1> HIDE DEF a, m
<1>4. a \in S /\ \A k \in S : a >= k
  <2> DEFINE T == S
  <2>1. T \in SUBSET Int /\ T # {} /\ m \in Int /\ \A k \in T : k <= m
    BY <1>2, <1>3 DEF m
  <2> HIDE DEF T
  <2>2. Max(T) \in T /\ \A k \in T : Max(T) >= k
    BY <2>1, MaxExists
  <2> QED
    BY <1>1, <2>2 DEF T
<1>5. \A k \in Nat : k <= m /\ Repeats(s, p, d, k) => k <= a
  <2> SUFFICES ASSUME NEW k \in Nat, k <= m, Repeats(s, p, d, k) PROVE k <= a
    OBVIOUS
  <2>1. k \in S
    BY DEF m
  <2>2. a \in Nat
    BY <1>4 DEF m
  <2> QED
    BY <1>4, <2>1, <2>2
<1> QED
  BY <1>4, <1>5 DEF a, m

\* It is the one the greedy encoding takes.
LEMMA MatchIsGreedy ==
    ASSUME NEW s, NEW p, Ahead(s, p) \in Nat, NEW length, NEW distance, GreedyMatch(s, p, length, distance)
    PROVE  Longest(s, p) = length /\ (length > 0 => Nearest(s, p) = distance)
<1> DEFINE m == Ahead(s, p)
           A(d) == Agreement(s, p, d)
           S == {A(d) : d \in 1..Window}
<1>0. /\ length \in Nat /\ length <= m /\ m \in Nat
      /\ length > 0 => /\ distance \in 1..Window /\ Repeats(s, p, distance, length)
                       /\ \A d \in 1..Window : d < distance => ~Repeats(s, p, d, length)
      /\ length # m => \A d \in 1..Window : ~Repeats(s, p, d, length + 1)
  BY DEF GreedyMatch
<1>1. \A d \in 1..Window : A(d) \in Nat /\ A(d) <= m /\ Repeats(s, p, d, A(d))
  BY AgreementIs
<1>2. \A d \in 1..Window : \A k \in Nat : k <= m /\ Repeats(s, p, d, k) => k <= A(d)
  BY AgreementIs
<1> HIDE DEF A, m
<1>3. \A d \in 1..Window : A(d) <= length
  <2> SUFFICES ASSUME NEW d \in 1..Window, A(d) > length PROVE FALSE
    BY <1>0, <1>1
  <2> DEFINE l == length + 1
             a == A(d)
  <2>1. l \in Nat /\ a \in Nat /\ l <= a /\ length # m /\ Repeats(s, p, d, a)
    BY <1>0, <1>1
  <2>2. ~Repeats(s, p, d, l)
    BY <1>0, <2>1
  <2> HIDE DEF l, a
  <2> QED
    BY <2>1, <2>2, RepeatsLess
<1>4. length > 0 => A(distance) = length
  <2> SUFFICES ASSUME length > 0 PROVE A(distance) = length
    OBVIOUS
  <2>1. distance \in 1..Window /\ length <= A(distance)
    BY <1>0, <1>2
  <2> QED
    BY <1>0, <1>1, <1>3, <2>1
<1>5. 1 \in 1..Window
  BY Sizes
<1>6. Max(S) = length
  <2>1. S \in SUBSET Int /\ S # {} /\ length \in Int /\ \A x \in S : x <= length
    BY <1>0, <1>1, <1>3, <1>5
  <2>2. length \in S
    <3>1. CASE length > 0
      BY <1>0, <1>4, <3>1
    <3>2. CASE length = 0
      <4>1. A(1) = 0
        BY <1>0, <1>1, <1>3, <1>5, <3>2
      <4> QED
        BY <1>5, <3>2, <4>1
    <3> QED
      BY <1>0, <3>1, <3>2
  <2> HIDE DEF S
  <2>3. Max(S) \in S /\ \A y \in S : Max(S) >= y
    BY <2>1, MaxExists
  <2>4. Max(S) \in Int /\ Max(S) <= length /\ Max(S) >= length
    BY <2>1, <2>2, <2>3
  <2> HIDE DEF S
  <2> QED
    BY <2>1, <2>4
<1>7. \A d \in 1..Window : Agreements(s, p)[d] = A(d)
  BY DEF Agreements, A
<1>8. Longest(s, p) = length
  BY <1>6, <1>7 DEF Longest
<1>9. ASSUME length > 0 PROVE Nearest(s, p) = distance
  <2> DEFINE D == {d \in 1..Window : A(d) = length}
  <2>1. Nearest(s, p) = Min(D)
    BY <1>7, <1>8 DEF Nearest
  <2>2. D \in SUBSET Nat /\ distance \in D
    BY <1>0, <1>4, <1>9
  <2>3. \A d \in D : distance <= d
    <3> SUFFICES ASSUME NEW d \in D, d < distance PROVE FALSE
      BY <2>2
    <3>1. ~Repeats(s, p, d, length) /\ Repeats(s, p, d, length)
      BY <1>0, <1>1, <1>9
    <3> QED
      BY <3>1
  <2> HIDE DEF D
  <2>4. Min(D) \in D /\ \A d \in D : Min(D) <= d
    BY <2>2, MinExists
  <2>5. Min(D) \in Nat /\ distance \in Nat
    BY <2>2, <2>4
  <2>6. Min(D) <= distance /\ distance <= Min(D)
    BY <2>2, <2>3, <2>4
  <2> HIDE DEF D
  <2> QED
    BY <2>1, <2>5, <2>6
<1> QED
  BY <1>8, <1>9

\* The token at e.pos, and what is there after it.
GreedyNext(s, e) ==
    IF Worthwhile(Longest(s, e.pos))
    THEN [pos |-> e.pos + Longest(s, e.pos),
          bits |-> e.bits \o <<0>> \o Bits(Nearest(s, e.pos) - 1, WindowBits)
                          \o Bits(Longest(s, e.pos) - 1, LookaheadBits)]
    ELSE [pos |-> e.pos + 1, bits |-> e.bits \o <<1>> \o Bits(s[e.pos + 1], 8)]

\* f is what the greedy encoding has after each of its first n tokens, which all
\* have ahead bytes of s from their position on.
NoToken == [pos |-> 0, bits |-> <<>>]
GreedyRun(s, ahead, f, n) ==
    /\ f[0] = NoToken
    /\ \A k \in 0..n : f[k].pos \in Nat /\ k <= f[k].pos
    /\ \A k \in 0..(n - 1) : f[k].pos + ahead <= Len(s) /\ f[k + 1] = GreedyNext(s, f[k])

\* bits are the tokens of the greedy encoding for the first p bytes of s.
GreedyTo(s, ahead, bits, p) ==
    /\ bits \in Seq(Bit) /\ p \in Nat
    /\ \E n \in Nat : \E f : GreedyRun(s, ahead, f, n) /\ f[n] = [pos |-> p, bits |-> bits]

LEMMA GreedyNothing == ASSUME NEW s, NEW ahead PROVE GreedyTo(s, ahead, <<>>, 0)
<1> DEFINE bits == <<>>
           f == [k \in 0..0 |-> NoToken]
<1>1. bits \in Seq(Bit)
  OBVIOUS
<1>2. GreedyRun(s, ahead, f, 0)
  BY DEF GreedyRun, NoToken
<1>3. f[0] = [pos |-> 0, bits |-> <<>>]
  BY DEF NoToken
<1> QED
  BY <1>1, <1>2, <1>3 DEF GreedyTo

\* Less may be asked to lie ahead.
LEMMA GreedyRelax ==
    ASSUME NEW s, Len(s) \in Nat, NEW a \in Nat, NEW b \in Nat, b <= a, NEW bits, NEW p,
           GreedyTo(s, a, bits, p)
    PROVE  GreedyTo(s, b, bits, p)
<1>1. \A n \in Nat : \A f : GreedyRun(s, a, f, n) => GreedyRun(s, b, f, n)
  BY DEF GreedyRun
<1> QED
  BY <1>1 DEF GreedyTo

\* A token more.
LEMMA GreedyMore ==
    ASSUME NEW s, NEW a \in Nat, NEW bits, NEW p, GreedyTo(s, a, bits, p), p + a <= Len(s),
           NEW q \in Nat, q > p, NEW all \in Seq(Bit),
           GreedyNext(s, [pos |-> p, bits |-> bits]) = [pos |-> q, bits |-> all]
    PROVE  GreedyTo(s, a, all, q)
<1> DEFINE last == [pos |-> p, bits |-> bits]
           next == [pos |-> q, bits |-> all]
<1>0. p \in Nat /\ bits \in Seq(Bit)
  BY DEF GreedyTo
<1> PICK n \in Nat : \E f : GreedyRun(s, a, f, n) /\ f[n] = last
  BY DEF GreedyTo
<1>1. PICK f : GreedyRun(s, a, f, n) /\ f[n] = last
  OBVIOUS
<1>2. last.pos = p /\ next.pos = q /\ GreedyNext(s, last) = next
  OBVIOUS
<1> HIDE DEF last, next
<1> DEFINE g == [k \in 0..(n + 1) |-> IF k <= n THEN f[k] ELSE next]
<1>3. g[n + 1] = next /\ \A k \in 0..n : g[k] = f[k]
  OBVIOUS
<1> HIDE DEF g
<1>4. /\ f[0] = NoToken
      /\ \A k \in 0..n : f[k].pos \in Nat /\ k <= f[k].pos
      /\ \A k \in 0..(n - 1) : f[k].pos + a <= Len(s) /\ f[k + 1] = GreedyNext(s, f[k])
  BY <1>1 DEF GreedyRun
<1>5. \A k \in 0..(n + 1) : g[k].pos \in Nat /\ k <= g[k].pos
  <2> TAKE k \in 0..(n + 1)
  <2>1. CASE k \in 0..n
    BY <1>3, <1>4, <2>1
  <2>2. CASE k = n + 1
    <3>1. n \in 0..n
      OBVIOUS
    <3>2. n <= p
      BY <1>1, <1>2, <1>4, <3>1
    <3>3. g[k].pos = q
      BY <1>2, <1>3, <2>2
    <3> QED
      BY <1>0, <2>2, <3>2, <3>3
  <2> QED
    BY <2>1, <2>2
<1>6. \A k \in 0..n : g[k].pos + a <= Len(s) /\ g[k + 1] = GreedyNext(s, g[k])
  <2> TAKE k \in 0..n
  <2>1. CASE k < n
    BY <1>3, <1>4, <2>1
  <2>2. CASE k = n
    BY <1>1, <1>2, <1>3, <2>2
  <2> QED
    BY <2>1, <2>2
<1>7. GreedyRun(s, a, g, n + 1)
  <2>1. (n + 1) - 1 = n /\ 0 \in 0..n
    OBVIOUS
  <2> QED
    BY <1>3, <1>4, <1>5, <1>6, <2>1 DEF GreedyRun
<1> QED
  <2> DEFINE m == n + 1
  <2>1. m \in Nat /\ GreedyRun(s, a, g, m) /\ g[m] = next
    BY <1>3, <1>7
  <2> HIDE DEF m
  <2> QED
    BY <2>1 DEF GreedyTo, next

\* What follows changes no token that had all of the lookahead.
LEMMA GreedySame ==
    ASSUME NEW s \in Seq(Byte), NEW t \in Seq(Byte), Len(s) <= Len(t),
           \A i \in 1..Len(s) : t[i] = s[i], NEW e, e.pos \in Nat, e.pos + Lookahead <= Len(s)
    PROVE  GreedyNext(s, e) = GreedyNext(t, e)
<1> DEFINE p == e.pos
<1>0. Len(s) \in Nat /\ Len(t) \in Nat /\ Lookahead \in Nat /\ Lookahead >= 1 /\ Window \in Nat
  BY LenProperties, Sizes
<1>1. Ahead(s, p) = Lookahead /\ Ahead(t, p) = Lookahead
  <2> DEFINE x == Len(s) - p
             y == Len(t) - p
  <2>1. x \in Int /\ y \in Int /\ Lookahead \in Int /\ Lookahead <= x /\ Lookahead <= y
    BY <1>0
  <2> HIDE DEF x, y
  <2>2. Min({Lookahead, x}) = Lookahead /\ Min({Lookahead, y}) = Lookahead
    BY <2>1, MinOfTwo
  <2> QED
    BY <2>2 DEF Ahead, x, y
<1>2. ASSUME NEW d \in 1..Window PROVE Agreement(s, p, d) = Agreement(t, p, d)
  <2>0. p \in Nat /\ p + Lookahead <= Len(s)
    OBVIOUS
  <2> HIDE DEF p
  <2>1. ASSUME NEW k \in 0..Lookahead, NEW j \in 1..k
        PROVE  At(s, p + j - d) = At(t, p + j - d) /\ s[p + j] = t[p + j]
    <3> DEFINE i == p + j
    <3>1. i \in 1..Len(s) /\ i \in Int /\ p + j - d = i - d
      BY <1>0, <2>0
    <3> HIDE DEF i
    <3>2. i - d < 1 \/ i - d \in 1..Len(s)
      BY <1>0, <3>1
    <3>3. At(s, i - d) = At(t, i - d)
      BY <3>2 DEF At
    <3>4. s[i] = t[i]
      BY <3>1
    <3> QED
      BY <3>1, <3>3, <3>4 DEF i
  <2>2. {k \in 0..Lookahead : \A j \in 1..k : At(s, p + j - d) = s[p + j]}
            = {k \in 0..Lookahead : \A j \in 1..k : At(t, p + j - d) = t[p + j]}
    BY <2>1
  <2> QED
    BY <1>1, <2>2 DEF Agreement, Ahead
<1>3. Agreements(s, p) = Agreements(t, p)
  BY <1>2 DEF Agreements
<1>4. Longest(s, p) = Longest(t, p) /\ Nearest(s, p) = Nearest(t, p)
  BY <1>3 DEF Longest, Nearest
<1>5. s[p + 1] = t[p + 1]
  BY <1>0
<1> QED
  BY <1>4, <1>5 DEF GreedyNext

LEMMA GreedyExtends ==
    ASSUME NEW s \in Seq(Byte), NEW t \in Seq(Byte), Len(s) <= Len(t),
           \A i \in 1..Len(s) : t[i] = s[i], NEW bits, NEW p, GreedyTo(s, Lookahead, bits, p)
    PROVE  GreedyTo(t, Lookahead, bits, p)
<1>0. Len(s) \in Nat /\ Len(t) \in Nat /\ Lookahead \in Nat
  BY LenProperties, Sizes
<1>1. ASSUME NEW n \in Nat, NEW f, GreedyRun(s, Lookahead, f, n) PROVE GreedyRun(t, Lookahead, f, n)
  <2>1. \A k \in 0..(n - 1) : f[k].pos \in Nat /\ f[k].pos + Lookahead <= Len(s)
                              /\ f[k + 1] = GreedyNext(s, f[k])
    BY <1>1 DEF GreedyRun
  <2>2. \A k \in 0..(n - 1) : f[k + 1] = GreedyNext(t, f[k])
    BY <2>1, GreedySame
  <2>3. \A k \in 0..(n - 1) : f[k].pos + Lookahead <= Len(t)
    BY <1>0, <2>1
  <2> QED
    BY <1>1, <2>2, <2>3 DEF GreedyRun
<1> QED
  BY <1>1 DEF GreedyTo

\* With no input left, they are the greedy encoding.
LEMMA GreedyReads ==
    ASSUME NEW s, Len(s) \in Nat, NEW a \in Nat, a >= 1, NEW bits, GreedyTo(s, a, bits, Len(s))
    PROVE  Greedy(s) = bits
<1> DEFINE m == Len(s)
           Read(e) == IF e.pos = m THEN e ELSE GreedyNext(s, e)
           Is(g) == g = [k \in 0..m |-> IF k = 0 THEN NoToken ELSE Read(g[k - 1])]
           after == CHOOSE g : Is(g)
<1> PICK n \in Nat : \E f : GreedyRun(s, a, f, n) /\ f[n] = [pos |-> m, bits |-> bits]
  BY DEF GreedyTo
<1>2. PICK f : GreedyRun(s, a, f, n) /\ f[n] = [pos |-> m, bits |-> bits]
  OBVIOUS
<1>5. Greedy(s) = after[m].bits
  BY DEF Greedy, NoToken, GreedyNext, Longest, Nearest, Agreements, Agreement
<1>6. \A k \in 0..(n - 1) : f[k + 1] = Read(f[k])
  <2> TAKE k \in 0..(n - 1)
  <2>1. f[k].pos + a <= m /\ f[k + 1] = GreedyNext(s, f[k]) /\ f[k].pos \in Nat
    BY <1>2 DEF GreedyRun
  <2> QED
    BY <2>1
<1>7. Read(f[n]) = f[n] /\ f[n].bits = bits
  BY <1>2
<1>8. f[0] = NoToken
  BY <1>2 DEF GreedyRun
<1>9. m \in Nat /\ n <= m
  <2>1. n <= f[n].pos
    BY <1>2 DEF GreedyRun
  <2> QED
    BY <1>2, <2>1
<1> HIDE DEF Read, m
<1> DEFINE g == [k \in 0..m |-> IF k <= n THEN f[k] ELSE f[n]]
<1>10. g[0] = NoToken /\ \A k \in 1..m : g[k] = Read(g[k - 1])
  <2>1. g[0] = NoToken
    BY <1>8, <1>9
  <2>2. ASSUME NEW k \in 1..m PROVE g[k] = Read(g[k - 1])
    <3>1. k - 1 \in 0..m /\ k \in 0..m
      BY <1>9
    <3>2. CASE k <= n
      <4>1. k - 1 \in 0..(n - 1) /\ (k - 1) + 1 = k
        BY <3>2
      <4>2. g[k] = f[k] /\ g[k - 1] = f[k - 1]
        BY <3>1, <3>2
      <4> HIDE DEF g
      <4>3. f[k] = Read(f[k - 1])
        BY <1>6, <4>1
      <4> QED
        BY <4>2, <4>3
    <3>3. CASE k > n
      <4>1. g[k] = f[n] /\ g[k - 1] = f[n]
        BY <3>1, <3>3
      <4> HIDE DEF g
      <4> QED
        BY <1>7, <4>1
    <3> QED
      BY <3>2, <3>3
  <2> QED
    BY <2>1, <2>2
<1>11. Is(g)
  <2>1. \A k \in 0..m : g[k] = IF k = 0 THEN NoToken ELSE Read(g[k - 1])
    <3> HIDE DEF g
    <3> QED
      BY <1>9, <1>10
  <2>2. g = [k \in 0..m |-> g[k]]
    OBVIOUS
  <2>3. g = [k \in 0..m |-> IF k = 0 THEN NoToken ELSE Read(g[k - 1])]
    <3> HIDE DEF g
    <3> QED
      BY <2>1, <2>2
  <2> QED
    BY <2>3
<1>12. Is(after)
  <2> HIDE DEF Is
  <2> QED
    BY <1>11
<1>13. after[0] = NoToken /\ \A k \in 1..m : after[k] = Read(after[k - 1])
  <2>1. after = [k \in 0..m |-> IF k = 0 THEN NoToken ELSE Read(after[k - 1])]
    BY <1>12
  <2> HIDE DEF after
  <2> QED
    BY <1>9, <2>1
<1>14. m \in {k \in Nat : after[k] = g[k]}
  <2> DEFINE T == {k \in Nat : after[k] = g[k]}
  <2> HIDE DEF after, g
  <2>1. \A k \in 0..(m - 1) : k \in T => k + 1 \in T
    <3> TAKE k \in 0..(m - 1)
    <3> DEFINE l == k + 1
    <3>1. l \in 1..m /\ l - 1 = k
      BY <1>9
    <3> HIDE DEF l
    <3>2. after[k] = g[k] => after[l] = g[l]
      BY <1>10, <1>13, <3>1
    <3> QED
      BY <3>2 DEF l
  <2>2. 0 \in T
    BY <1>10, <1>13
  <2> HIDE DEF T
  <2>3. 0..m \subseteq T
    BY <1>9, <2>1, <2>2, InductionTo
  <2>4. m \in 0..m
    BY <1>9
  <2> QED
    BY <2>3, <2>4 DEF T
<1>15. g[m] = f[n]
  BY <1>9
<1> HIDE DEF g, after
<1>16. after[m] = f[n]
  BY <1>14, <1>15
<1> QED
  BY <1>5, <1>7, <1>16

LEMMA HeadOfConcat ==
    ASSUME NEW s \in Seq(Bit), NEW t \in Seq(Bit) PROVE s = SubSeq(s \o t, 1, Len(s))
<1> DEFINE S == Bit
           u == s \o t
           n == Len(s)
           h == SubSeq(u, 1, n)
<1>1. /\ n \in Nat /\ n <= Len(u) /\ u \in Seq(S)
      /\ \A i \in 1..n : u[i] = s[i]
  BY ConcatProperties, LenProperties
<1> HIDE DEF S, u
<1>2. h \in Seq(S) /\ Len(h) = n /\ \A i \in 1..n : h[i] = u[i]
  <2> HIDE DEF n
  <2> QED
    BY <1>1, SubSeqProperties
<1> HIDE DEF h
<1>3. s \in Seq(S) /\ Len(h) = Len(s) /\ \A i \in 1..Len(h) : h[i] = s[i]
  BY <1>1, <1>2 DEF S
<1>4. h = s
  BY <1>2, <1>3, SeqEqual
<1> QED
  BY <1>4 DEF h, u
=============================================================================
