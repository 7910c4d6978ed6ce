------------------------- MODULE BigNumbers_proofs -------------------------
(***************************************************************************)
(* The results of BigNumber's operators and the octets of a number, proved *)
(* for all numbers and all widths of octets, words and fields.             *)
(***************************************************************************)
EXTENDS BigNumbers, FiniteSetTheorems, SequenceTheorems, WellFoundedInduction,
        TLAPS

-----------------------------------------------------------------------------
(* Sets of numbers.                                                        *)

LEMMA Smallest ==
    ASSUME NEW S \in SUBSET Nat, S # {}
    PROVE  \E m \in S : \A k \in S : m <= k
<1>1. PICK m \in S : \A k \in S : ~(<<k, m>> \in OpToRel(<, Nat))
    BY NatLessThanWellFounded, WFMin
<1>2. ASSUME NEW k \in S PROVE m <= k
  <2>1. ~(<<k, m>> \in OpToRel(<, Nat))
      BY <1>1
  <2>2. k \in Nat /\ m \in Nat
      OBVIOUS
  <2>3. ~(k < m)
      BY <2>1, <2>2 DEF OpToRel
  <2> QED
      BY <2>2, <2>3
<1> QED
    BY <1>2

\* Induction, with a set for the predicate.
LEMMA Climb ==
    ASSUME NEW S, 0 \in S, \A k \in Nat : k \in S => k + 1 \in S
    PROVE  \A k \in Nat : k \in S
<1> SUFFICES ASSUME Nat \ S # {} PROVE FALSE
    OBVIOUS
<1>1. PICK m \in Nat \ S : \A k \in Nat \ S : m <= k
    BY Smallest
<1>2. m # 0 /\ m - 1 \in Nat
    BY <1>1
<1>3. m - 1 \in S
    BY <1>1, <1>2
<1> QED
    BY <1>2, <1>3

-----------------------------------------------------------------------------
(* Powers of two.  The prover knows nothing of them; a set of n elements   *)
(* has 2^n subsets.                                                        *)

Pow(n) == 2^n
SubsetsTo(n) == SUBSET (1 .. n)

LEMMA PowSubsets ==
    ASSUME NEW n \in Nat
    PROVE  IsFiniteSet(SubsetsTo(n)) /\ Cardinality(SubsetsTo(n)) = Pow(n) /\ Pow(n) \in Nat
<1>1. IsFiniteSet(1 .. n) /\ Cardinality(1 .. n) = n
    BY FS_Interval
<1>2. IsFiniteSet(SubsetsTo(n)) /\ Cardinality(SubsetsTo(n)) = Pow(n)
    BY <1>1, FS_SUBSET DEF Pow, SubsetsTo
<1> QED
    BY <1>2, FS_CardinalityType

LEMMA PowZero == Pow(0) = 1
BY DEF Pow

\* Every subset of 1 .. n is one of 1 .. n + 1 without n + 1, and one with it.
LEMMA PowNext ==
    ASSUME NEW n \in Nat
    PROVE  Pow(n + 1) = 2 * Pow(n)
<1> DEFINE S == SubsetsTo(n)
           T == {x \cup {n + 1} : x \in S}
           f == [x \in S |-> x \cup {n + 1}]
<1>1. SubsetsTo(n + 1) = S \cup T
  <2>1. \A k \in 1 .. n + 1 : k \in 1 .. n \/ k = n + 1
      OBVIOUS
  <2>2. ASSUME NEW x \in SubsetsTo(n + 1) PROVE x \in S \cup T
    <3>1. x \ {n + 1} \in S
        BY <2>1, <2>2 DEF SubsetsTo
    <3>2. x = x \ {n + 1} \/ x = (x \ {n + 1}) \cup {n + 1}
        OBVIOUS
    <3> QED
        BY <3>1, <3>2
  <2>3. 1 .. n \subseteq 1 .. n + 1 /\ n + 1 \in 1 .. n + 1
      OBVIOUS
  <2>4. S \cup T \subseteq SubsetsTo(n + 1)
      BY <2>3 DEF SubsetsTo
  <2> QED
      BY <2>2, <2>4
<1>2. S \cap T = {}
  <2>1. n + 1 \notin 1 .. n
      OBVIOUS
  <2> QED
      BY <2>1 DEF SubsetsTo
<1>3. f \in Bijection(S, T)
  <2>1. f \in [S -> T] /\ \A t \in T : \E x \in S : f[x] = t
      OBVIOUS
  <2>2. ASSUME NEW x \in S, NEW y \in S, f[x] = f[y] PROVE x = y
    <3>1. n + 1 \notin x /\ n + 1 \notin y
        BY DEF SubsetsTo
    <3>2. x \cup {n + 1} = y \cup {n + 1}
        BY <2>2
    <3> QED
        BY <3>1, <3>2
  <2> HIDE DEF f, S, T
  <2> QED
      BY <2>1, <2>2 DEF Bijection, Injection, Surjection, IsInjective
<1>4. IsFiniteSet(S) /\ Cardinality(S) = Pow(n) /\ Pow(n) \in Nat
    BY PowSubsets
<1>5. IsFiniteSet(T) /\ Cardinality(T) = Pow(n)
    BY <1>3, <1>4, FS_Bijection DEF ExistsBijection
<1>6. Cardinality(S \cup T) = Pow(n) + Pow(n)
  <2> HIDE DEF S, T
  <2>1. Cardinality(S \cup T) = Cardinality(S) + Cardinality(T) - Cardinality(S \cap T)
      BY <1>4, <1>5, FS_Union
  <2>2. Cardinality(S \cap T) = 0
      BY <1>2, FS_EmptySet
  <2> QED
      BY <1>4, <1>5, <2>1, <2>2
<1>7. Cardinality(SubsetsTo(n + 1)) = Pow(n + 1)
    BY PowSubsets
<1> HIDE DEF S, T
<1> QED
    BY <1>1, <1>4, <1>6, <1>7

LEMMA PowAbove == \A n \in Nat : Pow(n) \in Nat \ {0} /\ n < Pow(n)
<1> DEFINE S == {n \in Nat : n < Pow(n)}
<1>1. 0 \in S
    BY PowZero
<1>2. ASSUME NEW n \in Nat, n \in S PROVE n + 1 \in S
  <2>1. Pow(n + 1) = 2 * Pow(n) /\ Pow(n) \in Nat
      BY PowNext, PowSubsets
  <2> QED
      BY <1>2, <2>1
<1> HIDE DEF S
<1>3. \A n \in Nat : n \in S
    BY <1>1, <1>2, Climb
<1>4. \A n \in Nat : Pow(n) \in Nat
    BY PowSubsets
<1> QED
    BY <1>3, <1>4 DEF S

LEMMA PowAdd ==
    ASSUME NEW m \in Nat
    PROVE  \A n \in Nat : Pow(m + n) = Pow(m) * Pow(n)
<1> DEFINE S == {n \in Nat : Pow(m + n) = Pow(m) * Pow(n)}
<1>0. Pow(m) \in Nat
    BY PowAbove
<1>1. 0 \in S
    BY <1>0, PowZero
<1>2. ASSUME NEW n \in Nat, n \in S PROVE n + 1 \in S
  <2>1. Pow(m + n) = Pow(m) * Pow(n)
      BY <1>2
  <2>2. Pow((m + n) + 1) = 2 * Pow(m + n) /\ Pow(n + 1) = 2 * Pow(n)
      BY PowNext
  <2>3. Pow(n) \in Nat /\ m + (n + 1) = (m + n) + 1
      BY PowAbove
  <2>4. Pow(m + (n + 1)) = 2 * Pow(m) * Pow(n)
    <3> DEFINE x == Pow(m)
               y == Pow(n)
    <3>1. x \in Nat /\ y \in Nat /\ Pow(m + (n + 1)) = 2 * (x * y)
        BY <1>0, <2>1, <2>2, <2>3
    <3> HIDE DEF x, y
    <3>2. 2 * (x * y) = 2 * x * y
        BY <3>1
    <3> QED
        BY <3>1, <3>2 DEF x, y
  <2>5. Pow(m) * Pow(n + 1) = 2 * Pow(m) * Pow(n)
    <3> DEFINE x == Pow(m)
               y == Pow(n)
    <3>1. x \in Nat /\ y \in Nat /\ Pow(n + 1) = 2 * y
        BY <1>0, <2>2, <2>3
    <3> HIDE DEF x, y
    <3>2. x * (2 * y) = 2 * x * y
        BY <3>1
    <3> QED
        BY <3>1, <3>2 DEF x, y
  <2> QED
      BY <2>4, <2>5
<1> HIDE DEF S
<1>3. \A n \in Nat : n \in S
    BY <1>1, <1>2, Climb
<1> QED
    BY <1>3 DEF S

LEMMA PowGrows ==
    ASSUME NEW m \in Nat, NEW n \in Nat, m <= n
    PROVE  Pow(m) <= Pow(n)
<1>1. n - m \in Nat /\ m + (n - m) = n
    OBVIOUS
<1>2. Pow(n) = Pow(m) * Pow(n - m)
    BY <1>1, PowAdd
<1>3. Pow(m) \in Nat /\ Pow(n - m) \in Nat \ {0}
    BY <1>1, PowAbove
<1> DEFINE x == Pow(m)
           y == Pow(n - m)
<1> HIDE DEF x, y
<1>4. x \in Nat /\ y \in Nat \ {0} => x <= x * y
    OBVIOUS
<1> QED
    BY <1>2, <1>3, <1>4 DEF x, y

-----------------------------------------------------------------------------
(* Quotients and remainders.                                               *)

LEMMA DivRange ==
    ASSUME NEW m \in Nat \ {0}, NEW a \in Nat
    PROVE  a \div m \in Nat /\ a % m \in 0 .. m - 1
BY SMT

LEMMA Divided ==
    ASSUME NEW m \in Nat \ {0}, NEW a \in Nat
    PROVE  a = m * (a \div m) + (a % m)
<1>1. m \in Int /\ m > 0 /\ a \in Int
    OBVIOUS
<1> QED
    BY <1>1, SMTT(60)

LEMMA DivUnique ==
    ASSUME NEW m \in Nat \ {0}, NEW q \in Nat, NEW r \in 0 .. m - 1
    PROVE  (m * q + r) \div m = q /\ (m * q + r) % m = r
BY SMT

\* A product grows with each factor.
LEMMA TimesGrows ==
    ASSUME NEW m \in Nat \ {0}, NEW x \in Int, NEW y \in Int
    PROVE  m * x < m * y <=> x < y
BY SMT

-----------------------------------------------------------------------------
(* Bits and words.                                                         *)

LEMMA AbsTyped == \A v \in Int : Abs(v) \in Nat /\ (Abs(v) = v \/ Abs(v) = -v)
BY DEF Abs

LEMMA WordBitsTyped == WordBits \in Nat \ {0}
<1> DEFINE x == OctetBits
           y == WordOctets
<1>1. x \in Nat \ {0} /\ y \in Nat \ {0}
    BY BigNumbersAssumption
<1> HIDE DEF x, y
<1>2. x * y \in Nat \ {0}
    BY <1>1
<1> QED
    BY <1>2 DEF WordBits, x, y

\* BitLen(v) bits are enough for v, and fewer are not.
LEMMA BitLenFacts ==
    ASSUME NEW v \in Int
    PROVE  /\ BitLen(v) \in Nat \ {0} /\ Abs(v) < Pow(BitLen(v))
           /\ BitLen(v) = 1 \/ Pow(BitLen(v) - 1) <= Abs(v)
<1> DEFINE a == Abs(v)
           S == {n \in 1 .. a + 1 : a < Pow(n)}
           Right(n) == a < Pow(n) /\ (n = 1 \/ Pow(n - 1) <= a)
<1>1. a \in Nat
    BY AbsTyped
<1> HIDE DEF a
<1>2. a + 1 \in S
  <2>1. a + 1 < Pow(a + 1) /\ Pow(a + 1) \in Nat
      BY <1>1, PowAbove
  <2> QED
      BY <1>1, <2>1
<1>3. S \in SUBSET Nat /\ S # {}
    BY <1>1, <1>2
<1>4. PICK m \in S : \A k \in S : m <= k
    BY <1>3, Smallest
<1>5. Right(m)
  <2> SUFFICES ASSUME m # 1 PROVE Pow(m - 1) <= a
      OBVIOUS
  <2>1. m - 1 \in 1 .. a + 1 /\ ~(m <= m - 1)
      BY <1>1
  <2>2. m - 1 \notin S
      BY <1>4, <2>1
  <2>3. Pow(m - 1) \in Nat
      BY <2>1, PowAbove
  <2> QED
      BY <1>1, <2>1, <2>2, <2>3
<1>6. BitLen(v) = CHOOSE n \in 1 .. a + 1 : Right(n)
    BY DEF BitLen, Pow, a
<1>7. BitLen(v) \in 1 .. a + 1 /\ Right(BitLen(v))
  <2>1. m \in 1 .. a + 1
      OBVIOUS
  <2> HIDE DEF Right
  <2> QED
      BY <1>5, <1>6, <2>1, Zenon
<1>8. BitLen(v) \in Nat \ {0}
    BY <1>1, <1>7
<1> QED
    BY <1>7, <1>8 DEF a

LEMMA BitLenLeast ==
    ASSUME NEW v \in Int, NEW m \in Nat \ {0}, Abs(v) < Pow(m)
    PROVE  BitLen(v) <= m
<1> DEFINE n == BitLen(v)
<1>1. n \in Nat \ {0} /\ (n = 1 \/ Pow(n - 1) <= Abs(v))
    BY BitLenFacts
<1> HIDE DEF n
<1> SUFFICES ASSUME n > m PROVE FALSE
    BY <1>1 DEF n
<1>2. n - 1 \in Nat /\ m <= n - 1 /\ n # 1
    BY <1>1
<1>3. Pow(m) <= Pow(n - 1) /\ Pow(m) \in Nat /\ Pow(n - 1) \in Nat
    BY <1>2, PowGrows, PowAbove
<1>4. Abs(v) \in Nat
    BY AbsTyped
<1> QED
    BY <1>1, <1>2, <1>3, <1>4

\* As many words as n bits need.
LEMMA WordsFacts ==
    ASSUME NEW n \in Nat \ {0}
    PROVE  /\ BITSIZE_WORD(n) \in Nat \ {0}
           /\ n <= WordBits * BITSIZE_WORD(n) /\ WordBits * (BITSIZE_WORD(n) - 1) < n
<1> DEFINE b == WordBits
           w == BITSIZE_WORD(n)
           x == n + b - 1
           r == x % b
<1>1. b \in Nat \ {0}
    BY WordBitsTyped
<1>2. w = x \div b
    BY DEF BITSIZE_WORD
<1> HIDE DEF b, w
<1>3. x \in Nat
    BY <1>1
<1>4. w \in Nat /\ r \in 0 .. b - 1 /\ x = b * w + r
    BY <1>1, <1>2, <1>3, DivRange, Divided
<1>5. b * (w - 1) = b * w - b
    BY <1>1, <1>4
<1> DEFINE p == b * w
<1>6. p \in Nat /\ (w = 0 => p = 0)
    BY <1>1, <1>4
<1> HIDE DEF r, p
<1>7. n + b - 1 = p + r /\ b * (w - 1) = p - b
    BY <1>4, <1>5 DEF p
<1>8. n <= p /\ p - b < n /\ w # 0
    BY <1>1, <1>4, <1>6, <1>7
<1> QED
    BY <1>4, <1>7, <1>8 DEF p, w, b

LEMMA WordsLeast ==
    ASSUME NEW n \in Nat \ {0}, NEW k \in Nat, n <= WordBits * k
    PROVE  BITSIZE_WORD(n) <= k
<1> DEFINE b == WordBits
           w == BITSIZE_WORD(n)
<1>1. b \in Nat \ {0} /\ w \in Nat /\ b * (w - 1) < n /\ n <= b * k
    BY WordBitsTyped, WordsFacts
<1> HIDE DEF b, w
<1>2. b * (w - 1) < b * k
  <2>1. b * (w - 1) \in Int /\ b * k \in Int
      BY <1>1
  <2> QED
      BY <1>1, <2>1
<1>3. w - 1 < k
  <2>1. w - 1 \in Int /\ k \in Int
      BY <1>1
  <2> QED
      BY <1>1, <1>2, <2>1, TimesGrows
<1>4. w <= k
    BY <1>1, <1>3
<1> QED
    BY <1>4 DEF w

\* A value of at most n bits has room in the words for n bits.
LEMMA IntoBits ==
    ASSUME NEW v \in Int, NEW n \in Nat \ {0}, Abs(v) < Pow(n)
    PROVE  Into(BITSIZE_WORD(n), v) = v
<1> DEFINE m == WordBits * BITSIZE_WORD(n)
<1>1. m \in Nat /\ n <= m
    BY WordsFacts, WordBitsTyped
<1> HIDE DEF m
<1>2. Pow(n) <= Pow(m) /\ Pow(n) \in Nat /\ Pow(m) \in Nat
    BY <1>1, PowGrows, PowAbove
<1>3. Abs(v) \in Nat
    BY AbsTyped
<1>4. Abs(v) < Pow(m)
    BY <1>2, <1>3
<1> QED
    BY <1>4 DEF Into, Pow, m

LEMMA IntoWords ==
    ASSUME NEW v \in Int, NEW a \in Int, Abs(v) <= Abs(a)
    PROVE  Into(WordsOf(a), v) = v
<1>1. BitLen(a) \in Nat \ {0} /\ Abs(a) < Pow(BitLen(a))
    BY BitLenFacts
<1>2. Abs(v) \in Nat /\ Abs(a) \in Nat /\ Pow(BitLen(a)) \in Nat
    BY <1>1, AbsTyped, PowAbove
<1>3. Abs(v) < Pow(BitLen(a))
    BY <1>1, <1>2
<1> QED
    BY <1>1, <1>3, IntoBits DEF WordsOf

LEMMA WordsOfTyped == \A v \in Int : WordsOf(v) \in Nat \ {0}
BY BitLenFacts, WordsFacts DEF WordsOf

-----------------------------------------------------------------------------
(* The operators.                                                          *)

LEMMA LargerFacts ==
    ASSUME NEW a \in Int, NEW b \in Int
    PROVE  /\ Larger(a, b) \in Nat \ {0}
           /\ Larger(a, b) \in {BitLen(a), BitLen(b)}
           /\ Abs(a) < Pow(Larger(a, b)) /\ Abs(b) < Pow(Larger(a, b))
<1> DEFINE m == BitLen(a)
           n == BitLen(b)
           l == Larger(a, b)
<1>1. m \in Nat \ {0} /\ n \in Nat \ {0} /\ Abs(a) < Pow(m) /\ Abs(b) < Pow(n)
    BY BitLenFacts
<1>2. l = IF m < n THEN n ELSE m
    BY DEF Larger
<1> HIDE DEF m, n, l
<1>3. l \in Nat \ {0} /\ l \in {m, n} /\ m <= l /\ n <= l
    BY <1>1, <1>2
<1>4. /\ Pow(m) <= Pow(l) /\ Pow(n) <= Pow(l)
      /\ Pow(m) \in Nat /\ Pow(n) \in Nat /\ Pow(l) \in Nat
    BY <1>1, <1>3, PowGrows, PowAbove
<1>5. Abs(a) \in Nat /\ Abs(b) \in Nat
    BY AbsTyped
<1>6. Abs(a) < Pow(l) /\ Abs(b) < Pow(l)
    BY <1>1, <1>4, <1>5
<1> QED
    BY <1>3, <1>6 DEF m, n, l

\* Addition has a bit for the carry.
LEMMA PlusExact ==
    ASSUME NEW a \in Int, NEW b \in Int
    PROVE  Plus(a, b) = a + b
<1> DEFINE l == Larger(a, b)
<1>1. l \in Nat \ {0} /\ Abs(a) < Pow(l) /\ Abs(b) < Pow(l)
    BY LargerFacts
<1> HIDE DEF l
<1>2. Pow(l + 1) = 2 * Pow(l) /\ Pow(l) \in Nat
    BY <1>1, PowNext, PowAbove
<1>3. Abs(a) \in Nat /\ Abs(b) \in Nat /\ a + b \in Int
    BY AbsTyped
<1>4. Abs(a + b) \in Nat /\ Abs(a + b) <= Abs(a) + Abs(b)
    BY DEF Abs
<1>5. Abs(a + b) < Pow(l + 1)
    BY <1>1, <1>2, <1>3, <1>4
<1>6. l + 1 \in Nat \ {0}
    BY <1>1
<1>7. Into(BITSIZE_WORD(l + 1), a + b) = a + b
    BY <1>3, <1>5, <1>6, IntoBits
<1> QED
    BY <1>7 DEF Plus, l

LEMMA TimesExact ==
    ASSUME NEW a \in Int, NEW b \in Int
    PROVE  Times(a, b) = a * b
<1> DEFINE m == BitLen(a)
           n == BitLen(b)
<1>1. m \in Nat \ {0} /\ n \in Nat \ {0} /\ Abs(a) < Pow(m) /\ Abs(b) < Pow(n)
    BY BitLenFacts
<1> HIDE DEF m, n
<1>2. Pow(m + n) = Pow(m) * Pow(n) /\ Pow(m) \in Nat /\ Pow(n) \in Nat \ {0}
    BY <1>1, PowAdd, PowAbove
<1>3. Abs(a) \in Nat /\ Abs(b) \in Nat /\ a * b \in Int
    BY AbsTyped
<1>4. Abs(a * b) = Abs(a) * Abs(b)
    BY DEF Abs
<1>5. Abs(a) * Abs(b) < Pow(m) * Pow(n)
  <2> DEFINE x == Abs(a)
             y == Abs(b)
             p == Pow(m)
             q == Pow(n)
  <2>1. x \in Nat /\ y \in Nat /\ p \in Nat /\ q \in Nat \ {0} /\ x < p /\ y < q
      BY <1>1, <1>2, <1>3
  <2> HIDE DEF x, y, p, q
  <2>2. x * y <= x * q
      BY <2>1
  <2>3. x * q < p * q
      BY <2>1
  <2>4. x * y \in Int /\ x * q \in Int /\ p * q \in Int
      BY <2>1
  <2>5. x * y < p * q
      BY <2>2, <2>3, <2>4
  <2> QED
      BY <2>5 DEF x, y, p, q
<1>6. m + n \in Nat \ {0} /\ Abs(a * b) < Pow(m + n)
    BY <1>1, <1>2, <1>4, <1>5
<1>7. Into(BITSIZE_WORD(m + n), a * b) = a * b
    BY <1>3, <1>6, IntoBits
<1> QED
    BY <1>7 DEF Times, m, n

\* Without different signs there is no carry in a difference.
LEMMA MinusSameSign ==
    ASSUME NEW a \in Int, NEW b \in Int, (a >= 0 /\ b >= 0) \/ (a <= 0 /\ b <= 0)
    PROVE  Minus(a, b) = a - b
<1> DEFINE l == Larger(a, b)
<1>1. l \in Nat \ {0} /\ Abs(a) < Pow(l) /\ Abs(b) < Pow(l)
    BY LargerFacts
<1> HIDE DEF l
<1>2. Pow(l) \in Nat
    BY <1>1, PowAbove
<1>3. Abs(a) \in Nat /\ Abs(b) \in Nat /\ a - b \in Int
    BY AbsTyped
<1>4. Abs(a - b) \in Nat /\ (Abs(a - b) <= Abs(a) \/ Abs(a - b) <= Abs(b))
    BY DEF Abs
<1>5. Abs(a - b) < Pow(l)
    BY <1>1, <1>2, <1>3, <1>4
<1>6. Into(BITSIZE_WORD(l), a - b) = a - b
    BY <1>1, <1>3, <1>5, IntoBits
<1> QED
    BY <1>6 DEF Minus, l

\* NumbersExact's carry: both numbers fit into k words, and their magnitudes
\* added do not.
Carry(a, b) ==
    \E k \in 1 .. WordsOf(a) + WordsOf(b) :
        /\ a * b < 0
        /\ Abs(a) < Pow(WordBits * k) /\ Abs(b) < Pow(WordBits * k)
        /\ Abs(a) + Abs(b) >= Pow(WordBits * k)

\* The only k that comes into question is the words of the larger number.
LEMMA CarryFacts ==
    ASSUME NEW a \in Int, NEW b \in Int, a * b < 0
    PROVE  Carry(a, b) <=> Abs(a) + Abs(b) >= Pow(WordBits * BITSIZE_WORD(Larger(a, b)))
<1> DEFINE l == Larger(a, b)
           w == BITSIZE_WORD(l)
           p(k) == Pow(WordBits * k)
<1>1. /\ l \in Nat \ {0} /\ l \in {BitLen(a), BitLen(b)}
      /\ Abs(a) < Pow(l) /\ Abs(b) < Pow(l)
    BY LargerFacts
<1>2. w \in {WordsOf(a), WordsOf(b)}
    BY <1>1 DEF WordsOf
<1>3. l = IF BitLen(a) < BitLen(b) THEN BitLen(b) ELSE BitLen(a)
    BY DEF Larger
<1> HIDE DEF l
<1>4. w \in Nat \ {0} /\ l <= WordBits * w
    BY <1>1, WordsFacts
<1>5. \A k \in Nat : WordBits * k \in Nat /\ p(k) \in Nat
    BY WordBitsTyped, PowAbove
<1>6. Abs(a) \in Nat /\ Abs(b) \in Nat
    BY AbsTyped
<1>7. Pow(l) \in Nat /\ Pow(l) <= p(w)
    BY <1>1, <1>4, <1>5, PowGrows, PowAbove
<1> HIDE DEF w, p
<1>8. ASSUME Abs(a) + Abs(b) >= p(w) PROVE Carry(a, b)
  <2>1. WordsOf(a) \in Nat \ {0} /\ WordsOf(b) \in Nat \ {0}
      BY WordsOfTyped
  <2>2. w \in 1 .. WordsOf(a) + WordsOf(b)
      BY <1>2, <2>1
  <2>3. p(w) \in Nat
      BY <1>4, <1>5
  <2>4. Abs(a) < p(w) /\ Abs(b) < p(w)
      BY <1>1, <1>6, <1>7, <2>3
  <2> QED
      BY <1>8, <2>2, <2>4 DEF Carry, p
<1>9. ASSUME Carry(a, b) PROVE Abs(a) + Abs(b) >= p(w)
  <2>1. PICK k \in 1 .. WordsOf(a) + WordsOf(b) :
            Abs(a) < p(k) /\ Abs(b) < p(k) /\ Abs(a) + Abs(b) >= p(k)
      BY <1>9 DEF Carry, p
  <2>2. k \in Nat /\ k > 0
    <3>1. WordsOf(a) \in Nat /\ WordsOf(b) \in Nat
        BY WordsOfTyped
    <3> QED
        BY <3>1
  <2>3. WordBits * k \in Nat \ {0}
    <3> DEFINE x == WordBits
    <3>1. x \in Nat \ {0}
        BY WordBitsTyped
    <3> HIDE DEF x
    <3>2. x * k \in Nat \ {0}
        BY <2>2, <3>1
    <3> QED
        BY <3>2 DEF x
  <2>4. BitLen(a) <= WordBits * k /\ BitLen(b) <= WordBits * k
      BY <2>1, <2>3, BitLenLeast DEF p
  <2>5. l <= WordBits * k
      BY <1>3, <2>4
  <2>6. w <= k
      BY <1>1, <2>2, <2>5, WordsLeast DEF w
  <2>7. WordBits * w \in Nat /\ WordBits * w <= WordBits * k
    <3> DEFINE x == WordBits
    <3>1. x \in Nat
        BY WordBitsTyped
    <3> HIDE DEF x
    <3>2. x * w \in Nat /\ x * w <= x * k
        BY <1>4, <2>2, <2>6, <3>1
    <3> QED
        BY <3>2 DEF x
  <2>8. p(w) <= p(k) /\ p(w) \in Nat /\ p(k) \in Nat
      BY <2>3, <2>7, PowGrows, PowAbove DEF p
  <2> QED
      BY <1>6, <2>1, <2>8
<1> QED
    BY <1>8, <1>9 DEF w, l, p

LEMMA MinusExact ==
    ASSUME NEW a \in Int, NEW b \in Int
    PROVE  Minus(a, b) = IF Carry(a, b) THEN Lost ELSE a - b
<1>1. CASE a * b < 0
  <2>1. (a > 0 /\ b < 0) \/ (a < 0 /\ b > 0)
      BY <1>1
  <2>2. Abs(a - b) = Abs(a) + Abs(b)
      BY <2>1 DEF Abs
  <2> DEFINE w == WordBits * BITSIZE_WORD(Larger(a, b))
  <2>3. Carry(a, b) <=> Abs(a) + Abs(b) >= Pow(w)
      BY <1>1, CarryFacts
  <2>4. w \in Nat
    <3>1. BITSIZE_WORD(Larger(a, b)) \in Nat
        BY LargerFacts, WordsFacts
    <3> QED
        BY <3>1, WordBitsTyped
  <2>5. Minus(a, b) = IF Abs(a - b) < Pow(w) THEN a - b ELSE Lost
      BY DEF Minus, Into, Pow
  <2> HIDE DEF w
  <2>6. Pow(w) \in Nat /\ Abs(a) \in Nat /\ Abs(b) \in Nat
      BY <2>4, PowAbove, AbsTyped
  <2>7. Abs(a - b) < Pow(w) <=> ~(Abs(a) + Abs(b) >= Pow(w))
      BY <2>2, <2>6
  <2> QED
      BY <2>3, <2>5, <2>7
<1>2. CASE ~(a * b < 0)
  <2>1. (a >= 0 /\ b >= 0) \/ (a <= 0 /\ b <= 0)
      BY <1>2
  <2>2. ~Carry(a, b)
      BY <1>2 DEF Carry
  <2> QED
      BY <2>1, <2>2, MinusSameSign
<1> QED
    BY <1>1, <1>2

LEMMA CompareExact ==
    ASSUME NEW a \in Int, NEW b \in Int
    PROVE  IF Carry(a, b) THEN Compare(a, b) = Lost
           ELSE /\ Compare(a, b) \in -1 .. 1
                /\ Compare(a, b) > 0 <=> a > b
                /\ Compare(a, b) < 0 <=> a < b
<1>1. Minus(a, b) = IF Carry(a, b) THEN Lost ELSE a - b
    BY MinusExact
<1>2. CASE Carry(a, b)
    BY <1>1, <1>2 DEF Compare
<1>3. CASE ~Carry(a, b)
  <2>1. Minus(a, b) = a - b /\ a - b # Lost
      BY <1>1, <1>3, BigNumbersAssumption
  <2>2. Compare(a, b) = IF a - b = 0 THEN 0 ELSE IF a - b > 0 THEN 1 ELSE -1
      BY <2>1 DEF Compare
  <2> QED
      BY <1>3, <2>2
<1> QED
    BY <1>2, <1>3

LEMMA RemainderExact ==
    ASSUME NEW a \in Nat, NEW m \in Nat \ {0}
    PROVE  Remainder(a, m) = a % m /\ a % m \in 0 .. m - 1
<1>1. a % m \in 0 .. m - 1
    BY DivRange
<1> DEFINE r == a % m
<1>2. Abs(r) <= Abs(m) /\ r \in Int /\ m \in Int
    BY <1>1 DEF Abs
<1>3. Into(WordsOf(m), r) = r
    BY <1>2, IntoWords
<1> QED
    BY <1>1, <1>3 DEF Remainder

LEMMA QuotientExact ==
    ASSUME NEW a \in Nat, NEW m \in Nat \ {0}
    PROVE  Quotient(a, m) * m <= a /\ a < Quotient(a, m) * m + m
<1> DEFINE q == a \div m
           r == a % m
<1>1. q \in Nat /\ r \in 0 .. m - 1 /\ a = m * q + r
    BY DivRange, Divided
<1> HIDE DEF q, r
<1>2. m * q \in Nat /\ q <= m * q /\ m * q = q * m
    BY <1>1
<1>3. q <= a
    BY <1>1, <1>2
<1>4. Abs(q) <= Abs(a)
    BY <1>1, <1>3 DEF Abs
<1>5. Into(WordsOf(a), q) = q
    BY <1>1, <1>4, IntoWords
<1>6. Quotient(a, m) = q
    BY <1>5 DEF Quotient, q
<1> QED
    BY <1>1, <1>2, <1>6

LEMMA ModAddExact ==
    ASSUME NEW a \in Nat, NEW m \in Nat \ {0}
    PROVE  ModAdd(m, a, a) = (a + a) % m
<1>1. Plus(a, a) = a + a /\ a + a \in Nat
    BY PlusExact
<1> QED
    BY <1>1, RemainderExact DEF ModAdd

LEMMA ModMulExact ==
    ASSUME NEW a \in Nat, NEW m \in Nat \ {0}
    PROVE  ModMul(m, a, a) = (a * a) % m
<1>1. Times(a, a) = a * a /\ a * a \in Nat
    BY TimesExact
<1> QED
    BY <1>1, RemainderExact DEF ModMul

LEMMA ModSubExact ==
    ASSUME NEW a \in Nat, NEW m \in Nat \ {0}
    PROVE  ModSub(m, 0, a) \in 0 .. m - 1 /\ (ModSub(m, 0, a) + a) % m = 0
<1> DEFINE q == a \div m
           r == a % m
           i == InverseAdd(m, a)
<1>1. q \in Nat /\ r \in 0 .. m - 1 /\ a = m * q + r
    BY DivRange, Divided
<1>2. Remainder(a, m) = r
    BY RemainderExact
<1> HIDE DEF q, r
<1>3. i = IF r = 0 THEN 0 ELSE m - r
  <2>1. Minus(m, r) = m - r
      BY <1>1, MinusSameSign
  <2> QED
      BY <1>2, <2>1 DEF InverseAdd
<1> HIDE DEF i
<1>4. i \in 0 .. m - 1
    BY <1>1, <1>3
<1>5. ModSub(m, 0, a) = i
  <2>1. Plus(0, i) = i
      BY <1>4, PlusExact
  <2>0. i \in Nat
      BY <1>4
  <2>2. Remainder(i, m) = i % m
      BY <2>0, RemainderExact
  <2>3. (m * 0 + i) % m = i
      BY <1>4, DivUnique
  <2>4. m * 0 + i = i
      BY <1>4
  <2> QED
      BY <2>1, <2>2, <2>3, <2>4 DEF ModSub, i
<1>6. (i + a) % m = 0
  <2> DEFINE s == IF r = 0 THEN q ELSE q + 1
  <2>1. s \in Nat /\ i + a = m * s + 0
    <3>1. m * (q + 1) = m * q + m
        BY <1>1
    <3>2. m * q \in Nat
        BY <1>1
    <3> QED
        BY <1>1, <1>3, <3>1, <3>2
  <2> HIDE DEF s
  <2>2. (m * s + 0) % m = 0
      BY <2>1, DivUnique
  <2> QED
      BY <2>1, <2>2
<1> QED
    BY <1>4, <1>5, <1>6

-----------------------------------------------------------------------------
(* The bits of the words.                                                  *)

LEMMA DivDiv ==
    ASSUME NEW a \in Nat, NEW m \in Nat \ {0}, NEW n \in Nat \ {0}
    PROVE  (a \div m) \div n = a \div (m * n)
<1> DEFINE q == a \div m
           r == a % m
           p == q \div n
           s == q % n
<1>1. q \in Nat /\ r \in 0 .. m - 1 /\ a = m * q + r
    BY DivRange, Divided
<1> HIDE DEF q, r
<1>2. p \in Nat /\ s \in 0 .. n - 1 /\ q = n * p + s
    BY <1>1, DivRange, Divided
<1> HIDE DEF p, s
<1>3. a = (m * n) * p + (m * s + r)
  <2>1. m * (n * p + s) = m * (n * p) + m * s
      BY <1>2
  <2>2. m * (n * p) = (m * n) * p
      BY <1>2
  <2>3. m * s \in Nat /\ (m * n) * p \in Nat
      BY <1>2
  <2> QED
      BY <1>1, <1>2, <2>1, <2>2, <2>3
<1>4. m * s + r \in 0 .. m * n - 1
  <2>1. m * s <= m * (n - 1)
      BY <1>2
  <2>2. m * (n - 1) = m * n - m
      OBVIOUS
  <2>3. m * s \in Nat /\ m * n \in Nat
      BY <1>2
  <2> QED
      BY <1>1, <2>1, <2>2, <2>3
<1>5. m * n \in Nat \ {0}
    OBVIOUS
<1>6. a \div (m * n) = p
  <2> DEFINE d == m * n
             e == m * s + r
  <2>1. d \in Nat \ {0} /\ e \in 0 .. d - 1 /\ a = d * p + e
      BY <1>3, <1>4, <1>5
  <2> HIDE DEF d, e
  <2>2. a \div d = p
      BY <1>2, <2>1, DivUnique
  <2> QED
      BY <2>2 DEF d
<1> QED
    BY <1>6 DEF p, q

\* A bit of the lower part of a number is that bit of the number.
LEMMA BitOfRest ==
    ASSUME NEW y \in Nat, NEW p \in Nat \ {0}, NEW c \in Nat \ {0}
    PROVE  ((y % (p * (2 * c))) \div p) % 2 = (y \div p) % 2
<1> DEFINE m == p * (2 * c)
           q == y \div m
           r == y % m
           s == r \div p
           t == r % p
           u == s \div 2
           b == s % 2
<1>0. m \in Nat \ {0}
    OBVIOUS
<1> HIDE DEF m
<1>1. q \in Nat /\ r \in Nat /\ y = m * q + r
    BY <1>0, DivRange, Divided
<1> HIDE DEF q, r
<1>2. s \in Nat /\ t \in 0 .. p - 1 /\ r = p * s + t
    BY <1>1, DivRange, Divided
<1> HIDE DEF s, t
<1>3. u \in Nat /\ b \in 0 .. 1 /\ s = 2 * u + b
    BY <1>2, DivRange, Divided
<1> HIDE DEF u, b
<1> DEFINE x == c * q
<1>4. x \in Nat /\ m * q = p * (2 * x)
  <2>1. (p * (2 * c)) * q = p * (2 * (c * q))
      BY <1>1
  <2> QED
      BY <1>1, <2>1 DEF m
<1> HIDE DEF x
<1>5. y = p * (2 * x + s) + t
  <2>1. p * (2 * x + s) = p * (2 * x) + p * s
      BY <1>2, <1>4
  <2>2. p * (2 * x) \in Nat /\ p * s \in Nat
      BY <1>2, <1>4
  <2> QED
      BY <1>1, <1>2, <1>4, <2>1, <2>2
<1>6. y \div p = 2 * x + s
  <2>1. 2 * x + s \in Nat
      BY <1>2, <1>4
  <2> QED
      BY <1>2, <1>5, <2>1, DivUnique
<1>7. (2 * x + s) % 2 = b
  <2>1. 2 * x + s = 2 * (x + u) + b /\ x + u \in Nat /\ 2 \in Nat \ {0} /\ b \in 0 .. 2 - 1
      BY <1>2, <1>3, <1>4
  <2>2. (2 * (x + u) + b) % 2 = b
      BY <2>1, DivUnique
  <2> QED
      BY <2>1, <2>2
<1> QED
    BY <1>6, <1>7 DEF b, s, r, m

Bit(a, n) == (a \div Pow(n)) % 2

\* Bit n is in word n \div WordBits.
LEMMA BitOfWord ==
    ASSUME NEW v \in Int, NEW n \in 0 .. WordBits * WordsOf(v) - 1
    PROVE  (Num2Vec(v)[n \div WordBits + 1] \div 2^(n % WordBits)) % 2 = Bit(Abs(v), n)
<1> DEFINE a == Abs(v)
           w == WordBits
           j == n \div w
           i == n % w
           y == a \div Pow(w * j)
<1>1. a \in Nat /\ w \in Nat \ {0} /\ WordsOf(v) \in Nat \ {0}
    BY AbsTyped, WordBitsTyped, WordsOfTyped
<1>2. n \in Nat /\ n < w * WordsOf(v)
  <2>1. w * WordsOf(v) \in Nat
      BY <1>1
  <2> QED
      BY <2>1
<1> HIDE DEF a, w
<1>3. j \in Nat /\ i \in 0 .. w - 1 /\ n = w * j + i
    BY <1>1, <1>2, DivRange, Divided
<1> HIDE DEF j, i
<1>4. j < WordsOf(v)
  <2>1. w * j \in Nat /\ w * WordsOf(v) \in Nat
      BY <1>1, <1>3
  <2>2. w * j < w * WordsOf(v)
      BY <1>2, <1>3, <2>1
  <2> QED
      BY <1>1, <1>3, <2>2, TimesGrows
<1>5. Num2Vec(v)[j + 1] = y % Pow(w)
  <2>1. j + 1 \in 1 .. WordsOf(v) /\ (j + 1) - 1 = j
      BY <1>1, <1>3, <1>4
  <2> QED
      BY <2>1 DEF Num2Vec, Pow, a, w
<1>6. w * j \in Nat /\ i \in Nat /\ w - i - 1 \in Nat
    BY <1>1, <1>3
<1>7. /\ Pow(w * j) \in Nat \ {0} /\ Pow(i) \in Nat \ {0}
      /\ Pow(w - i - 1) \in Nat \ {0}
    BY <1>6, PowAbove
<1>8. Pow(n) = Pow(w * j) * Pow(i)
    BY <1>3, <1>6, PowAdd
<1>9. Pow(w) = Pow(i) * (2 * Pow(w - i - 1))
  <2>1. (w - i - 1) + 1 = w - i /\ i + (w - i) = w /\ w - i \in Nat
      BY <1>1, <1>3
  <2>2. Pow(w - i) = 2 * Pow(w - i - 1)
      BY <1>6, <2>1, PowNext
  <2>3. Pow(i + (w - i)) = Pow(i) * Pow(w - i)
      BY <1>6, <2>1, PowAdd
  <2> QED
      BY <2>1, <2>2, <2>3
<1>10. y \in Nat
    BY <1>1, <1>7, DivRange
<1>11. y \div Pow(i) = a \div Pow(n)
    BY <1>1, <1>7, <1>8, DivDiv
<1> HIDE DEF y
<1>12. ((y % Pow(w)) \div Pow(i)) % 2 = (y \div Pow(i)) % 2
  <2> DEFINE p == Pow(i)
             c == Pow(w - i - 1)
  <2>1. p \in Nat \ {0} /\ c \in Nat \ {0} /\ Pow(w) = p * (2 * c)
      BY <1>7, <1>9
  <2> HIDE DEF p, c
  <2>2. ((y % (p * (2 * c))) \div p) % 2 = (y \div p) % 2
      BY <1>10, <2>1, BitOfRest
  <2> QED
      BY <2>1, <2>2 DEF p
<1> QED
    BY <1>5, <1>11, <1>12 DEF Bit, Pow, a, w, i, j

LEMMA OnesBits ==
    ASSUME NEW v \in Int
    PROVE  Ones(v) = {n \in 0 .. WordBits * WordsOf(v) - 1 : Bit(Abs(v), n) = 1}
BY BitOfWord DEF Ones

\* The highest bit of a number.
LEMMA HighestBit ==
    ASSUME NEW v \in Int, v # 0
    PROVE  /\ Pow(BitLen(v) - 1) <= Abs(v) /\ Abs(v) < Pow(BitLen(v))
           /\ BitLen(v) - 1 \in Ones(v) /\ \A n \in Ones(v) : n <= BitLen(v) - 1
<1> DEFINE a == Abs(v)
           l == BitLen(v)
           h == l - 1
           w == WordBits * WordsOf(v)
<1>1. a \in Nat \ {0}
    BY DEF Abs
<1>2. l \in Nat \ {0} /\ a < Pow(l) /\ (l = 1 \/ Pow(l - 1) <= a)
    BY BitLenFacts
<1>3. l <= w /\ w \in Nat
  <2>1. l <= w
      BY <1>2, WordsFacts DEF WordsOf
  <2>2. WordBits \in Nat /\ WordsOf(v) \in Nat
      BY WordBitsTyped, WordsOfTyped
  <2> QED
      BY <2>1, <2>2
<1>4. Ones(v) = {n \in 0 .. w - 1 : Bit(a, n) = 1}
    BY OnesBits
<1> HIDE DEF a, l, w
<1>5. h \in Nat /\ h + 1 = l
    BY <1>2
<1>6. Pow(l) = 2 * Pow(h) /\ Pow(h) \in Nat \ {0}
    BY <1>5, PowNext, PowAbove
<1>7. Pow(h) <= a
    BY <1>1, <1>2, PowZero
<1> HIDE DEF h
<1>8. Bit(a, h) = 1
  <2> DEFINE p == Pow(h)
  <2>1. p \in Nat \ {0} /\ a - p \in 0 .. p - 1 /\ a = p * 1 + (a - p)
      BY <1>1, <1>2, <1>6, <1>7
  <2> HIDE DEF p
  <2>2. (p * 1 + (a - p)) \div p = 1
      BY <2>1, DivUnique
  <2> QED
      BY <2>1, <2>2 DEF Bit, p
<1>9. ASSUME NEW n \in 0 .. w - 1, Bit(a, n) = 1 PROVE n <= h
  <2> SUFFICES ASSUME n > h PROVE FALSE
      BY <1>3, <1>5
  <2>1. n \in Nat /\ l <= n
      BY <1>3, <1>5
  <2>2. Pow(l) <= Pow(n) /\ Pow(n) \in Nat \ {0} /\ Pow(l) \in Nat
      BY <1>2, <2>1, PowGrows, PowAbove
  <2>3. a \in 0 .. Pow(n) - 1 /\ a = Pow(n) * 0 + a
      BY <1>1, <1>2, <2>2
  <2>4. a \div Pow(n) = 0
      BY <2>2, <2>3, DivUnique
  <2> QED
      BY <1>9, <2>4 DEF Bit
<1>10. h \in 0 .. w - 1
    BY <1>3, <1>5
<1> QED
    BY <1>2, <1>4, <1>7, <1>8, <1>9, <1>10 DEF a, l, h

LEMMA MSBExact ==
    ASSUME NEW v \in Int, v # 0
    PROVE  Pow(MSB(v)) <= Abs(v) /\ Abs(v) < Pow(MSB(v) + 1)
<1> DEFINE h == BitLen(v) - 1
<1>1. /\ Pow(h) <= Abs(v) /\ Abs(v) < Pow(BitLen(v))
      /\ h \in Ones(v) /\ \A n \in Ones(v) : n <= h
    BY HighestBit
<1>2. BitLen(v) \in Nat \ {0} /\ h \in Int /\ h + 1 = BitLen(v)
    BY BitLenFacts
<1>3. Ones(v) \subseteq Int
    BY DEF Ones
<1> HIDE DEF h
<1>4. MSB(v) = CHOOSE x \in Ones(v) : \A y \in Ones(v) : x >= y
    BY DEF MSB, Max
<1>5. \A y \in Ones(v) : h >= y
    BY <1>1, <1>2, <1>3
<1>6. MSB(v) \in Ones(v) /\ \A y \in Ones(v) : MSB(v) >= y
    BY <1>1, <1>4, <1>5, Zenon
<1>7. MSB(v) = h
    BY <1>1, <1>2, <1>3, <1>6
<1> QED
    BY <1>1, <1>2, <1>7

\* Below the lowest bit that is set there is nothing.
LEMMA LSBExact ==
    ASSUME NEW v \in Int, v # 0
    PROVE  \E odd \in 1 .. Abs(v) : odd % 2 = 1 /\ Abs(v) = odd * Pow(LSB(v))
<1> DEFINE a == Abs(v)
           m == LSB(v)
           w == WordBits * WordsOf(v)
<1>1. a \in Nat \ {0}
    BY DEF Abs
<1>2. Ones(v) = {n \in 0 .. w - 1 : Bit(a, n) = 1} /\ Ones(v) # {}
    BY OnesBits, HighestBit
<1>3. Ones(v) \in SUBSET Nat
    BY <1>2
<1>4. m \in Ones(v) /\ \A y \in Ones(v) : m <= y
  <2>1. m = CHOOSE x \in Ones(v) : \A y \in Ones(v) : x <= y
      BY DEF LSB, Min
  <2>2. \E x \in Ones(v) : \A y \in Ones(v) : x <= y
      BY <1>2, <1>3, Smallest
  <2> HIDE DEF m
  <2> QED
      BY <2>1, <2>2, Zenon
<1>5. w \in Int
  <2>1. WordBits \in Nat /\ WordsOf(v) \in Nat
      BY WordBitsTyped, WordsOfTyped
  <2> QED
      BY <2>1
<1> HIDE DEF a, m, w
<1>6. m \in Nat /\ m \in 0 .. w - 1 /\ Bit(a, m) = 1
    BY <1>2, <1>3, <1>4
<1> DEFINE T == {k \in Nat : k <= m => a = Pow(k) * (a \div Pow(k))}
<1>7. 0 \in T
  <2>1. a \div 1 = a
    <3>1. 1 \in Nat \ {0} /\ 0 \in 0 .. 1 - 1 /\ 1 * a + 0 = a
        BY <1>1
    <3>2. (1 * a + 0) \div 1 = a
        BY <1>1, <3>1, DivUnique
    <3> QED
        BY <3>1, <3>2
  <2> QED
      BY <1>1, <2>1, PowZero
<1>8. ASSUME NEW k \in Nat, k \in T PROVE k + 1 \in T
  <2> SUFFICES ASSUME k + 1 <= m PROVE a = Pow(k + 1) * (a \div Pow(k + 1))
      OBVIOUS
  <2> DEFINE p == Pow(k)
             y == a \div p
             z == y \div 2
  <2>1. a = p * y
      BY <1>6, <1>8
  <2>2. p \in Nat \ {0} /\ Pow(k + 1) = p * 2
      BY PowNext, PowAbove
  <2>3. y \in Nat
      BY <1>1, <2>2, DivRange
  <2>4. y % 2 # 1
    <3>1. k \in 0 .. w - 1 /\ ~(m <= k)
        BY <1>5, <1>6
    <3>2. k \notin Ones(v)
        BY <1>4, <3>1
    <3> QED
        BY <1>2, <3>1, <3>2 DEF Bit
  <2>5. z = a \div Pow(k + 1)
      BY <1>1, <2>2, DivDiv
  <2> HIDE DEF p, y
  <2>6. z \in Nat /\ y = 2 * z
    <3>1. z \in Nat /\ y % 2 \in 0 .. 2 - 1 /\ y = 2 * z + (y % 2)
        BY <2>3, DivRange, Divided
    <3> QED
        BY <2>4, <3>1
  <2> HIDE DEF z
  <2>7. p * (2 * z) = (p * 2) * z
      BY <2>2, <2>6
  <2> QED
      BY <2>1, <2>2, <2>5, <2>6, <2>7
<1> HIDE DEF T
<1>9. m \in T
    BY <1>6, <1>7, <1>8, Climb
<1> DEFINE odd == a \div Pow(m)
           p == Pow(m)
<1>10. a = p * odd /\ odd % 2 = 1
    BY <1>6, <1>9 DEF T, Bit
<1>11. p \in Nat \ {0} /\ odd \in Nat
    BY <1>1, <1>6, PowAbove, DivRange
<1> HIDE DEF odd, p
<1>12. odd # 0 /\ odd <= p * odd /\ p * odd = odd * p
  <2>1. 0 % 2 # 1
      OBVIOUS
  <2> QED
      BY <1>10, <1>11, <2>1
<1>13. odd \in 1 .. a
    BY <1>1, <1>10, <1>11, <1>12
<1> QED
    BY <1>10, <1>12, <1>13 DEF a, m, p

-----------------------------------------------------------------------------
(* The octets of a number.                                                 *)

\* The value of the first k octets, for every k.
ReadOf(s) ==
    {R \in [0 .. Len(s) -> Nat] :
        /\ R[0] = 0
        /\ \A k \in 1 .. Len(s) : R[k] = R[k - 1] * Pow(OctetBits) + s[k]}

LEMMA OctetTyped == OctetBits \in Nat \ {0} /\ Pow(OctetBits) \in Nat \ {0}
BY BigNumbersAssumption, PowAbove

\* FromOctets by its steps.
LEMMA FromOctetsSteps ==
    ASSUME NEW s \in Seq(Nat)
    PROVE  \E R \in ReadOf(s) : FromOctets(s) = R[Len(s)]
<1> DEFINE n == Len(s)
           Step(f, k) == IF k = 0 THEN 0 ELSE f[k - 1] * 2^OctetBits + s[k]
           read == CHOOSE f : f = [k \in 0 .. n |-> Step(f, k)]
<1>1. n \in Nat /\ \A k \in 1 .. n : s[k] \in Nat
    OBVIOUS
<1>2. \E f : f = [k \in 0 .. n |-> Step(f, k)]
  <2> DEFINE Begun(f, m) == f = [k \in 0 .. m |-> Step(f, k)]
             T == {m \in Nat : \E f : Begun(f, m)}
  <2>1. 0 \in T
    <3> DEFINE f == [k \in 0 .. 0 |-> 0]
    <3>1. \A k \in 0 .. 0 : Step(f, k) = 0
        OBVIOUS
    <3> HIDE DEF Step
    <3>2. Begun(f, 0)
        BY <3>1, Zenon
    <3> HIDE DEF Begun, f
    <3> QED
        BY <3>2
  <2>2. ASSUME NEW m \in Nat, m \in T PROVE m + 1 \in T
    <3>1. PICK f : Begun(f, m)
        BY <2>2
    <3> DEFINE g == [k \in 0 .. m + 1 |-> Step(f, k)]
    <3>2. \A k \in 0 .. m : g[k] = f[k]
      <4>1. \A k \in 0 .. m : k \in 0 .. m + 1
          OBVIOUS
      <4>2. \A k \in 0 .. m : f[k] = Step(f, k)
          BY <3>1, Zenon
      <4>3. \A k \in 0 .. m + 1 : g[k] = Step(f, k)
          BY Zenon
      <4> QED
          BY <4>1, <4>2, <4>3, Zenon
    <3>3. \A k \in 0 .. m + 1 : Step(g, k) = Step(f, k)
      <4> HIDE DEF g
      <4> SUFFICES ASSUME NEW k \in 0 .. m + 1 PROVE Step(g, k) = Step(f, k)
          OBVIOUS
      <4>1. k = 0 \/ k - 1 \in 0 .. m
          OBVIOUS
      <4>2. k = 0 \/ g[k - 1] = f[k - 1]
          BY <3>2, <4>1
      <4> QED
          BY <4>2, Zenon
    <3>4. Begun(g, m + 1)
      <4> HIDE DEF Step
      <4> QED
          BY <3>3, Zenon
    <3> HIDE DEF Begun, g
    <3> QED
        BY <3>4
  <2> HIDE DEF T
  <2>3. n \in T
      BY <1>1, <2>1, <2>2, Climb
  <2> QED
      BY <2>3, Zenon DEF T
<1>3. read = [k \in 0 .. n |-> Step(read, k)]
    BY <1>2
<1>4. FromOctets(s) = read[n]
    BY DEF FromOctets
<1> HIDE DEF read
<1>5. \A k \in 0 .. n : read[k] = Step(read, k)
    BY <1>3, Zenon
<1>6. read[0] = 0
    BY <1>1, <1>5
<1>7. \A k \in 1 .. n : read[k] = read[k - 1] * Pow(OctetBits) + s[k]
    BY <1>1, <1>5 DEF Pow
<1>8. \A k \in 0 .. n : read[k] \in Nat
  <2> DEFINE T == {m \in Nat : m <= n => read[m] \in Nat}
  <2>1. 0 \in T
      BY <1>6
  <2>2. ASSUME NEW m \in Nat, m \in T PROVE m + 1 \in T
    <3> SUFFICES ASSUME m + 1 <= n PROVE read[m + 1] \in Nat
        OBVIOUS
    <3>1. m + 1 \in 1 .. n /\ (m + 1) - 1 = m /\ read[m] \in Nat
        BY <1>1, <2>2
    <3>2. read[m + 1] = read[m] * Pow(OctetBits) + s[m + 1] /\ s[m + 1] \in Nat
        BY <1>1, <1>7, <3>1
    <3>3. Pow(OctetBits) \in Nat
        BY OctetTyped
    <3>4. read[m] * Pow(OctetBits) \in Nat
        BY <3>1, <3>3
    <3> QED
        BY <3>2, <3>4
  <2> HIDE DEF T
  <2>3. \A m \in Nat : m \in T
      BY <2>1, <2>2, Climb
  <2> QED
      BY <1>1, <2>3 DEF T
<1>9. read \in [0 .. n -> Nat]
  <2> HIDE DEF Step
  <2>1. \E f : read = [k \in 0 .. n |-> f[k]]
    <3>1. read = [k \in 0 .. n |-> read[k]]
        BY <1>3, <1>5, Zenon
    <3> QED
        BY <3>1
  <2> QED
      BY <1>8, <2>1
<1> QED
    BY <1>4, <1>6, <1>7, <1>9 DEF ReadOf

LEMMA FieldOctetsTyped == FieldOctets \in Nat \ {0} /\ WordOctets \in Nat \ {0}
<1> DEFINE x == WordOctets
           y == FieldWords
<1>1. x \in Nat \ {0} /\ y \in Nat \ {0}
    BY BigNumbersAssumption
<1> HIDE DEF x, y
<1>2. x * y \in Nat \ {0}
    BY <1>1
<1> QED
    BY <1>1, <1>2 DEF FieldOctets, x, y

\* What is sent begins with the octets of the number.
LEMMA SentFacts ==
    ASSUME NEW v \in Nat, NEW behind \in [1 .. FieldOctets -> Nat],
           NEW n \in Nat, n = WordOctets * WordsOf(v), n <= FieldOctets
    PROVE  LET s == Sent(v, behind, FieldOctets)
           IN  /\ s \in Seq(Nat) /\ Len(s) = FieldOctets
               /\ \A k \in 1 .. n :
                     s[k] = (v \div Pow(OctetBits * (n - k))) % Pow(OctetBits)
<1> DEFINE o == Octets(v, n)
           d(k) == (v \div Pow(OctetBits * (n - k))) % Pow(OctetBits)
           f == FieldOctets
           t == o \o behind
           s == Sent(v, behind, f)
<1>1. o = [k \in 1 .. n |-> d(k)]
    BY DEF Octets, Pow
<1>2. \A k \in 1 .. n : d(k) \in Nat
  <2> SUFFICES ASSUME NEW k \in 1 .. n PROVE d(k) \in Nat
      OBVIOUS
  <2>1. OctetBits * (n - k) \in Nat
    <3> DEFINE x == OctetBits
               y == n - k
    <3>1. x \in Nat /\ y \in Nat
        BY OctetTyped
    <3> HIDE DEF x, y
    <3>2. x * y \in Nat
        BY <3>1
    <3> QED
        BY <3>2 DEF x, y
  <2>2. Pow(OctetBits * (n - k)) \in Nat \ {0} /\ Pow(OctetBits) \in Nat \ {0}
      BY <2>1, PowAbove, OctetTyped
  <2>3. v \div Pow(OctetBits * (n - k)) \in Nat
      BY <2>2, DivRange
  <2>4. d(k) \in 0 .. Pow(OctetBits) - 1
      BY <2>2, <2>3, DivRange
  <2> QED
      BY <2>2, <2>4
<1>3. f \in Nat \ {0}
    BY FieldOctetsTyped
<1> HIDE DEF d, f
<1>4. o \in Seq(Nat) /\ Len(o) = n /\ \A k \in 1 .. n : o[k] = d(k)
    BY <1>1, <1>2
<1>5. behind \in Seq(Nat) /\ Len(behind) = f
    BY <1>3 DEF f
<1> HIDE DEF o
<1>6. t \in Seq(Nat) /\ Len(t) = n + f /\ \A k \in 1 .. n : t[k] = d(k)
  <2>1. \A x, y \in Seq(Nat) :
           /\ x \o y \in Seq(Nat) /\ Len(x \o y) = Len(x) + Len(y)
           /\ \A k \in 1 .. Len(x) + Len(y) :
                 (x \o y)[k] = IF k <= Len(x) THEN x[k] ELSE y[k - Len(x)]
    <3> SUFFICES ASSUME NEW x \in Seq(Nat), NEW y \in Seq(Nat)
                 PROVE  /\ x \o y \in Seq(Nat) /\ Len(x \o y) = Len(x) + Len(y)
                        /\ \A k \in 1 .. Len(x) + Len(y) :
                              (x \o y)[k] = IF k <= Len(x) THEN x[k] ELSE y[k - Len(x)]
        OBVIOUS
    <3> QED
        BY ONLY ConcatProperties
  <2>2. /\ t \in Seq(Nat) /\ Len(t) = n + f
        /\ \A k \in 1 .. n + f : t[k] = IF k <= n THEN o[k] ELSE behind[k - n]
    <3>1. /\ t \in Seq(Nat) /\ Len(t) = Len(o) + Len(behind)
          /\ \A k \in 1 .. Len(o) + Len(behind) :
                t[k] = IF k <= Len(o) THEN o[k] ELSE behind[k - Len(o)]
        BY ONLY <1>4, <1>5, <2>1
    <3> QED
        BY <1>4, <1>5, <3>1
  <2>3. \A k \in 1 .. n : k \in 1 .. n + f /\ k <= n
      BY <1>3
  <2> QED
      BY <1>4, <2>2, <2>3
<1>7. s = SubSeq(t, 1, f)
    BY DEF Sent, o
<1> HIDE DEF s, t
<1>8. s \in Seq(Nat) /\ Len(s) = f /\ \A k \in 1 .. f : s[k] = t[k]
    BY <1>3, <1>6, <1>7
<1>9. \A k \in 1 .. n : k \in 1 .. f
    BY <1>3 DEF f
<1> QED
    BY <1>6, <1>8, <1>9 DEF s, d, f

\* After the octets of the number the peer has the number.
LEMMA ReadFirst ==
    ASSUME NEW v \in Nat, NEW n \in Nat, v < Pow(OctetBits * n), NEW s \in Seq(Nat),
           n <= Len(s), NEW R \in ReadOf(s),
           \A k \in 1 .. n : s[k] = (v \div Pow(OctetBits * (n - k))) % Pow(OctetBits)
    PROVE  R[n] = v
<1> DEFINE w == OctetBits
           d(k) == v \div Pow(w * (n - k))
           T == {k \in Nat : k <= n => R[k] = d(k)}
<1>1. w \in Nat \ {0} /\ Pow(w) \in Nat \ {0}
    BY OctetTyped
<1>2. \A k \in Nat : w * k \in Nat /\ Pow(w * k) \in Nat \ {0}
  <2>1. \A k \in Nat : w * k \in Nat
    <3> HIDE DEF w
    <3> QED
        BY <1>1
  <2> QED
      BY <2>1, PowAbove
<1>3. /\ R[0] = 0 /\ Len(s) \in Nat
      /\ \A k \in 1 .. Len(s) : R[k] = R[k - 1] * Pow(w) + s[k]
    BY DEF ReadOf
<1>4. 0 \in T
  <2> DEFINE p == Pow(w * n)
  <2>0. p \in Nat \ {0} /\ v < p
      BY <1>2
  <2> HIDE DEF p
  <2>1. v \in 0 .. p - 1 /\ v = p * 0 + v
      BY <2>0
  <2>2. v \div p = 0
      BY <2>0, <2>1, DivUnique
  <2>3. n - 0 = n
      OBVIOUS
  <2> QED
      BY <1>3, <2>2, <2>3 DEF p
<1>5. ASSUME NEW k \in Nat, k \in T PROVE k + 1 \in T
  <2> SUFFICES ASSUME k + 1 <= n PROVE R[k + 1] = d(k + 1)
      OBVIOUS
  <2> DEFINE j == n - (k + 1)
             y == v \div Pow(w * j)
             p == Pow(w)
  <2>1. j \in Nat /\ n - k = j + 1
      OBVIOUS
  <2>2. Pow(w * (n - k)) = Pow(w * j) * p
    <3>1. w * (j + 1) = w * j + w
        BY <1>1, <2>1
    <3>2. Pow(w * j + w) = Pow(w * j) * Pow(w)
        BY <1>1, <1>2, <2>1, PowAdd
    <3> QED
        BY <2>1, <3>1, <3>2
  <2>3. d(k) = y \div p
    <3> DEFINE q == Pow(w * j)
    <3>1. q \in Nat \ {0} /\ p \in Nat \ {0}
        BY <1>1, <1>2, <2>1
    <3>2. Pow(w * (n - k)) = q * p
        BY <2>2
    <3> HIDE DEF q, p
    <3>3. (v \div q) \div p = v \div (q * p)
        BY <3>1, DivDiv
    <3> QED
        BY <3>2, <3>3 DEF q
  <2>4. k + 1 \in 1 .. n /\ k + 1 \in 1 .. Len(s) /\ (k + 1) - 1 = k
      BY <1>3
  <2>5. R[k + 1] = R[k] * p + s[k + 1] /\ R[k] = d(k) /\ s[k + 1] = y % p
      BY <1>3, <1>5, <2>4
  <2>6. y \in Nat /\ p \in Nat \ {0}
      BY <1>1, <1>2, <2>1, DivRange
  <2> HIDE DEF y, p, d
  <2>7. y = p * (y \div p) + (y % p) /\ y \div p \in Nat
      BY <2>6, Divided, DivRange
  <2>8. p * (y \div p) = (y \div p) * p
      BY <2>6, <2>7
  <2>9. R[k + 1] = y
      BY <2>3, <2>5, <2>7, <2>8
  <2> QED
      BY <2>9 DEF y, d
<1> HIDE DEF T
<1>6. n \in T
    BY <1>4, <1>5, Climb
<1>7. R[n] = d(n) /\ n - n = 0 /\ w * 0 = 0
    BY <1>1, <1>6 DEF T
<1>8. v \div 1 = v
  <2>1. 1 \in Nat \ {0} /\ 0 \in 0 .. 1 - 1 /\ 1 * v + 0 = v
      OBVIOUS
  <2>2. (1 * v + 0) \div 1 = v
      BY <2>1, DivUnique
  <2> QED
      BY <2>1, <2>2
<1> QED
    BY <1>7, <1>8, PowZero

\* Every octet that is read behind a number other than zero makes it larger.
LEMMA ReadMore ==
    ASSUME NEW v \in Nat \ {0}, NEW n \in Nat, NEW s \in Seq(Nat), n < Len(s),
           NEW R \in ReadOf(s), R[n] = v
    PROVE  R[Len(s)] > v
<1> DEFINE p == Pow(OctetBits)
           l == Len(s)
           T == {k \in Nat : n + 1 + k <= l => R[n + 1 + k] > v}
<1>1. p \in Nat /\ p >= 2
  <2>1. 1 <= OctetBits /\ OctetBits \in Nat
      BY OctetTyped
  <2>2. Pow(1) <= Pow(OctetBits) /\ Pow(OctetBits) \in Nat
      BY <2>1, PowGrows, PowAbove
  <2>3. Pow(0 + 1) = 2 * Pow(0)
      BY PowNext
  <2> QED
      BY <2>2, <2>3, PowZero
<1>2. /\ l \in Nat /\ \A k \in 1 .. l : s[k] \in Nat
      /\ \A k \in 0 .. l : R[k] \in Nat
      /\ \A k \in 1 .. l : R[k] = R[k - 1] * p + s[k]
  <2>1. l \in Nat /\ \A k \in 1 .. l : s[k] \in Nat
      OBVIOUS
  <2>2. /\ R \in [0 .. Len(s) -> Nat]
        /\ \A k \in 1 .. Len(s) : R[k] = R[k - 1] * Pow(OctetBits) + s[k]
      BY DEF ReadOf
  <2> QED
      BY <2>1, <2>2
<1> HIDE DEF p, l
<1>3. \A x \in Nat : x <= x * p /\ (x # 0 => x < x * p) /\ x * p \in Nat
    BY <1>1
<1>4. 0 \in T
  <2>1. n + 1 \in 1 .. l /\ (n + 1) - 1 = n
      BY <1>2 DEF l
  <2>2. R[n + 1] = v * p + s[n + 1] /\ s[n + 1] \in Nat
      BY <1>2, <2>1
  <2>0. v < v * p /\ v * p \in Nat
      BY <1>3
  <2>3. R[n + 1] > v
      BY <2>0, <2>2
  <2> QED
      BY <2>3
<1>5. ASSUME NEW k \in Nat, k \in T PROVE k + 1 \in T
  <2> SUFFICES ASSUME n + 1 + (k + 1) <= l PROVE R[n + 1 + (k + 1)] > v
      OBVIOUS
  <2> DEFINE i == n + 1 + k
  <2>1. i \in Nat /\ i + 1 = n + 1 + (k + 1) /\ i + 1 \in 1 .. l /\ i \in 0 .. l /\ i <= l
      BY <1>2
  <2>2. R[i] > v /\ R[i] \in Nat
      BY <1>2, <1>5, <2>1
  <2> HIDE DEF i
  <2>3. R[i + 1] = R[i] * p + s[i + 1] /\ s[i + 1] \in Nat
    <3>1. (i + 1) - 1 = i
        BY <2>1
    <3> QED
        BY <1>2, <2>1, <3>1
  <2>4. R[i] <= R[i] * p /\ R[i] * p \in Nat
      BY <1>3, <2>2
  <2>5. R[i + 1] > v
      BY <2>2, <2>3, <2>4
  <2> QED
      BY <2>1, <2>5
<1> HIDE DEF T
<1>6. \A k \in Nat : k \in T
    BY <1>4, <1>5, Climb
<1> DEFINE k == l - (n + 1)
<1>7. k \in Nat /\ n + 1 + k = l /\ n + 1 + k <= l
    BY <1>2 DEF l
<1> HIDE DEF k
<1>8. R[n + 1 + k] > v
    BY <1>6, <1>7 DEF T
<1> QED
    BY <1>7, <1>8 DEF l

\* The words of a number that fits into a field: all of them, if the top word
\* is not zero, and fewer, if it is.
LEMMA FieldFilled ==
    ASSUME NEW v \in Nat, v < Pow(WordBits * FieldWords)
    PROVE  /\ WordsOf(v) <= FieldWords /\ v < Pow(WordBits * WordsOf(v))
           /\ v >= Pow(WordBits * (FieldWords - 1)) => WordsOf(v) = FieldWords
           /\ v < Pow(WordBits * (FieldWords - 1)) /\ v # 0 => WordsOf(v) < FieldWords
<1> DEFINE b == WordBits
           f == FieldWords
           w == WordsOf(v)
           l == BitLen(v)
<1>1. b \in Nat \ {0} /\ f \in Nat \ {0}
    BY WordBitsTyped, BigNumbersAssumption
<1>2. l \in Nat \ {0} /\ v < Pow(l) /\ Abs(v) = v
    BY BitLenFacts DEF Abs
<1>3. w \in Nat \ {0} /\ l <= b * w
    BY <1>2, WordsFacts DEF WordsOf
<1>4. \A m \in Nat \ {0}, k \in Nat : v < Pow(m) /\ m = b * k => w <= k
  <2> SUFFICES ASSUME NEW m \in Nat \ {0}, NEW k \in Nat, v < Pow(m), m = b * k
               PROVE  w <= k
      OBVIOUS
  <2>1. l <= m
      BY <1>2, BitLenLeast
  <2> QED
      BY <1>2, <2>1, WordsLeast DEF WordsOf
<1> HIDE DEF b, w, l
<1>5. \A k \in Nat : b * k \in Nat /\ Pow(b * k) \in Nat
    BY <1>1, PowAbove
<1>6. v < Pow(b * w)
  <2>1. Pow(l) <= Pow(b * w) /\ Pow(l) \in Nat /\ Pow(b * w) \in Nat
      BY <1>2, <1>3, <1>5, PowGrows, PowAbove
  <2> QED
      BY <1>2, <2>1
<1>7. w <= f
  <2>1. b * f \in Nat \ {0}
      BY <1>1
  <2> QED
      BY <1>1, <1>4, <2>1 DEF b
<1>8. ASSUME v >= Pow(b * (f - 1)) PROVE w = f
  <2> SUFFICES ASSUME w # f PROVE FALSE
      OBVIOUS
  <2>1. w <= f - 1 /\ f - 1 \in Nat
      BY <1>1, <1>3, <1>7
  <2>2. b * w <= b * (f - 1) /\ b * w \in Nat /\ b * (f - 1) \in Nat
      BY <1>1, <1>3, <2>1
  <2>3. Pow(b * w) <= Pow(b * (f - 1)) /\ Pow(b * w) \in Nat /\ Pow(b * (f - 1)) \in Nat
      BY <2>2, PowGrows, PowAbove
  <2> QED
      BY <1>6, <1>8, <2>3
<1>9. ASSUME v < Pow(b * (f - 1)), v # 0 PROVE w < f
  <2>1. f # 1
    <3> SUFFICES ASSUME f = 1 PROVE FALSE
        OBVIOUS
    <3>1. b * (f - 1) = 0
        BY <1>1
    <3> QED
        BY <1>9, <3>1, PowZero
  <2>2. f - 1 \in Nat /\ b * (f - 1) \in Nat \ {0}
      BY <1>1, <2>1
  <2>3. w <= f - 1
      BY <1>4, <1>9, <2>2
  <2> QED
      BY <1>1, <1>3, <2>3
<1> QED
    BY <1>6, <1>7, <1>8, <1>9 DEF b, f, w

LEMMA TransferExact ==
    ASSUME NEW v \in Nat, v < Pow(WordBits * FieldWords),
           NEW behind \in [1 .. FieldOctets -> Nat]
    PROVE  /\ v >= Pow(WordBits * (FieldWords - 1)) => Transfer(v, behind) = v
           /\ v < Pow(WordBits * (FieldWords - 1)) /\ v # 0 => Transfer(v, behind) # v
<1> DEFINE w == WordsOf(v)
           n == WordOctets * w
           f == FieldOctets
           s == Sent(v, behind, f)
<1>1. /\ w \in Nat \ {0} /\ w <= FieldWords /\ v < Pow(WordBits * w)
      /\ FieldWords \in Nat /\ WordOctets \in Nat \ {0} /\ f \in Nat
      /\ OctetBits \in Nat
    BY WordsOfTyped, FieldFilled, BigNumbersAssumption, FieldOctetsTyped
<1>2. /\ n \in Nat /\ n <= f /\ (w < FieldWords => n < f)
      /\ (w = FieldWords => n = f)
  <2> DEFINE x == WordOctets
             y == FieldWords
  <2>1. x \in Nat \ {0} /\ y \in Nat /\ w \in Nat /\ w <= y /\ f = x * y
      BY <1>1 DEF FieldOctets
  <2> HIDE DEF w, x, y, f
  <2>2. x * w \in Nat /\ x * w <= x * y /\ (w < y => x * w < x * y)
      BY <2>1
  <2> QED
      BY <2>1, <2>2 DEF x, y
<1>3. v < Pow(OctetBits * n)
  <2>1. OctetBits * (WordOctets * w) = (OctetBits * WordOctets) * w
      BY <1>1
  <2> QED
      BY <1>1, <2>1 DEF WordBits
<1>4. /\ s \in Seq(Nat) /\ Len(s) = f
      /\ \A k \in 1 .. n : s[k] = (v \div Pow(OctetBits * (n - k))) % Pow(OctetBits)
  <2> HIDE DEF f
  <2>1. n <= FieldOctets
      BY <1>2 DEF f
  <2> QED
      BY <1>2, <2>1, SentFacts DEF f
<1>5. PICK R \in ReadOf(s) : FromOctets(s) = R[Len(s)]
    BY <1>4, FromOctetsSteps
<1>6. Transfer(v, behind) = R[f]
    BY <1>4, <1>5 DEF Transfer
<1>7. R[n] = v
  <2> HIDE DEF n, f, s
  <2> QED
      BY <1>2, <1>3, <1>4, ReadFirst
<1>8. w = FieldWords => R[f] = v
    BY <1>2, <1>7
<1>9. v # 0 /\ w < FieldWords => R[f] > v
  <2> SUFFICES ASSUME v # 0, n < f PROVE R[f] > v
      BY <1>2
  <2> HIDE DEF n, f, s
  <2> QED
      BY <1>2, <1>4, <1>7, ReadMore
<1>10. /\ v >= Pow(WordBits * (FieldWords - 1)) => w = FieldWords
       /\ v < Pow(WordBits * (FieldWords - 1)) /\ v # 0 => w < FieldWords
    BY FieldFilled
<1> HIDE DEF w, f
<1> QED
    BY <1>6, <1>8, <1>9, <1>10

-----------------------------------------------------------------------------
(* The invariant: which operator the answer is of.                         *)

NumInv ==
    /\ operands \in Int \X Int
    /\ LET a == operands[1]
           b == operands[2]
           modular == a \in Nat /\ b \in Nat \ {0}
       IN  /\ operation = "+" => answer = Plus(a, b)
           /\ operation = "-" => answer = Minus(a, b)
           /\ operation = "*" => answer = Times(a, b)
           /\ operation = "compare" => answer = Compare(a, b)
           /\ operation = "/" => modular /\ answer = Quotient(a, b)
           /\ operation = "ModAdd" => modular /\ answer = ModAdd(b, a, a)
           /\ operation = "ModSub" => modular /\ answer = ModSub(b, 0, a)
           /\ operation = "ModMul" => modular /\ answer = ModMul(b, a, a)
           /\ operation = "LSB" => answer = LSB(a)
           /\ operation = "MSB" => answer = MSB(a)
           /\ operation = "transfer" =>
                 /\ a \in Nat /\ a < Pow(WordBits * FieldWords)
                 /\ \E behind \in [1 .. FieldOctets -> Nat] : answer = Transfer(a, behind)

LEMMA NumInvInit == (\E a, b \in Int : NumberInit(a, b)) => NumInv
<1> SUFFICES ASSUME NEW a \in Int, NEW b \in Int, NumberInit(a, b) PROVE NumInv
    OBVIOUS
<1>1. operands = <<a, b>> /\ operation = ""
    BY DEF NumberInit
<1>2. operands \in Int \X Int
    BY <1>1
<1> QED
    BY <1>1, <1>2 DEF NumInv

LEMMA NumInvNext == NumInv /\ [NumberNext]_numberVars => NumInv'
<1> SUFFICES ASSUME NumInv, [NumberNext]_numberVars PROVE NumInv'
    OBVIOUS
<1> DEFINE a == operands[1]
           b == operands[2]
<1>1. a \in Int /\ b \in Int /\ operands \in Int \X Int
    BY DEF NumInv
<1>2. CASE UNCHANGED numberVars
    BY <1>2 DEF numberVars, NumInv
<1>3. CASE \/ Apply("+", Plus(a, b)) \/ Apply("-", Minus(a, b))
           \/ Apply("*", Times(a, b)) \/ Apply("compare", Compare(a, b))
           \/ Apply("LSB", LSB(a)) \/ Apply("MSB", MSB(a))
    BY <1>1, <1>3 DEF Apply, NumInv
<1>4. CASE /\ b > 0 /\ a >= 0
           /\ \/ Apply("/", Quotient(a, b)) \/ Apply("ModAdd", ModAdd(b, a, a))
              \/ Apply("ModSub", ModSub(b, 0, a)) \/ Apply("ModMul", ModMul(b, a, a))
  <2>1. a \in Nat /\ b \in Nat \ {0}
      BY <1>1, <1>4
  <2> QED
      BY <1>1, <1>4, <2>1 DEF Apply, NumInv
<1>5. CASE /\ a \in 0 .. 2^(WordBits * FieldWords) - 1
           /\ \E behind \in [1..FieldOctets -> {0, 2^OctetBits - 1}] :
                 Apply("transfer", Transfer(a, behind))
  <2>1. PICK behind \in [1..FieldOctets -> {0, Pow(OctetBits) - 1}] :
               Apply("transfer", Transfer(a, behind))
      BY <1>5 DEF Pow
  <2>2. behind \in [1 .. FieldOctets -> Nat]
    <3>1. Pow(OctetBits) - 1 \in Nat
        BY OctetTyped
    <3> QED
        BY <3>1
  <2>3. a \in Nat /\ a < Pow(WordBits * FieldWords)
    <3> DEFINE m == WordBits * FieldWords
    <3>1. m \in Nat
        BY WordBitsTyped, BigNumbersAssumption
    <3>2. a \in 0 .. Pow(m) - 1
        BY <1>5 DEF Pow
    <3> HIDE DEF m
    <3>3. Pow(m) \in Nat
        BY <3>1, PowAbove
    <3>4. a \in Nat /\ a < Pow(m)
        BY <1>1, <3>2, <3>3
    <3> QED
        BY <3>4 DEF m
  <2>4. /\ operands' = operands /\ operation' = "transfer"
        /\ answer' = Transfer(a, behind)
      BY <2>1 DEF Apply
  <2> QED
      BY <1>1, <2>2, <2>3, <2>4 DEF NumInv
<1> QED
    BY <1>2, <1>3, <1>4, <1>5 DEF NumberNext

LEMMA NumInvAlways == NumberSpec => []NumInv
BY NumInvInit, NumInvNext, PTL DEF NumberSpec

LEMMA NumInvExact == NumInv => NumbersExact
<1> SUFFICES ASSUME NumInv PROVE NumbersExact
    OBVIOUS
<1> DEFINE a == operands[1]
           b == operands[2]
           modular == a \in Nat /\ b \in Nat \ {0}
           carry == \E k \in 1 .. WordsOf(a) + WordsOf(b) :
                       /\ a * b < 0
                       /\ Abs(a) < 2^(WordBits * k) /\ Abs(b) < 2^(WordBits * k)
                       /\ Abs(a) + Abs(b) >= 2^(WordBits * k)
<1>1. a \in Int /\ b \in Int
    BY DEF NumInv
<1>2. /\ operation = "+" => answer = Plus(a, b)
      /\ operation = "-" => answer = Minus(a, b)
      /\ operation = "*" => answer = Times(a, b)
      /\ operation = "compare" => answer = Compare(a, b)
      /\ operation = "/" => modular /\ answer = Quotient(a, b)
      /\ operation = "ModAdd" => modular /\ answer = ModAdd(b, a, a)
      /\ operation = "ModSub" => modular /\ answer = ModSub(b, 0, a)
      /\ operation = "ModMul" => modular /\ answer = ModMul(b, a, a)
      /\ operation = "LSB" => answer = LSB(a)
      /\ operation = "MSB" => answer = MSB(a)
    BY DEF NumInv
<1>3. carry <=> Carry(a, b)
    BY DEF Carry, Pow
<1> HIDE DEF a, b, carry
<1>4. operation = "+" => answer = a + b
    BY <1>1, <1>2, PlusExact
<1>5. operation = "*" => answer = a * b
    BY <1>1, <1>2, TimesExact
<1>6. operation = "-" => answer = IF carry THEN Lost ELSE a - b
    BY <1>1, <1>2, <1>3, MinusExact
<1>7. operation = "compare" =>
          IF carry THEN answer = Lost
          ELSE answer \in -1..1 /\ (answer > 0 <=> a > b) /\ (answer < 0 <=> a < b)
    BY <1>1, <1>2, <1>3, CompareExact
<1>8. operation = "/" => answer * b <= a /\ a < answer * b + b
    BY <1>2, QuotientExact
<1>9. operation = "ModAdd" => answer = (a + a) % b
    BY <1>2, ModAddExact
<1>10. operation = "ModSub" => answer \in 0 .. b - 1 /\ (answer + a) % b = 0
    BY <1>2, ModSubExact
<1>11. operation = "ModMul" => answer = (a * a) % b
    BY <1>2, ModMulExact
<1>12. operation = "LSB" /\ a # 0 =>
          \E odd \in 1 .. Abs(a) : odd % 2 = 1 /\ Abs(a) = odd * 2^answer
    BY <1>1, <1>2, LSBExact DEF Pow
<1>13. operation = "MSB" /\ a # 0 => 2^answer <= Abs(a) /\ Abs(a) < 2^(answer + 1)
    BY <1>1, <1>2, MSBExact DEF Pow
<1> QED
    BY <1>4, <1>5, <1>6, <1>7, <1>8, <1>9, <1>10, <1>11, <1>12, <1>13
    DEF NumbersExact, a, b, carry

LEMMA NumInvCarried == NumInv => Carried
<1> SUFFICES ASSUME NumInv, operation = "transfer"
             PROVE  LET v == operands[1]
                    IN  /\ v >= Pow(WordBits * (FieldWords - 1)) => answer = v
                        /\ v < Pow(WordBits * (FieldWords - 1)) /\ v # 0 => answer # v
    BY DEF Carried, Pow
<1> DEFINE v == operands[1]
<1>1. /\ v \in Nat /\ v < Pow(WordBits * FieldWords)
      /\ \E behind \in [1 .. FieldOctets -> Nat] : answer = Transfer(v, behind)
    BY DEF NumInv
<1> HIDE DEF v
<1>2. PICK behind \in [1 .. FieldOctets -> Nat] : answer = Transfer(v, behind)
    BY <1>1
<1>3. /\ v >= Pow(WordBits * (FieldWords - 1)) => answer = v
      /\ v < Pow(WordBits * (FieldWords - 1)) /\ v # 0 => answer # v
    BY <1>1, <1>2, TransferExact
<1> QED
    BY <1>3 DEF v

\* For all integers and all widths, each operator of BigNumber gives the number
\* it is named after, except for the difference of numbers of different signs
\* whose magnitudes carry into a new word, and LSB and MSB find the lowest and
\* the highest bit that is set.
THEOREM AlwaysNumbersExact == NumberSpec => []NumbersExact
BY NumInvAlways, NumInvExact, PTL

\* For all widths and whatever lies behind the octets of a coordinate, the peer
\* reads the coordinate if its top word is not zero, and another number if it
\* is, unless the coordinate is zero.
THEOREM AlwaysCarried == NumberSpec => []Carried
BY NumInvAlways, NumInvCarried, PTL

=============================================================================
