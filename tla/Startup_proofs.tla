--------------------------- MODULE Startup_proofs ---------------------------
(***************************************************************************)
(* What parse_options, read_elements and oaid_hashpoint compute, proved    *)
(* for every command line, every file, every curve and every width of the  *)
(* header.                                                                 *)
(***************************************************************************)
EXTENDS Startup, SequenceTheorems, WellFoundedInduction, TLAPS

-----------------------------------------------------------------------------
(* Sets of numbers.                                                        *)

LEMMA SmallestOf ==
    ASSUME NEW S \in SUBSET Nat, S # {}
    PROVE  \E m \in S : \A k \in S : m <= k
<1>1. PICK m \in S : \A k \in S : ~(<<k, m>> \in OpToRel(<, Nat))
    BY NatLessThanWellFounded, WFMin
<1>2. ASSUME NEW k \in S PROVE m <= k
  <2>1. ~(<<k, m>> \in OpToRel(<, Nat))
      BY <1>1
  <2>2. k \in Nat /\ m \in Nat
      OBVIOUS
  <2>3. ~(k < m)
      BY <2>1, <2>2 DEF OpToRel
  <2> QED
      BY <2>2, <2>3
<1> QED
    BY <1>2

\* Induction, with a set for the predicate.
LEMMA Climb ==
    ASSUME NEW S, 0 \in S, \A k \in Nat : k \in S => k + 1 \in S
    PROVE  \A k \in Nat : k \in S
<1> SUFFICES ASSUME Nat \ S # {} PROVE FALSE
    OBVIOUS
<1>1. PICK m \in Nat \ S : \A k \in Nat \ S : m <= k
    BY SmallestOf
<1>2. m # 0 /\ m - 1 \in Nat
    BY <1>1
<1>3. m - 1 \in S
    BY <1>1, <1>2
<1> QED
    BY <1>2, <1>3

LEMMA LargestOf ==
    ASSUME NEW S \in SUBSET Nat, NEW n \in Nat, S # {}, \A k \in S : k <= n
    PROVE  \E m \in S : \A k \in S : k <= m
<1> DEFINE T == {n - k : k \in S}
<1>1. T \in SUBSET Nat /\ T # {}
  <2>1. \A k \in S : k \in Int /\ n - k \in Nat
      OBVIOUS
  <2> QED
      BY <2>1
<1>2. PICK x \in T : \A y \in T : x <= y
    BY <1>1, SmallestOf
<1>3. PICK m \in S : x = n - m
    OBVIOUS
<1>4. ASSUME NEW k \in S PROVE k <= m
  <2>1. n - m <= n - k /\ k \in Nat /\ m \in Nat
      BY <1>2, <1>3
  <2> QED
      BY <2>1
<1> QED
    BY <1>4

-----------------------------------------------------------------------------
(* A sequence of sequences, joined from either end.                        *)

\* FlattenSeq by its steps.
LEMMA FlattenSteps ==
    ASSUME NEW W, NEW s \in Seq(Seq(W))
    PROVE  \E P \in [0 .. Len(s) -> Seq(W)] :
              /\ P[0] = <<>> /\ P[Len(s)] = FlattenSeq(s)
              /\ \A k \in 1 .. Len(s) : P[k] = P[k - 1] \o s[k]
<1> DEFINE n == Len(s)
           Step(f, i) == IF i = 1 THEN s[i] ELSE f[i - 1] \o s[i]
           flat == CHOOSE f : f = [i \in 1 .. n |-> Step(f, i)]
           P == [k \in 0 .. n |-> IF k = 0 THEN <<>> ELSE flat[k]]
<1>1. n \in Nat /\ \A i \in 1 .. n : s[i] \in Seq(W)
    OBVIOUS
<1>2. <<>> \in Seq(W) /\ \A t \in Seq(W) : <<>> \o t = t
    BY EmptySeq, ConcatEmptySeq
<1>3. \E f : f = [i \in 1 .. n |-> Step(f, i)]
  <2> DEFINE Begun(f, m) == f = [i \in 1 .. m |-> Step(f, i)]
             T == {m \in Nat : \E f : Begun(f, m)}
  <2>1. 0 \in T
    <3>1. Begun([i \in 1 .. 0 |-> s[i]], 0)
        OBVIOUS
    <3> HIDE DEF Begun
    <3> QED
        BY <3>1
  <2>2. ASSUME NEW m \in Nat, m \in T PROVE m + 1 \in T
    <3>1. PICK f : Begun(f, m)
        BY <2>2
    <3> DEFINE g == [i \in 1 .. m + 1 |-> Step(f, i)]
    <3>2. \A i \in 1 .. m : g[i] = f[i]
      <4>1. \A i \in 1 .. m : i \in 1 .. m + 1
          OBVIOUS
      <4>2. \A i \in 1 .. m : f[i] = Step(f, i)
          BY <3>1, Zenon
      <4>3. \A i \in 1 .. m + 1 : g[i] = Step(f, i)
          BY Zenon
      <4> QED
          BY <4>1, <4>2, <4>3, Zenon
    <3>3. \A i \in 1 .. m + 1 : Step(g, i) = Step(f, i)
      <4> HIDE DEF g
      <4> SUFFICES ASSUME NEW i \in 1 .. m + 1 PROVE Step(g, i) = Step(f, i)
          OBVIOUS
      <4>1. i = 1 \/ i - 1 \in 1 .. m
          OBVIOUS
      <4>2. i = 1 \/ g[i - 1] = f[i - 1]
          BY <3>2, <4>1
      <4> QED
          BY <4>2, Zenon
    <3>4. Begun(g, m + 1)
      <4> HIDE DEF Step
      <4> QED
          BY <3>3, Zenon
    <3> HIDE DEF Begun, g
    <3> QED
        BY <3>4
  <2> HIDE DEF T
  <2>3. n \in T
      BY <1>1, <2>1, <2>2, Climb
  <2> QED
      BY <2>3, Zenon DEF T
<1>4. flat = [i \in 1 .. n |-> Step(flat, i)]
    BY <1>3
<1>5. n # 0 => FlattenSeq(s) = flat[n]
    BY DEF FlattenSeq
<1>6. n = 0 => FlattenSeq(s) = <<>>
    BY DEF FlattenSeq
<1> HIDE DEF flat
<1>7. \A k \in 1 .. n : P[k] = P[k - 1] \o s[k]
  <2> SUFFICES ASSUME NEW k \in 1 .. n PROVE P[k] = P[k - 1] \o s[k]
      OBVIOUS
  <2>1. k - 1 \in 0 .. n /\ k \in 0 .. n /\ k # 0
      BY <1>1
  <2>2. P[k] = flat[k] /\ flat[k] = Step(flat, k)
      BY <1>4, <2>1, Zenon
  <2>3. CASE k = 1
    <3>1. P[0] = <<>> /\ k - 1 = 0
        BY <2>1, <2>3
    <3>2. P[k] = s[k]
        BY <2>2, <2>3, Zenon
    <3> QED
        BY <1>1, <1>2, <3>1, <3>2
  <2>4. CASE k # 1
    <3>1. k - 1 # 0
        BY <2>4
    <3>2. P[k - 1] = flat[k - 1]
        BY <2>1, <3>1, Zenon
    <3> QED
        BY <2>2, <2>4, <3>2, Zenon
  <2> QED
      BY <2>3, <2>4
<1>8. \A k \in 0 .. n : P[k] \in Seq(W)
  <2> DEFINE T == {m \in Nat : m <= n => P[m] \in Seq(W)}
  <2>1. 0 \in T
      BY <1>1, <1>2
  <2>2. ASSUME NEW m \in Nat, m \in T PROVE m + 1 \in T
    <3> SUFFICES ASSUME m + 1 <= n PROVE P[m + 1] \in Seq(W)
        OBVIOUS
    <3>1. P[m] \in Seq(W) /\ m + 1 \in 1 .. n /\ (m + 1) - 1 = m
        BY <1>1, <2>2
    <3>2. P[m + 1] = P[m] \o s[m + 1] /\ s[m + 1] \in Seq(W)
        BY <1>1, <1>7, <3>1
    <3> HIDE DEF P
    <3> QED
        BY <3>1, <3>2, ConcatProperties
  <2> HIDE DEF T, P
  <2>3. \A m \in Nat : m \in T
      BY <2>1, <2>2, Climb
  <2> QED
      BY <1>1, <2>3 DEF T
<1>9. P \in [0 .. n -> Seq(W)] /\ P[0] = <<>> /\ P[n] = FlattenSeq(s)
    BY <1>1, <1>5, <1>6, <1>8
<1> QED
    BY <1>7, <1>9

\* The same from the other end: what is left behind the first k parts.
LEMMA FlattenRests ==
    ASSUME NEW W, NEW s \in Seq(Seq(W))
    PROVE  \E R \in [0 .. Len(s) -> Seq(W)] :
              /\ R[0] = FlattenSeq(s) /\ R[Len(s)] = <<>>
              /\ \A k \in 0 .. Len(s) - 1 : R[k] = s[k + 1] \o R[k + 1]
<1> DEFINE n == Len(s)
<1>1. n \in Nat /\ \A i \in 1 .. n : s[i] \in Seq(W)
    OBVIOUS
<1>2. <<>> \in Seq(W) /\ \A t \in Seq(W) : <<>> \o t = t /\ t \o <<>> = t
    BY EmptySeq, ConcatEmptySeq
<1>3. PICK P \in [0 .. n -> Seq(W)] :
              /\ P[0] = <<>> /\ P[n] = FlattenSeq(s)
              /\ \A k \in 1 .. n : P[k] = P[k - 1] \o s[k]
    BY FlattenSteps
<1> DEFINE Left(R, m) == /\ R \in [m .. n -> Seq(W)] /\ R[n] = <<>>
                         /\ \A k \in m .. n - 1 : R[k] = s[k + 1] \o R[k + 1]
                         /\ P[m] \o R[m] = P[n]
           T == {m \in Nat : m <= n => \E R : Left(R, n - m)}
<1>4. 0 \in T
  <2> DEFINE R == [k \in n .. n |-> <<>>]
  <2>1. R \in [n .. n -> Seq(W)] /\ R[n] = <<>> /\ n - 0 = n
      BY <1>1, <1>2
  <2>2. P[n] \o R[n] = P[n]
      BY <1>1, <1>2, <1>3, <2>1
  <2>3. \A k \in n .. n - 1 : FALSE
      BY <1>1
  <2> HIDE DEF R
  <2>4. Left(R, n - 0) /\ 0 \in Nat
      BY <2>1, <2>2, <2>3
  <2> HIDE DEF Left
  <2> QED
      BY <2>4
<1> HIDE DEF Left
<1>5. ASSUME NEW m \in Nat, m \in T PROVE m + 1 \in T
  <2> SUFFICES ASSUME m + 1 <= n PROVE \E R : Left(R, n - (m + 1))
      OBVIOUS
  <2>1. PICK R : Left(R, n - m)
      BY <1>1, <1>5
  <2> DEFINE i == n - (m + 1)
             Q == [k \in i .. n |-> IF k = i THEN s[i + 1] \o R[i + 1] ELSE R[k]]
  <2>2. /\ i \in 0 .. n /\ i + 1 \in 1 .. n /\ n - m = i + 1
        /\ i + 1 \in 0 .. n /\ i + 1 \in i + 1 .. n /\ n # i /\ n \in i .. n
        /\ (i + 1) - 1 = i /\ i \in i .. n
      BY <1>1
  <2> HIDE DEF i
  <2>3. /\ R \in [i + 1 .. n -> Seq(W)] /\ R[n] = <<>>
        /\ \A k \in i + 1 .. n - 1 : R[k] = s[k + 1] \o R[k + 1]
        /\ P[i + 1] \o R[i + 1] = P[n]
        /\ R[i + 1] \in Seq(W) /\ s[i + 1] \in Seq(W) /\ P[i] \in Seq(W)
      BY <1>1, <1>3, <2>1, <2>2 DEF Left
  <2>4. /\ Q[i] = s[i + 1] \o R[i + 1]
        /\ \A k \in i + 1 .. n : k \in i .. n /\ k # i /\ Q[k] = R[k]
    <3>1. \A k \in i + 1 .. n : k \in i .. n /\ k # i
        BY <1>1, <2>2
    <3> QED
        BY <2>2, <3>1
  <2>5. Q[i] \in Seq(W)
    <3>1. \A t, u \in Seq(W) : t \o u \in Seq(W)
        BY ConcatProperties
    <3> QED
        BY <2>3, <2>4, <3>1
  <2>6. \A k \in i .. n : k = i \/ k \in i + 1 .. n
      BY <1>1, <2>2
  <2>7. Q \in [i .. n -> Seq(W)]
    <3>1. \A k \in i .. n : Q[k] \in Seq(W)
        BY <2>3, <2>4, <2>5, <2>6
    <3> QED
        BY <3>1
  <2> HIDE DEF Q
  <2>8. P[i] \o Q[i] = P[n]
    <3>1. P[i + 1] = P[i] \o s[i + 1]
        BY <1>3, <2>2
    <3>2. \A t, u, v \in Seq(W) : t \o (u \o v) = (t \o u) \o v
      <4> SUFFICES ASSUME NEW t \in Seq(W), NEW u \in Seq(W), NEW v \in Seq(W)
                   PROVE  (t \o u) \o v = t \o (u \o v)
          OBVIOUS
      <4> QED
          BY ONLY ConcatAssociative
    <3>3. P[i] \o (s[i + 1] \o R[i + 1]) = (P[i] \o s[i + 1]) \o R[i + 1]
        BY <2>3, <3>2
    <3> QED
        BY <2>3, <2>4, <3>1, <3>3
  <2>9. \A k \in i .. n - 1 : Q[k] = s[k + 1] \o Q[k + 1]
    <3> SUFFICES ASSUME NEW k \in i .. n - 1 PROVE Q[k] = s[k + 1] \o Q[k + 1]
        OBVIOUS
    <3>1. k + 1 \in i + 1 .. n
        BY <1>1, <2>2
    <3>2. CASE k = i
        BY <2>2, <2>4, <3>2
    <3>3. CASE k # i
      <4>1. k \in i + 1 .. n - 1 /\ k \in i + 1 .. n
          BY <1>1, <2>2, <3>3
      <4> QED
          BY <2>3, <2>4, <3>1, <4>1
    <3> QED
        BY <3>2, <3>3
  <2>10. Q[n] = <<>>
      BY <2>2, <2>3, <2>4, <2>6
  <2>11. Left(Q, i)
      BY <2>7, <2>8, <2>9, <2>10 DEF Left
  <2> QED
      BY <2>11 DEF i
<1> HIDE DEF T
<1>6. n \in T
    BY <1>1, <1>4, <1>5, Climb
<1>7. PICK R : Left(R, 0)
  <2>1. n - n = 0 /\ n <= n
      BY <1>1
  <2> QED
      BY <1>6, <2>1 DEF T
<1>8. R[0] = FlattenSeq(s)
  <2>1. R[0] \in Seq(W) /\ P[0] \o R[0] = P[n]
      BY <1>1, <1>7 DEF Left
  <2> QED
      BY <1>2, <1>3, <2>1
<1> QED
    BY <1>7, <1>8 DEF Left

-----------------------------------------------------------------------------
(* Remainders.                                                             *)

LEMMA ModUnique ==
    ASSUME NEW m \in Nat \ {0}, NEW q \in Int, NEW r \in 0 .. m - 1
    PROVE  (m * q + r) % m = r
BY SMT

LEMMA ModRange ==
    ASSUME NEW m \in Nat \ {0}, NEW a \in Nat
    PROVE  a \div m \in Nat /\ a % m \in 0 .. m - 1
BY SMT

LEMMA ModDivide ==
    ASSUME NEW m \in Int, m > 0, NEW a \in Int
    PROVE  a = m * (a \div m) + (a % m)
BY SMTT(60)

LEMMA ModStep ==
    ASSUME NEW m \in Nat \ {0}, NEW a \in Nat, NEW b \in Nat
    PROVE  ((a % m) + b) % m = (a + b) % m
<1> DEFINE q == a \div m
           s == a % m
           c == s + b
           p == c \div m
           r == c % m
<1>1. q \in Nat /\ s \in 0 .. m - 1 /\ a = m * q + s
  <2>1. a = m * (a \div m) + (a % m)
      BY ModDivide
  <2> QED
      BY <2>1, ModRange
<1> HIDE DEF q, s
<1>2. c \in Nat
    BY <1>1
<1> HIDE DEF c
<1>3. p \in Nat /\ r \in 0 .. m - 1 /\ c = m * p + r
  <2>1. c = m * (c \div m) + (c % m)
      BY <1>2, ModDivide
  <2> QED
      BY <2>1, <1>2, ModRange
<1> HIDE DEF p, r
<1>4. a + b = m * (q + p) + r
  <2>1. a + b = m * q + c
      BY <1>1, <1>2 DEF c
  <2>2. m * (q + p) = m * q + m * p
      BY <1>1, <1>3
  <2> QED
      BY <2>1, <2>2, <1>1, <1>2, <1>3
<1>5. (m * (q + p) + r) % m = r
    BY <1>1, <1>3, ModUnique
<1> QED
    BY <1>4, <1>5 DEF r, c, s

LEMMA ModPeriod ==
    ASSUME NEW m \in Nat \ {0}, NEW a \in Nat, NEW b \in Nat
    PROVE  (a + b * m) % m = a % m
<1> DEFINE q == a \div m
           r == a % m
<1>1. q \in Nat /\ r \in 0 .. m - 1 /\ a = m * q + r
  <2>1. a = m * (a \div m) + (a % m)
      BY ModDivide
  <2> QED
      BY <2>1, ModRange
<1> HIDE DEF q, r
<1>2. a + b * m = m * (q + b) + r
    BY <1>1
<1>3. (m * (q + b) + r) % m = r
    BY <1>1, ModUnique
<1> QED
    BY <1>2, <1>3 DEF r

-----------------------------------------------------------------------------
(* Types, as far as the proofs need them.                                  *)

Values == [r : Nat \cup {Uninitialised}, f : Word, c : 0 .. 255, u : Nat, a : Word,
           n : Nat, t : BOOLEAN]
Element == STRING \cup {Garbage}

\* The places before read_elements has read anything.
Early == {"parse", "usage", "no value", "check role", "bad role", "connect",
          "open", "no file"}

Typed ==
    /\ val \in Values
    /\ argv \in Seq(Word)
    /\ file.lines \in Seq(Seq(STRING) \ {<<>>})
    /\ pc \in Early \cup {"count", "read", "short file", "no field", "hash", "ready"}

LEMMA ValuesTyped ==
    val \in Values => val.r \in Int /\ val.c \in Nat /\ val.n \in Nat
BY DEF Values, Uninitialised

LEMMA NumberTyped == \A w \in Word : w.number \in Int
BY DEF Word

LEMMA DefaultsTyped ==
    ASSUME NEW f \in Word, NEW a \in Word, NEW r \in Nat \cup {Uninitialised}, NEW u \in Nat, NEW b \in BOOLEAN
    PROVE  [r |-> r, f |-> f, c |-> 0, u |-> u, a |-> a, n |-> 0, t |-> b] \in Values
BY DEF Values

LEMMA TextTyped == Text("") \in Word /\ Text("127.0.0.1") \in Word
BY DEF Text, Word

LEMMA FlagTyped ==
    ASSUME val \in Values, NEW b \in BOOLEAN
    PROVE  [val EXCEPT !.t = b] \in Values
BY DEF Values

LEMMA ColTyped ==
    ASSUME val \in Values, NEW x \in 0 .. 255, NEW y \in Nat
    PROVE  [val EXCEPT !.c = x, !.n = y] \in Values
BY DEF Values

LEMMA TailTyped ==
    ASSUME NEW S, NEW s \in Seq(S), Len(s) > 0
    PROVE  Tail(s) \in Seq(S) /\ Len(Tail(s)) = Len(s) - 1
OBVIOUS

LEMMA StoreTyped ==
    ASSUME val \in Values, NEW name \in Numeric, NEW v \in Nat
    PROVE  Store(name, v) \in Values
<1>1. CASE name = "c"
  <2>1. v % 256 \in 0 .. 255 /\ v \div 65536 \in Nat
      BY SMT
  <2>2. (val.n \div 65536) * 65536 \in Nat
      BY SMT DEF Values
  <2>3. (IF adjacent THEN (val.n \div 65536) * 65536 + v \div 65536 ELSE val.n) \in Nat
      BY <2>1, <2>2 DEF Values
  <2> QED
    <3> DEFINE x == v % 256
               y == IF adjacent THEN (val.n \div 65536) * 65536 + v \div 65536 ELSE val.n
    <3>1. Store(name, v) = [val EXCEPT !.c = x, !.n = y]
        BY <1>1 DEF Store
    <3>2. x \in 0 .. 255 /\ y \in Nat
        BY <2>1, <2>3
    <3> HIDE DEF x, y
    <3>3. [val EXCEPT !.c = x, !.n = y] \in Values
        BY <3>2, ColTyped
    <3> QED
        BY <3>1, <3>3
<1>2. CASE name # "c"
    BY <1>2 DEF Store, Values, Numeric
<1> QED
    BY <1>1, <1>2

LEMMA ParseTyped ==
    ASSUME Typed, ParseNext, UNCHANGED fileVars
    PROVE  Typed' /\ pc \in Early /\ pc' \in Early
<1>1. ASSUME NEW name \in Names, NoValue(name) PROVE Typed' /\ pc \in Early /\ pc' \in Early
    BY <1>1 DEF NoValue, AtOption, optionVars, Typed, Early, fileVars
<1>2. ASSUME NEW name \in Names, NumberOption(name)
      PROVE  Typed' /\ pc \in Early /\ pc' \in Early
  <2>1. argv # <<>> /\ Len(argv) > 1 /\ pc = "parse" /\ pc' = pc /\ name \in Numeric
      BY <1>2 DEF NumberOption, AtOption, Handled
  <2>2. Tail(argv) \in Seq(Word) /\ Tail(Tail(argv)) \in Seq(Word)
    <3>1. argv \in Seq(Word)
        BY DEF Typed
    <3>2. Tail(argv) \in Seq(Word) /\ Len(Tail(argv)) = Len(argv) - 1
        BY <2>1, <3>1, TailTyped
    <3>3. Len(Tail(argv)) > 0
        BY <2>1, <3>1, <3>2
    <3> QED
        BY <3>2, <3>3, TailTyped
  <2>3. argv[2] \in Word
      BY <2>1 DEF Typed
  <2>4. CASE IsDigit(argv[2])
    <3>1. argv[2].number \in Nat
        BY <2>3, <2>4, NumberTyped DEF IsDigit
    <3>2. val' \in Values
        BY <1>2, <2>1, <2>4, <3>1, StoreTyped DEF NumberOption, Typed
    <3>3. argv' = Tail(Tail(argv))
        BY <1>2, <2>4 DEF NumberOption, Handled
    <3> QED
        BY <2>1, <2>2, <3>2, <3>3 DEF Typed, Early, fileVars
  <2>5. CASE ~IsDigit(argv[2])
      BY <1>2, <2>1, <2>2, <2>5 DEF NumberOption, Handled, Typed, Early, fileVars
  <2> QED
      BY <2>4, <2>5
<1>3. ASSUME NEW name \in Names, StringOption(name)
      PROVE  Typed' /\ pc \in Early /\ pc' \in Early
  <2>1. /\ argv # <<>> /\ Len(argv) > 1 /\ pc = "parse" /\ pc' = pc /\ name \in Strings
        /\ argv' = Tail(Tail(argv)) /\ val' = [val EXCEPT ![name] = argv[2]]
      BY <1>3 DEF StringOption, AtOption, Handled
  <2>2. Tail(Tail(argv)) \in Seq(Word)
    <3>1. argv \in Seq(Word)
        BY DEF Typed
    <3>2. Tail(argv) \in Seq(Word) /\ Len(Tail(argv)) = Len(argv) - 1
        BY <2>1, <3>1, TailTyped
    <3>3. Len(Tail(argv)) > 0
        BY <2>1, <3>1, <3>2
    <3> QED
        BY <3>2, <3>3, TailTyped
  <2>3. argv[2] \in Word
      BY <2>1 DEF Typed
  <2>4. val' \in Values
      BY <2>1, <2>3 DEF Typed, Values, Strings
  <2> QED
      BY <2>1, <2>2, <2>4 DEF Typed, Early, fileVars
<1>4. ASSUME NEW name \in Names, FlagOption(name)
      PROVE  Typed' /\ pc \in Early /\ pc' \in Early
  <2>1. /\ argv # <<>> /\ pc = "parse" /\ pc' = pc /\ name = "t"
        /\ argv' = Tail(argv) /\ val' = [val EXCEPT ![name] = TRUE]
      BY <1>4 DEF FlagOption, AtOption, Handled, Flags
  <2>2. val' \in Values
    <3>1. val' = [val EXCEPT !.t = TRUE]
        BY <2>1
    <3>2. TRUE \in BOOLEAN /\ val \in Values
        BY DEF Typed
    <3>3. \A b \in BOOLEAN : [val EXCEPT !.t = b] \in Values
        BY <3>2, FlagTyped
    <3> QED
        BY <3>1, <3>2, <3>3, Zenon
  <2>3. pc = "parse" /\ pc' = pc /\ argv' = Tail(argv)
      BY <2>1
  <2>4. Tail(argv) \in Seq(Word)
    <3>1. argv \in Seq(Word) /\ Len(argv) > 0
        BY <2>1 DEF Typed
    <3> QED
        BY <3>1, TailTyped
  <2> QED
      BY <2>2, <2>3, <2>4 DEF Typed, Early, fileVars
<1>5. CASE Help \/ Unknown \/ Operand \/ EndOfWords
    BY <1>5 DEF Help, Unknown, UnknownInFront, Operand, EndOfWords, NoMoreWords, AtOption,
        optionVars, Typed, Early, fileVars
<1>6. CASE CheckRole
  <2>1. PICK role \in IF val.r = Uninitialised THEN 0..2 ELSE {val.r} :
           val' = [val EXCEPT !.r = role] /\ pc' = IF role < 2 THEN "connect" ELSE "bad role"
      BY <1>6 DEF CheckRole
  <2>2. role \in Nat
    <3>1. val.r \in Nat \cup {Uninitialised}
        BY DEF Typed, Values
    <3> QED
        BY <3>1
  <2>3. val' \in Values
      BY <2>1, <2>2 DEF Typed, Values
  <2> QED
      BY <1>6, <2>1, <2>3 DEF CheckRole, optionVars, Typed, Early, fileVars
<1> QED
    BY <1>1, <1>2, <1>3, <1>4, <1>5, <1>6 DEF ParseNext

-----------------------------------------------------------------------------
(* parse_options.  The code sees words; the invariant counts groups.  When *)
(* result groups are done, the words left are those of the groups behind   *)
(* them, and what the options lead to is what those groups gave last.      *)

\* The words from each group on, if the groups are cut into words.
RestsOf(groups) ==
    {R \in [0 .. Len(groups) -> Seq(Word)] :
        /\ R[Len(groups)] = <<>>
        /\ \A k \in 0 .. Len(groups) - 1 : R[k] = groups[k + 1] \o R[k + 1]}

\* The last of the first m groups that gives option name a value, or 0.
Gives(groups, name, k) == groups[k][1].letter = name /\ Len(groups[k]) = 2
GivingTo(groups, name, m) == {k \in 1 .. m : Gives(groups, name, k)}
LastTo(groups, name, m) == CHOOSE k \in GivingTo(groups, name, m) \cup {0} :
                               \A j \in GivingTo(groups, name, m) : j <= k

NumberAt(groups, name, k) == IF k = 0 THEN Defaults[name] ELSE groups[k][2].number
WordAt(groups, name, k) == IF k = 0 THEN Defaults[name] ELSE groups[k][2]
Overlaid(n, c) == (n \div 65536) * 65536 + c \div 65536

ValInv ==
    LET last(name) == LastTo(given, name, result)
        number(name) == NumberAt(given, name, last(name))
    IN  /\ val.r = number("r") \/ (pc = "connect" /\ last("r") = 0)
        /\ val.u = number("u")
        /\ val.c = number("c") % 256
        /\ val.n = IF adjacent /\ last("c") > last("n")
                   THEN Overlaid(number("n"), number("c")) ELSE number("n")
        /\ val.f = WordAt(given, "f", last("f")) /\ val.a = WordAt(given, "a", last("a"))
        /\ val.t = ("t" \in set)

\* How the loop ends, by the group at which it stops.
StopLetter == IF Stop > Len(given) THEN "" ELSE given[Stop][1].letter
ShowsUsage ==
    IF Stop > Len(given) THEN ~(Required \subseteq set)
                         ELSE StopLetter = "h" \/ (StopLetter = "" /\ Stop = 1)
Outcome ==
    /\ result = Stop - 1
    /\ pc = "usage" <=> ShowsUsage
    /\ pc = "no value" <=> Stop <= Len(given) /\ LacksValue(Stop)
    /\ StopLetter \in Names \cup {"", "h"}

OptInv ==
    /\ Grouped(given)
    /\ result \in Nat /\ result < Stop
    /\ set = {given[k][1].letter : k \in 1 .. result}
    /\ pc = "parse" => \E R \in RestsOf(given) : argv = R[result]
    /\ pc # "parse" => Outcome
    /\ pc \in {"parse", "check role", "connect"} => ValInv

\* The groups can be cut into the words the program is given.
LEMMA Cut ==
    ASSUME NEW groups, Grouped(groups)
    PROVE  \E R \in RestsOf(groups) : R[0] = FlattenSeq(groups)
<1>1. groups \in Seq(Seq(Word))
    BY DEF Grouped
<1>2. PICK R \in [0 .. Len(groups) -> Seq(Word)] :
         /\ R[0] = FlattenSeq(groups) /\ R[Len(groups)] = <<>>
         /\ \A k \in 0 .. Len(groups) - 1 : R[k] = groups[k + 1] \o R[k + 1]
    BY <1>1, FlattenRests
<1> QED
    BY <1>2 DEF RestsOf

\* What Grouped says of one group.
LEMMA GroupTyped ==
    ASSUME NEW groups, Grouped(groups), NEW k \in 1 .. Len(groups)
    PROVE  /\ Len(groups) \in Nat
           /\ groups[k] \in Seq(Word) /\ groups[k] # <<>>
           /\ Len(groups[k]) \in {1, 2} /\ groups[k][1] \in Word
           /\ Len(groups[k]) = 2 => groups[k][2] \in Word
           /\ LET g == groups[k]
                  name == g[1].letter
              IN  \/ Len(g) = 2 /\ name \in Strings
                  \/ Len(g) = 2 /\ name \in Numeric /\ IsDigit(g[2])
                     /\ g[2].number \div 65536 < 65536
                  \/ Len(g) = 1 /\ name \in Strings /\ k = Len(groups)
                  \/ Len(g) = 1 /\ name \in Numeric
                     /\ (k = Len(groups) \/ ~IsDigit(groups[k + 1][1]))
                  \/ Len(g) = 1 /\ name \notin Strings \cup Numeric
<1>1. groups \in Seq(Seq(Word) \ {<<>>}) /\ DOMAIN groups = 1 .. Len(groups)
    BY DEF Grouped
<1>2. Len(groups) \in Nat /\ groups[k] \in Seq(Word) /\ groups[k] # <<>>
    BY <1>1
<1>0. k \in DOMAIN groups
    BY <1>1
<1>3. LET g == groups[k]
          name == g[1].letter
      IN  \/ Len(g) = 2 /\ name \in Strings
          \/ Len(g) = 2 /\ name \in Numeric /\ IsDigit(g[2])
             /\ g[2].number \div 65536 < 65536
          \/ Len(g) = 1 /\ name \in Strings /\ k = Len(groups)
          \/ Len(g) = 1 /\ name \in Numeric
             /\ (k = Len(groups) \/ ~IsDigit(groups[k + 1][1]))
          \/ Len(g) = 1 /\ name \notin Strings \cup Numeric
    BY ONLY <1>0, Grouped(groups) DEF Grouped
<1>4. Len(groups[k]) \in {1, 2}
    BY <1>3
<1>5. groups[k][1] \in Word /\ (Len(groups[k]) = 2 => groups[k][2] \in Word)
    BY <1>2, <1>4
<1> QED
    BY <1>2, <1>3, <1>4, <1>5

\* Stop is the first group at which the loop stops, or one past the last.
LEMMA StopFacts ==
    ASSUME Grouped(given)
    PROVE  /\ Len(given) \in Nat
           /\ Stop \in 1 .. Len(given) + 1
           /\ Stop <= Len(given) => StopsAt(Stop)
           /\ \A k \in 1 .. Len(given) : StopsAt(k) => Stop <= k
<1> DEFINE S == {k \in DOMAIN given : StopsAt(k)} \cup {Len(given) + 1}
<1>1. Len(given) \in Nat /\ DOMAIN given = 1 .. Len(given)
    BY DEF Grouped
<1>2. S \in SUBSET Nat /\ S # {}
    BY <1>1
<1>3. PICK m \in S : \A k \in S : m <= k
    BY <1>2, SmallestOf
<1>4. Stop \in S /\ \A k \in S : Stop <= k
  <2>1. Stop = CHOOSE k \in S : \A j \in S : k <= j
      BY DEF Stop, First
  <2> HIDE DEF S
  <2> QED
      BY <1>3, <2>1, Zenon
<1>5. \A k \in 1 .. Len(given) : StopsAt(k) => k \in S
    BY <1>1
<1>6. Stop \in 1 .. Len(given) \/ Stop = Len(given) + 1
    BY <1>1, <1>4
<1>7. Stop = Len(given) + 1 \/ StopsAt(Stop)
    BY <1>4
<1> HIDE DEF S, Stop
<1> QED
    BY <1>1, <1>4, <1>5, <1>6, <1>7

LEMMA LastFacts ==
    ASSUME NEW groups, NEW name, NEW m \in Nat
    PROVE  /\ LastTo(groups, name, m) \in 0 .. m
           /\ LastTo(groups, name, m) # 0 => Gives(groups, name, LastTo(groups, name, m))
           /\ \A j \in 1 .. m : Gives(groups, name, j) => j <= LastTo(groups, name, m)
<1> DEFINE G == GivingTo(groups, name, m)
           S == G \cup {0}
<1>1. S \in SUBSET Nat /\ S # {} /\ \A k \in S : k <= m
    BY DEF GivingTo
<1>2. PICK k \in S : \A j \in S : j <= k
    BY <1>1, LargestOf
<1>3. LastTo(groups, name, m) \in S /\ \A j \in G : j <= LastTo(groups, name, m)
  <2>1. LastTo(groups, name, m) = CHOOSE i \in S : \A j \in G : j <= i
      BY DEF LastTo
  <2> HIDE DEF G
  <2> QED
      BY <1>2, <2>1, Zenon
<1> QED
    BY <1>3 DEF GivingTo

\* One more group.
LEMMA LastStep ==
    ASSUME NEW groups, NEW m \in Nat
    PROVE  \A name : LastTo(groups, name, m + 1) =
                        IF Gives(groups, name, m + 1) THEN m + 1 ELSE LastTo(groups, name, m)
<1> SUFFICES ASSUME NEW name
             PROVE  LastTo(groups, name, m + 1) =
                        IF Gives(groups, name, m + 1) THEN m + 1 ELSE LastTo(groups, name, m)
    OBVIOUS
<1> DEFINE k == LastTo(groups, name, m)
           n == LastTo(groups, name, m + 1)
<1>1. /\ k \in 0 .. m /\ (k # 0 => Gives(groups, name, k))
      /\ \A j \in 1 .. m : Gives(groups, name, j) => j <= k
    BY LastFacts
<1>2. /\ n \in 0 .. m + 1 /\ (n # 0 => Gives(groups, name, n))
      /\ \A j \in 1 .. m + 1 : Gives(groups, name, j) => j <= n
    BY LastFacts
<1> HIDE DEF k, n
<1>3. CASE Gives(groups, name, m + 1)
    BY <1>2, <1>3 DEF n
<1>4. CASE ~Gives(groups, name, m + 1)
  <2>1. n # m + 1 /\ n \in 0 .. m
      BY <1>2, <1>4
  <2>2. n # 0 => n <= k
      BY <1>1, <1>2, <2>1
  <2>3. k # 0 => k <= n
      BY <1>1, <1>2
  <2>4. n = k
      BY <1>1, <2>1, <2>2, <2>3
  <2> QED
      BY <1>4, <2>4 DEF n, k
<1> QED
    BY <1>3, <1>4

LEMMA LastNone == \A groups, name : LastTo(groups, name, 0) = 0
<1> SUFFICES ASSUME NEW groups, NEW name PROVE LastTo(groups, name, 0) = 0
    OBVIOUS
<1>1. LastTo(groups, name, 0) \in 0 .. 0
    BY LastFacts
<1> QED
    BY <1>1

\* Of several stores into the low octets of nelements only the last is seen.
LEMMA OverlaidTwice ==
    ASSUME NEW n \in Nat, NEW c \in Nat, c \div 65536 < 65536, NEW d \in Nat
    PROVE  Overlaid(Overlaid(n, c), d) = Overlaid(n, d)
<1> DEFINE q == n \div 65536
           r == c \div 65536
<1>1. q \in Nat /\ r \in 0 .. 65535
  <2>1. c \div 65536 \in Nat /\ n \div 65536 \in Nat
      BY SMT
  <2> QED
      BY <2>1
<1> HIDE DEF q, r
<1>2. (q * 65536 + r) \div 65536 = q
    BY <1>1, SMT
<1> QED
    BY <1>2 DEF Overlaid, q, r

\* A short sequence in front of another one.
LEMMA ShortConcat ==
    ASSUME NEW W, NEW g \in Seq(W), g # <<>>, NEW r \in Seq(W)
    PROVE  /\ Len(g \o r) = Len(g) + Len(r) /\ (g \o r)[1] = g[1]
           /\ Len(g) = 1 => Tail(g \o r) = r
           /\ Len(g) = 1 /\ r # <<>> => (g \o r)[2] = r[1]
           /\ Len(g) = 2 => (g \o r)[2] = g[2] /\ Tail(Tail(g \o r)) = r
<1> DEFINE s == g \o r
<1>1. /\ s \in Seq(W) /\ Len(s) = Len(g) + Len(r)
      /\ \A i \in 1 .. Len(g) + Len(r) :
            s[i] = IF i <= Len(g) THEN g[i] ELSE r[i - Len(g)]
    BY ConcatProperties
<1>2. Len(g) \in Nat \ {0} /\ Len(r) \in Nat
    OBVIOUS
<1> HIDE DEF s
<1>3. s[1] = g[1]
    BY <1>1, <1>2
<1>4. /\ Tail(s) \in Seq(W) /\ Len(Tail(s)) = Len(s) - 1
      /\ \A i \in 1 .. Len(s) - 1 : Tail(s)[i] = s[i + 1]
  <2>1. s \in Seq(W) /\ s # <<>>
    <3>1. Len(s) # 0
        BY <1>1, <1>2
    <3> QED
        BY <1>1, <3>1
  <2> QED
      BY ONLY <2>1, HeadTailProperties
<1>5. ASSUME Len(g) = 1 PROVE Tail(s) = r
  <2>1. \A i \in 1 .. Len(Tail(s)) : Tail(s)[i] = r[i]
      BY <1>1, <1>2, <1>4, <1>5
  <2>2. Len(Tail(s)) = Len(r)
      BY <1>1, <1>2, <1>4, <1>5
  <2> QED
      BY <1>4, <2>1, <2>2, SeqEqual
<1>6. ASSUME Len(g) = 1, r # <<>> PROVE s[2] = r[1]
  <2>1. Len(r) # 0
      BY <1>6
  <2> QED
      BY <1>1, <1>2, <1>6, <2>1
<1>7. ASSUME Len(g) = 2 PROVE s[2] = g[2] /\ Tail(Tail(s)) = r
  <2> DEFINE t == Tail(s)
  <2>1. t \in Seq(W) /\ Len(t) = Len(r) + 1 /\ \A i \in 1 .. Len(r) + 1 : t[i] = s[i + 1]
      BY <1>1, <1>2, <1>4, <1>7
  <2> HIDE DEF t
  <2>2. /\ Tail(t) \in Seq(W) /\ Len(Tail(t)) = Len(r)
        /\ \A i \in 1 .. Len(r) : Tail(t)[i] = t[i + 1]
      BY <1>2, <2>1
  <2>3. \A i \in 1 .. Len(r) : Tail(t)[i] = r[i]
      BY <1>1, <1>2, <1>7, <2>1, <2>2
  <2>4. Tail(t) = r
      BY <2>2, <2>3, SeqEqual
  <2>5. s[2] = g[2]
      BY <1>1, <1>2, <1>7
  <2> QED
      BY <2>4, <2>5 DEF t
<1> QED
    BY <1>1, <1>3, <1>5, <1>6, <1>7 DEF s

\* The words begin with those of the next group.
LEMMA NextGroup ==
    ASSUME OptInv, NEW R \in RestsOf(given), argv = R[result], argv # <<>>
    PROVE  /\ result + 1 \in 1 .. Len(given) /\ result + 1 <= Stop
           /\ R[result + 1] \in Seq(Word) /\ argv[1] = given[result + 1][1]
           /\ Len(argv) = Len(given[result + 1]) + Len(R[result + 1])
           /\ Len(given[result + 1]) = 1 => Tail(argv) = R[result + 1]
           /\ Len(given[result + 1]) = 2 =>
                 argv[2] = given[result + 1][2] /\ Tail(Tail(argv)) = R[result + 1]
           /\ R[result + 1] = <<>> <=> result + 1 = Len(given)
           /\ Len(given[result + 1]) = 1 /\ result + 1 # Len(given) =>
                 argv[2] = given[result + 2][1]
<1> DEFINE k == result + 1
           g == given[k]
           n == Len(given)
<1>1. Grouped(given) /\ result \in Nat /\ result < Stop
    BY DEF OptInv
<1>2. n \in Nat /\ Stop \in 1 .. n + 1
    BY <1>1, StopFacts
<1>3. /\ R \in [0 .. n -> Seq(Word)] /\ R[n] = <<>>
      /\ \A j \in 0 .. n - 1 : R[j] = given[j + 1] \o R[j + 1]
    BY DEF RestsOf
<1>4. result # n
    BY <1>3
<1>5. k \in 1 .. n /\ k <= Stop /\ result \in 0 .. n - 1
    BY <1>1, <1>2, <1>4
<1>6. R[k] \in Seq(Word) /\ argv = g \o R[k]
  <2>1. k \in 0 .. n
      BY <1>2, <1>5
  <2>2. R[result] = given[result + 1] \o R[result + 1]
      BY <1>3, <1>5, Zenon
  <2> QED
      BY <1>3, <2>1, <2>2
<1>7. g \in Seq(Word) /\ g # <<>>
    BY <1>1, <1>5, GroupTyped
<1> HIDE DEF k
<1>8. k # n => R[k] # <<>> /\ R[k][1] = given[k + 1][1]
  <2> SUFFICES ASSUME k # n PROVE R[k] # <<>> /\ R[k][1] = given[k + 1][1]
      OBVIOUS
  <2>1. k \in 0 .. n - 1 /\ k + 1 \in 1 .. n /\ k + 1 \in 0 .. n
      BY <1>2, <1>5
  <2>2. R[k] = given[k + 1] \o R[k + 1] /\ R[k + 1] \in Seq(Word)
      BY <1>3, <2>1
  <2>3. given[k + 1] \in Seq(Word) /\ given[k + 1] # <<>>
      BY <1>1, <2>1, GroupTyped
  <2>4. /\ Len(R[k]) = Len(given[k + 1]) + Len(R[k + 1])
        /\ R[k][1] = given[k + 1][1]
    <3> DEFINE r == R[k + 1]
               h == given[k + 1]
    <3>1. h \in Seq(Word) /\ h # <<>> /\ r \in Seq(Word)
        BY <2>2, <2>3
    <3> HIDE DEF h, r
    <3>2. Len(h \o r) = Len(h) + Len(r) /\ (h \o r)[1] = h[1]
        BY ONLY <3>1, ShortConcat
    <3> QED
        BY <2>2, <3>2 DEF h, r
  <2>5. Len(given[k + 1]) \in Nat \ {0} /\ Len(R[k + 1]) \in Nat
    <3>1. \A t \in Seq(Word) : Len(t) \in Nat /\ (t # <<>> => Len(t) # 0)
        BY EmptySeq
    <3> QED
        BY <2>2, <2>3, <3>1
  <2>6. Len(R[k]) # 0
    <3> DEFINE x == Len(given[k + 1])
               y == Len(R[k + 1])
    <3>1. x \in Nat \ {0} /\ y \in Nat /\ Len(R[k]) = x + y
        BY <2>4, <2>5
    <3> HIDE DEF x, y
    <3> QED
        BY <3>1
  <2>7. Len(<<>>) = 0
      OBVIOUS
  <2> QED
      BY <2>4, <2>6, <2>7, Zenon
<1>9. k = n => R[k] = <<>>
    BY <1>3
<1>10. /\ Len(argv) = Len(g) + Len(R[k]) /\ argv[1] = g[1]
       /\ Len(g) = 1 => Tail(argv) = R[k]
       /\ Len(g) = 1 /\ R[k] # <<>> => argv[2] = R[k][1]
       /\ Len(g) = 2 => argv[2] = g[2] /\ Tail(Tail(argv)) = R[k]
  <2> DEFINE r == R[k]
  <2>1. g \in Seq(Word) /\ g # <<>> /\ r \in Seq(Word) /\ argv = g \o r
      BY <1>6, <1>7
  <2> HIDE DEF g, r
  <2>2. /\ Len(g \o r) = Len(g) + Len(r) /\ (g \o r)[1] = g[1]
        /\ Len(g) = 1 => Tail(g \o r) = r
        /\ Len(g) = 1 /\ r # <<>> => (g \o r)[2] = r[1]
        /\ Len(g) = 2 => (g \o r)[2] = g[2] /\ Tail(Tail(g \o r)) = r
      BY ONLY <2>1, ShortConcat
  <2> QED
      BY <2>1, <2>2 DEF r
<1>11. /\ k \in 1 .. n /\ k <= Stop /\ R[k] \in Seq(Word)
       /\ argv[1] = g[1] /\ Len(argv) = Len(g) + Len(R[k])
       /\ Len(g) = 1 => Tail(argv) = R[k]
       /\ Len(g) = 2 => argv[2] = g[2] /\ Tail(Tail(argv)) = R[k]
       /\ R[k] = <<>> <=> k = n
       /\ Len(g) = 1 /\ k # n => argv[2] = given[k + 1][1]
  <2> HIDE DEF g, n
  <2> QED
      BY <1>5, <1>6, <1>8, <1>9, <1>10
<1>12. k + 1 = result + 2
    BY <1>1 DEF k
<1> QED
    BY <1>11, <1>12 DEF k

\* The words do not change.
LEMMA GivenRigid ==
    ASSUME given' = given
    PROVE  /\ Stop' = Stop /\ Grouped(given)' = Grouped(given)
           /\ \A k : StopsAt(k)' = StopsAt(k) /\ LacksValue(k)' = LacksValue(k)
<1>1. \A k : LacksValue(k)' = LacksValue(k)
    BY DEF LacksValue
<1>2. \A k : StopsAt(k)' = StopsAt(k)
    BY <1>1 DEF StopsAt
<1>3. {k \in DOMAIN given : StopsAt(k)}' = {k \in DOMAIN given : StopsAt(k)}
    BY <1>2
<1>4. Stop' = Stop
    BY <1>3 DEF Stop
<1>5. Grouped(given)' = Grouped(given)
    OBVIOUS
<1> QED
    BY <1>1, <1>2, <1>4, <1>5

\* The loop stops at the first group that stops it.
LEMMA StopNow ==
    ASSUME OptInv, result + 1 \in 1 .. Len(given), StopsAt(result + 1)
    PROVE  Stop = result + 1 /\ Stop <= Len(given)
<1>1. Grouped(given) /\ result \in Nat /\ result < Stop
    BY DEF OptInv
<1>2. /\ Len(given) \in Nat /\ Stop \in 1 .. Len(given) + 1
      /\ \A k \in 1 .. Len(given) : StopsAt(k) => Stop <= k
    BY <1>1, StopFacts
<1> HIDE DEF Stop, StopsAt
<1>3. Stop <= result + 1
    BY <1>2
<1> QED
    BY <1>1, <1>2, <1>3

\* One group is done, and the loop goes on.
LEMMA OptHandled ==
    ASSUME OptInv, pc = "parse", pc' = pc, given' = given,
           NEW R \in RestsOf(given), argv = R[result], argv # <<>>,
           argv' = R[result + 1], result' = result + 1,
           set' = set \cup {argv[1].letter}, ~StopsAt(result + 1), ValInv'
    PROVE  OptInv'
<1>1. /\ Grouped(given) /\ result \in Nat /\ result < Stop
      /\ set = {given[k][1].letter : k \in 1 .. result}
    BY DEF OptInv
<1>2. /\ Len(given) \in Nat /\ Stop \in 1 .. Len(given) + 1
      /\ Stop <= Len(given) => StopsAt(Stop)
    BY <1>1, StopFacts
<1>3. result + 1 \in 1 .. Len(given) /\ argv[1] = given[result + 1][1]
    BY NextGroup
<1>4. result + 1 < Stop
  <2>1. Stop # result + 1
      BY <1>2, <1>3
  <2> QED
      BY <1>1, <1>2, <2>1
<1>5. set' = {given[k][1].letter : k \in 1 .. result + 1}
  <2>1. \A k : k \in 1 .. result + 1 <=> k \in 1 .. result \/ k = result + 1
      BY <1>1
  <2> QED
      BY <1>1, <1>3, <2>1
<1>6. Stop' = Stop /\ Grouped(given')
    BY <1>1, GivenRigid
<1>7. result' \in Nat /\ result' < Stop'
    BY <1>1, <1>4, <1>6
<1>8. \E Q \in RestsOf(given') : argv' = Q[result']
    OBVIOUS
<1>9. set' = {given'[k][1].letter : k \in 1 .. result'}
    BY <1>5
<1> HIDE DEF ValInv, RestsOf, Grouped, Stop
<1> QED
    BY <1>6, <1>7, <1>8, <1>9 DEF OptInv

\* The loop ends.
LEMMA OptEnded ==
    ASSUME OptInv, UNCHANGED <<given, result, set>>, pc' # "parse", Outcome',
           pc' \in {"check role", "connect"} => ValInv'
    PROVE  OptInv'
<1>1. Stop' = Stop /\ Grouped(given')
    BY GivenRigid DEF OptInv
<1> QED
    BY <1>1 DEF OptInv

\* After the loop.
LEMMA OptAfter ==
    ASSUME OptInv, UNCHANGED optionVars,
           pc \notin {"parse", "usage", "no value"}, pc' \notin {"parse", "usage", "no value"},
           pc' \in {"check role", "connect"} => ValInv'
    PROVE  OptInv'
<1>1. UNCHANGED <<given, result, set>>
    BY DEF optionVars
<1>2. Outcome
    BY DEF OptInv
<1>3. Stop' = Stop /\ \A k : LacksValue(k)' = LacksValue(k)
    BY <1>1, GivenRigid
<1>4. StopLetter' = StopLetter /\ ShowsUsage' = ShowsUsage
    BY <1>1, <1>3 DEF StopLetter, ShowsUsage
<1>5. Outcome'
    BY <1>1, <1>2, <1>3, <1>4 DEF Outcome
<1> QED
    BY <1>1, <1>5, OptEnded

\* Whether the option in front has its value in its group.
LEMMA OptionGroup ==
    ASSUME OptInv, NEW R \in RestsOf(given), argv = R[result], argv # <<>>
    PROVE  LET g == given[result + 1]
               name == argv[1].letter
           IN  /\ Gives(given, name, result + 1) <=> Len(g) = 2
               /\ Len(g) \in {1, 2}
               /\ name \notin Numeric \cup Strings => Len(g) = 1
               /\ name \in Numeric \cup Strings /\ Len(argv) = 1 =>
                     Len(g) = 1 /\ result + 1 = Len(given)
               /\ name \in Strings /\ Len(argv) > 1 => Len(g) = 2
               /\ name \in Numeric /\ Len(argv) > 1 =>
                     IF IsDigit(argv[2]) THEN Len(g) = 2
                     ELSE Len(g) = 1 /\ result + 1 # Len(given)
<1> DEFINE k == result + 1
           g == given[k]
           n == Len(given)
           r == R[k]
<1>1. Grouped(given) /\ result \in Nat
    BY DEF OptInv
<1>2. /\ k \in 1 .. n /\ r \in Seq(Word) /\ argv[1] = g[1]
      /\ Len(argv) = Len(g) + Len(r)
      /\ Len(g) = 2 => argv[2] = g[2]
      /\ r = <<>> <=> k = n
      /\ Len(g) = 1 /\ k # n => argv[2] = given[result + 2][1]
    BY NextGroup
<1>3. /\ Len(g) \in {1, 2}
      /\ \/ Len(g) = 2 /\ g[1].letter \in Strings
         \/ Len(g) = 2 /\ g[1].letter \in Numeric /\ IsDigit(g[2])
         \/ Len(g) = 1 /\ g[1].letter \in Strings /\ k = n
         \/ Len(g) = 1 /\ g[1].letter \in Numeric
            /\ (k = n \/ ~IsDigit(given[k + 1][1]))
         \/ Len(g) = 1 /\ g[1].letter \notin Strings \cup Numeric
    BY <1>1, <1>2, GroupTyped
<1>4. k + 1 = result + 2 /\ Len(r) \in Nat /\ (r = <<>> <=> Len(r) = 0)
  <2> HIDE DEF r
  <2> QED
      BY <1>1, <1>2
<1>5. Strings \cap Numeric = {}
    BY DEF Strings, Numeric
<1>6. Gives(given, argv[1].letter, k) <=> Len(g) = 2
    BY <1>2 DEF Gives
<1>7. (Len(g) = 1 /\ k # n => argv[2] = given[k + 1][1])
    BY <1>2, <1>4
<1> DEFINE name == g[1].letter
<1>8. /\ name \notin Numeric \cup Strings => Len(g) = 1
      /\ name \in Numeric \cup Strings /\ Len(argv) = 1 => Len(g) = 1 /\ k = n
      /\ name \in Strings /\ Len(argv) > 1 => Len(g) = 2
      /\ name \in Numeric /\ Len(argv) > 1 =>
            IF IsDigit(argv[2]) THEN Len(g) = 2 ELSE Len(g) = 1 /\ k # n
  <2> HIDE DEF g, n, k, r, name
  <2>1. Len(g) = 1 /\ k = n => Len(argv) = 1
      BY <1>2, <1>4
  <2>2. Len(g) = 1 /\ k # n => Len(argv) > 1
      BY <1>2, <1>4
  <2>3. Len(g) = 2 => Len(argv) > 1
      BY <1>2, <1>4
  <2>4. 1 # 2 /\ ~(1 > 1)
      OBVIOUS
  <2> QED
      BY <1>2, <1>3, <1>5, <1>7, <2>1, <2>2, <2>3, <2>4 DEF name
<1> QED
    BY <1>2, <1>3, <1>6, <1>8

\* What the last group that gives a number gave it.
LEMMA NumberBounded ==
    ASSUME Grouped(given), NEW m \in 0 .. Len(given), NEW name \in {"c", "u", "n"}
    PROVE  LET v == NumberAt(given, name, LastTo(given, name, m))
           IN  v \in Nat /\ v \div 65536 < 65536
<1> DEFINE k == LastTo(given, name, m)
<1>1. Len(given) \in Nat
    BY DEF Grouped
<1>2. k \in 0 .. m /\ (k # 0 => Gives(given, name, k))
    BY <1>1, LastFacts
<1> HIDE DEF k
<1>3. CASE k = 0
  <2>1. Defaults[name] \in {0, 123}
    <3>1. Defaults["c"] = 0 /\ Defaults["u"] = 123 /\ Defaults["n"] = 0
        BY Zenon DEF Defaults
    <3> QED
        BY <3>1
  <2>2. 0 \div 65536 < 65536 /\ 123 \div 65536 < 65536
      BY SMT
  <2>3. NumberAt(given, name, k) \in {0, 123}
      BY <1>3, <2>1 DEF NumberAt
  <2> QED
      BY <2>2, <2>3 DEF k
<1>4. CASE k # 0
  <2>1. k \in 1 .. Len(given) /\ given[k][1].letter = name /\ Len(given[k]) = 2
      BY <1>1, <1>2, <1>4 DEF Gives
  <2>2. name \in Numeric /\ name \notin Strings
      BY DEF Numeric, Strings
  <2>3. /\ given[k][2] \in Word
        /\ IsDigit(given[k][2]) /\ given[k][2].number \div 65536 < 65536
      BY <2>1, <2>2, GroupTyped
  <2>4. given[k][2].number \in Nat
      BY <2>3, NumberTyped DEF IsDigit
  <2>5. NumberAt(given, name, k) = given[k][2].number
      BY <1>4 DEF NumberAt
  <2> QED
      BY <2>3, <2>4, <2>5 DEF k
<1> QED
    BY <1>3, <1>4

\* An option without a value changes no setting but its own flag.
LEMMA ValKept ==
    ASSUME ValInv, given' = given, adjacent' = adjacent,
           pc = "parse" \/ (pc # "connect" /\ pc' # "connect"),
           \A name : LastTo(given, name, result)' = LastTo(given, name, result),
           val'.r = val.r, val'.f = val.f, val'.c = val.c, val'.u = val.u,
           val'.a = val.a, val'.n = val.n, val'.t = ("t" \in set')
    PROVE  ValInv'
<1>1. val.r = NumberAt(given, "r", LastTo(given, "r", result)) \/ pc = "connect"
    BY DEF ValInv
<1>2. \A name, k : /\ NumberAt(given, name, k)' = NumberAt(given', name, k)
                  /\ WordAt(given, name, k)' = WordAt(given', name, k)
    BY DEF NumberAt, WordAt
<1> QED
    BY <1>1, <1>2 DEF ValInv

\* A group without a value gives none to any option.
LEMMA LastSame ==
    ASSUME OptInv, given' = given, result' = result + 1, Len(given[result + 1]) = 1
    PROVE  \A name : LastTo(given, name, result)' = LastTo(given, name, result)
<1>1. result \in Nat
    BY DEF OptInv
<1>2. \A name : ~Gives(given, name, result + 1)
    BY <1>1 DEF Gives
<1>3. \A name : LastTo(given, name, result + 1) = LastTo(given, name, result)
    BY <1>1, <1>2, LastStep
<1> QED
    BY <1>3

\* A group with a value gives it to its option.
LEMMA LastMoves ==
    ASSUME OptInv, given' = given, result' = result + 1, Len(given[result + 1]) = 2
    PROVE  \A name : LastTo(given, name, result)' =
                        IF name = given[result + 1][1].letter THEN result + 1
                        ELSE LastTo(given, name, result)
<1>1. result \in Nat
    BY DEF OptInv
<1>2. \A name : Gives(given, name, result + 1) <=> name = given[result + 1][1].letter
    BY DEF Gives
<1>3. \A name : LastTo(given, name, result + 1) =
                   IF Gives(given, name, result + 1) THEN result + 1
                   ELSE LastTo(given, name, result)
    BY <1>1, LastStep
<1> QED
    BY <1>2, <1>3

\* A number is stored.
LEMMA ValNumber ==
    ASSUME OptInv, Typed, pc = "parse", given' = given, adjacent' = adjacent,
           NEW name \in Numeric, set' = set \cup {name}, result' = result + 1,
           result + 1 \in 1 .. Len(given), Len(given[result + 1]) = 2,
           given[result + 1][1].letter = name,
           val' = Store(name, given[result + 1][2].number)
    PROVE  ValInv'
<1> DEFINE k == result + 1
           v == given[k][2].number
           last(m) == LastTo(given, m, result)
           number(m) == NumberAt(given, m, last(m))
<1>1. Grouped(given) /\ result \in Nat /\ ValInv
    BY DEF OptInv
<1>2. \A m : LastTo(given, m, result)' = IF m = name THEN k ELSE last(m)
    BY LastMoves
<1>3. \A m : last(m) \in 0 .. result
    BY <1>1, LastFacts
<1>4. k # 0 /\ k > result /\ \A m : last(m) < k /\ ~(last(m) > k)
    BY <1>1, <1>3
<1>5. \A m : NumberAt(given, m, LastTo(given, m, result))' =
                IF m = name THEN v ELSE number(m)
  <2> SUFFICES ASSUME NEW m
               PROVE  NumberAt(given', m, LastTo(given', m, result')) =
                         IF m = name THEN v ELSE number(m)
      OBVIOUS
  <2>1. NumberAt(given', m, k) = v
      BY <1>4 DEF NumberAt
  <2> HIDE DEF v
  <2> QED
      BY <1>2, <2>1
<1>6. /\ WordAt(given', "f", LastTo(given', "f", result')) = WordAt(given, "f", last("f"))
      /\ WordAt(given', "a", LastTo(given', "a", result')) = WordAt(given, "a", last("a"))
  <2>1. name # "f" /\ name # "a"
      BY DEF Numeric
  <2> QED
      BY <1>2, <2>1
<1>7. /\ val.r = number("r") /\ val.u = number("u") /\ val.c = number("c") % 256
      /\ val.n = IF adjacent /\ last("c") > last("n")
                 THEN Overlaid(number("n"), number("c")) ELSE number("n")
      /\ val.f = WordAt(given, "f", last("f")) /\ val.a = WordAt(given, "a", last("a"))
      /\ val.t = ("t" \in set)
    BY <1>1 DEF ValInv
<1>8. /\ number("n") \in Nat
      /\ number("c") \in Nat /\ number("c") \div 65536 < 65536 /\ v \in Nat
  <2>1. result \in 0 .. Len(given) /\ Len(given) \in Nat
      BY <1>1, GroupTyped
  <2>2. name \notin Strings
      BY DEF Strings, Numeric
  <2>3. given[k][2] \in Word /\ IsDigit(given[k][2])
      BY <1>1, <2>2, GroupTyped
  <2>4. v \in Nat
      BY <2>3, NumberTyped DEF IsDigit
  <2> QED
      BY <1>1, <2>1, <2>4, NumberBounded
<1>9. /\ val'.f = val.f /\ val'.a = val.a /\ val'.t = val.t
      /\ val'.r = IF name = "r" THEN v ELSE val.r
      /\ val'.u = IF name = "u" THEN v ELSE val.u
      /\ val'.c = IF name = "c" THEN v % 256 ELSE val.c
      /\ val'.n = IF name = "n" THEN v
                  ELSE IF name = "c" /\ adjacent THEN Overlaid(val.n, v) ELSE val.n
  <2> HIDE DEF v
  <2>0. val' = Store(name, v)
      BY DEF v
  <2>1. val \in Values
      BY DEF Typed
  <2>2. CASE name = "c"
    <3> DEFINE x == v % 256
               y == IF adjacent THEN Overlaid(val.n, v) ELSE val.n
    <3>1. val' = [val EXCEPT !.c = x, !.n = y]
        BY <2>0, <2>2 DEF Store, Overlaid
    <3> HIDE DEF x, y
    <3>2. /\ val'.c = x /\ val'.n = y /\ val'.r = val.r /\ val'.f = val.f
          /\ val'.u = val.u /\ val'.a = val.a /\ val'.t = val.t
        BY <2>1, <3>1 DEF Values
    <3> QED
        BY <2>2, <3>2 DEF x, y
  <2>3. CASE name # "c"
      BY <2>0, <2>1, <2>3 DEF Store, Values, Numeric
  <2> QED
      BY <2>2, <2>3
<1>10. val'.t = ("t" \in set')
  <2>1. ("t" \in set') = ("t" \in set)
      BY DEF Numeric
  <2> QED
      BY <1>7, <1>9, <2>1, Zenon
<1>11. /\ val'.r = NumberAt(given, "r", LastTo(given, "r", result))'
       /\ val'.u = NumberAt(given, "u", LastTo(given, "u", result))'
       /\ val'.c = NumberAt(given, "c", LastTo(given, "c", result))' % 256
  <2> HIDE DEF v, number, last
  <2> QED
      BY <1>5, <1>7, <1>9
<1>12. val'.n = IF adjacent' /\ LastTo(given, "c", result)' > LastTo(given, "n", result)'
                THEN Overlaid(NumberAt(given, "n", LastTo(given, "n", result)),
                              NumberAt(given, "c", LastTo(given, "c", result)))'
                ELSE NumberAt(given, "n", LastTo(given, "n", result))'
  <2> DEFINE num == NumberAt(given, "n", LastTo(given, "n", result))'
             col == NumberAt(given, "c", LastTo(given, "c", result))'
             lastN == LastTo(given, "n", result)'
             lastC == LastTo(given, "c", result)'
  <2>1. Overlaid(NumberAt(given, "n", LastTo(given, "n", result)),
                 NumberAt(given, "c", LastTo(given, "c", result)))' = Overlaid(num, col)
      BY DEF Overlaid
  <2>2. /\ num = IF name = "n" THEN v ELSE number("n")
        /\ col = IF name = "c" THEN v ELSE number("c")
        /\ lastN = IF name = "n" THEN k ELSE last("n")
        /\ lastC = IF name = "c" THEN k ELSE last("c")
      BY <1>2, <1>5
  <2> HIDE DEF num, col, lastN, lastC, v, number, last, k
  <2>3. CASE name = "n"
    <3>1. num = v /\ lastN = k /\ lastC = last("c") /\ val'.n = v
        BY <1>9, <2>2, <2>3
    <3> QED
        BY <1>4, <3>1 DEF num, lastN, lastC
  <2>4. CASE name = "c"
    <3>1. num = number("n") /\ col = v /\ lastN = last("n") /\ lastC = k
        BY <2>2, <2>4
    <3>2. lastC > lastN
        BY <1>1, <1>3, <1>4, <3>1 DEF k
    <3>3. val'.n = IF adjacent THEN Overlaid(val.n, v) ELSE val.n
        BY <1>9, <2>4
    <3>4. adjacent => Overlaid(val.n, v) = Overlaid(number("n"), v)
        BY <1>7, <1>8, OverlaidTwice
    <3>5. ~adjacent => val.n = number("n")
        BY <1>7
    <3> HIDE DEF Overlaid
    <3>6. val'.n = IF adjacent' /\ lastC > lastN THEN Overlaid(num, col) ELSE num
        BY <3>1, <3>2, <3>3, <3>4, <3>5, Zenon
    <3> QED
        BY <2>1, <3>6 DEF num, lastN, lastC
  <2>5. CASE name # "n" /\ name # "c"
    <3>1. /\ num = number("n") /\ col = number("c") /\ lastN = last("n")
          /\ lastC = last("c") /\ val'.n = val.n
        BY <1>9, <2>2, <2>5
    <3> HIDE DEF Overlaid
    <3>2. val'.n = IF adjacent' /\ lastC > lastN THEN Overlaid(num, col) ELSE num
        BY <1>7, <3>1
    <3> QED
        BY <2>1, <3>2 DEF num, lastN, lastC
  <2> QED
      BY <2>3, <2>4, <2>5
<1> QED
    BY <1>6, <1>7, <1>9, <1>10, <1>11, <1>12 DEF ValInv

\* A text is stored.
LEMMA ValText ==
    ASSUME OptInv, Typed, pc = "parse", given' = given, adjacent' = adjacent,
           NEW name \in Strings, set' = set \cup {name}, result' = result + 1,
           result + 1 \in 1 .. Len(given), Len(given[result + 1]) = 2,
           given[result + 1][1].letter = name,
           val' = [val EXCEPT ![name] = given[result + 1][2]]
    PROVE  ValInv'
<1> DEFINE k == result + 1
           last(m) == LastTo(given, m, result)
<1>1. Grouped(given) /\ result \in Nat /\ ValInv
    BY DEF OptInv
<1>2. \A m : LastTo(given, m, result)' = IF m = name THEN k ELSE last(m)
    BY LastMoves
<1>3. k # 0
    BY <1>1
<1>4. /\ val'.r = val.r /\ val'.u = val.u /\ val'.c = val.c /\ val'.n = val.n
      /\ val'.t = val.t
      /\ val'.f = IF name = "f" THEN given[k][2] ELSE val.f
      /\ val'.a = IF name = "a" THEN given[k][2] ELSE val.a
  <2>1. val \in Values
      BY DEF Typed
  <2> QED
      BY <2>1 DEF Values, Strings
<1>5. \A m \in Numeric : /\ LastTo(given, m, result)' = last(m)
                         /\ NumberAt(given, m, LastTo(given, m, result))' =
                               NumberAt(given, m, last(m))
  <2>1. \A m \in Numeric : m # name
      BY DEF Numeric, Strings
  <2>2. \A m, j : NumberAt(given, m, j)' = NumberAt(given', m, j)
      BY DEF NumberAt
  <2> QED
      BY <1>2, <2>1, <2>2
<1>6. \A m \in Strings : WordAt(given, m, LastTo(given, m, result))' =
                            IF m = name THEN given[k][2] ELSE WordAt(given, m, last(m))
  <2>1. WordAt(given', name, k) = given[k][2]
      BY <1>3 DEF WordAt
  <2> QED
      BY <1>2, <2>1
<1>7. val'.t = ("t" \in set')
  <2>1. ("t" \in set') = ("t" \in set)
      BY DEF Strings
  <2>2. val.t = ("t" \in set)
      BY <1>1 DEF ValInv
  <2> QED
      BY <1>4, <2>1, <2>2, Zenon
<1>8. /\ "r" \in Numeric /\ "u" \in Numeric /\ "c" \in Numeric /\ "n" \in Numeric
      /\ "f" \in Strings /\ "a" \in Strings
    BY DEF Numeric, Strings
<1>9. /\ val.r = NumberAt(given, "r", last("r")) /\ val.u = NumberAt(given, "u", last("u"))
      /\ val.c = NumberAt(given, "c", last("c")) % 256
      /\ val.n = IF adjacent /\ last("c") > last("n")
                 THEN Overlaid(NumberAt(given, "n", last("n")), NumberAt(given, "c", last("c")))
                 ELSE NumberAt(given, "n", last("n"))
      /\ val.f = WordAt(given, "f", last("f")) /\ val.a = WordAt(given, "a", last("a"))
    BY <1>1 DEF ValInv
<1>10. /\ val'.f = WordAt(given, "f", LastTo(given, "f", result))'
       /\ val'.a = WordAt(given, "a", LastTo(given, "a", result))'
    BY <1>4, <1>6, <1>8, <1>9
<1> QED
    BY <1>4, <1>5, <1>7, <1>8, <1>9, <1>10 DEF ValInv, Overlaid

LEMMA OptNumber ==
    ASSUME OptInv, Typed, NEW name \in Names, NumberOption(name)
    PROVE  OptInv'
<1> DEFINE k == result + 1
           g == given[k]
<1>1. /\ name \in Numeric /\ pc = "parse" /\ pc' = pc /\ argv # <<>> /\ Len(argv) > 1
      /\ argv[1].letter = name /\ given' = given /\ adjacent' = adjacent
      /\ result' = k /\ set' = set \cup {name}
    BY DEF NumberOption, AtOption, Handled
<1>2. PICK R \in RestsOf(given) : argv = R[result]
    BY <1>1 DEF OptInv
<1>3. /\ k \in 1 .. Len(given) /\ argv[1] = g[1]
      /\ Len(g) = 1 => Tail(argv) = R[k]
      /\ Len(g) = 2 => argv[2] = g[2] /\ Tail(Tail(argv)) = R[k]
    BY <1>1, <1>2, NextGroup
<1>4. IF IsDigit(argv[2]) THEN Len(g) = 2 ELSE Len(g) = 1 /\ k # Len(given)
    BY <1>1, <1>2, OptionGroup
<1>5. ~StopsAt(k)
  <2>1. name \in Names /\ (Len(g) = 2 => Len(g) # 1)
      OBVIOUS
  <2> QED
      BY <1>1, <1>3, <1>4, <2>1 DEF StopsAt, LacksValue
<1>6. argv' = R[k] /\ ValInv'
  <2>1. CASE IsDigit(argv[2])
    <3>1. /\ val' = Store(name, argv[2].number) /\ argv' = Tail(Tail(argv))
          /\ Len(g) = 2
        BY <1>4, <2>1 DEF NumberOption, Handled
    <3>2. val' = Store(name, g[2].number) /\ argv' = R[k]
        BY <1>3, <3>1
    <3> QED
        BY <1>1, <1>3, <3>1, <3>2, ValNumber
  <2>2. CASE ~IsDigit(argv[2])
    <3>1. val' = val /\ argv' = Tail(argv) /\ Len(g) = 1
        BY <1>4, <2>2 DEF NumberOption, Handled
    <3>2. \A m : LastTo(given, m, result)' = LastTo(given, m, result)
        BY <1>1, <3>1, LastSame
    <3>3. ("t" \in set') = ("t" \in set)
        BY <1>1 DEF Numeric
    <3>4. val.t = ("t" \in set) /\ ValInv
        BY <1>1 DEF OptInv, ValInv
    <3>5. val'.t = ("t" \in set')
        BY <3>1, <3>3, <3>4, Zenon
    <3>6. ValInv'
        BY <1>1, <3>1, <3>2, <3>4, <3>5, ValKept
    <3> QED
        BY <1>3, <3>1, <3>6
  <2> QED
      BY <2>1, <2>2
<1> QED
    BY <1>1, <1>2, <1>5, <1>6, OptHandled

LEMMA OptString ==
    ASSUME OptInv, Typed, NEW name \in Names, StringOption(name)
    PROVE  OptInv'
<1> DEFINE k == result + 1
           g == given[k]
<1>1. /\ name \in Strings /\ pc = "parse" /\ pc' = pc /\ argv # <<>> /\ Len(argv) > 1
      /\ argv[1].letter = name /\ given' = given /\ adjacent' = adjacent
      /\ result' = k /\ set' = set \cup {name}
      /\ val' = [val EXCEPT ![name] = argv[2]] /\ argv' = Tail(Tail(argv))
    BY DEF StringOption, AtOption, Handled
<1>2. PICK R \in RestsOf(given) : argv = R[result]
    BY <1>1 DEF OptInv
<1>3. Len(g) = 2
    BY <1>1, <1>2, OptionGroup
<1>4. /\ k \in 1 .. Len(given) /\ argv[1] = g[1]
      /\ argv[2] = g[2] /\ Tail(Tail(argv)) = R[k]
    BY <1>1, <1>2, <1>3, NextGroup
<1>5. ~StopsAt(k)
  <2>1. name \in Names /\ Len(g) # 1
      BY <1>3
  <2> QED
      BY <1>1, <1>4, <2>1 DEF StopsAt, LacksValue
<1>6. ValInv'
    BY <1>1, <1>3, <1>4, ValText
<1> QED
    BY <1>1, <1>2, <1>4, <1>5, <1>6, OptHandled

LEMMA OptFlag ==
    ASSUME OptInv, Typed, NEW name \in Names, FlagOption(name)
    PROVE  OptInv'
<1> DEFINE k == result + 1
           g == given[k]
<1>1. /\ name = "t" /\ pc = "parse" /\ pc' = pc /\ argv # <<>>
      /\ argv[1].letter = name /\ given' = given /\ adjacent' = adjacent
      /\ result' = k /\ set' = set \cup {name}
      /\ val' = [val EXCEPT ![name] = TRUE] /\ argv' = Tail(argv)
    BY DEF FlagOption, AtOption, Handled, Flags
<1>2. PICK R \in RestsOf(given) : argv = R[result]
    BY <1>1 DEF OptInv
<1>3. name \notin Numeric \cup Strings
    BY <1>1 DEF Numeric, Strings
<1>4. Len(g) = 1
    BY <1>1, <1>2, <1>3, OptionGroup
<1>5. k \in 1 .. Len(given) /\ argv[1] = g[1] /\ Tail(argv) = R[k]
    BY <1>1, <1>2, <1>4, NextGroup
<1>6. ~StopsAt(k)
    BY <1>1, <1>3, <1>5 DEF StopsAt, LacksValue
<1>7. ValInv'
  <2>1. /\ val'.r = val.r /\ val'.f = val.f /\ val'.c = val.c /\ val'.u = val.u
        /\ val'.a = val.a /\ val'.n = val.n
    <3>1. val \in Values /\ val' = [val EXCEPT !.t = TRUE]
        BY <1>1 DEF Typed
    <3> QED
        BY <3>1 DEF Values
  <2>2. val'.t = TRUE
    <3>1. val \in Values
        BY DEF Typed
    <3>2. "t" \in DOMAIN val
        BY <3>1 DEF Values
    <3> QED
        BY <1>1, <3>2, Zenon
  <2>3. "t" \in set'
      BY <1>1
  <2>4. val'.t = ("t" \in set')
      BY <2>2, <2>3, Zenon
  <2>5. \A m : LastTo(given, m, result)' = LastTo(given, m, result)
      BY <1>1, <1>4, LastSame
  <2>6. ValInv
      BY <1>1 DEF OptInv
  <2> QED
      BY <1>1, <2>1, <2>4, <2>5, <2>6, ValKept
<1> QED
    BY <1>1, <1>2, <1>5, <1>6, <1>7, OptHandled

\* How the loop ended, of the next state.
LEMMA OutcomeNext ==
    ASSUME UNCHANGED <<given, result, set>>,
           result = Stop - 1,
           pc' = "usage" <=> ShowsUsage,
           pc' = "no value" <=> Stop <= Len(given) /\ LacksValue(Stop),
           StopLetter \in Names \cup {"", "h"}
    PROVE  Outcome'
<1>1. Stop' = Stop /\ \A k : LacksValue(k)' = LacksValue(k)
    BY GivenRigid
<1>2. StopLetter' = StopLetter /\ ShowsUsage' = ShowsUsage
    BY <1>1 DEF StopLetter, ShowsUsage
<1> QED
    BY <1>1, <1>2 DEF Outcome

\* The loop leaves the settings alone when it ends.
LEMMA ValEnded ==
    ASSUME OptInv, pc = "parse", UNCHANGED <<given, adjacent, result, set, val>>
    PROVE  ValInv'
<1>1. ValInv /\ val.t = ("t" \in set)
    BY DEF OptInv, ValInv
<1>2. \A name : LastTo(given, name, result)' = LastTo(given, name, result)
    OBVIOUS
<1>3. val'.t = ("t" \in set')
    BY <1>1
<1> QED
    BY <1>1, <1>2, <1>3, ValKept

\* The loop is at a group where it stops.
LEMMA OptStopped ==
    ASSUME OptInv, pc = "parse", argv # <<>>, UNCHANGED <<optionVars, val>>,
           StopsAt(result + 1), pc' # "parse",
           LET name == argv[1].letter
           IN  /\ name \in Names \cup {"", "h"}
               /\ pc' = "usage" <=> name = "h" \/ (name = "" /\ result = 0)
               /\ pc' = "no value" <=> LacksValue(result + 1)
    PROVE  OptInv'
<1>1. UNCHANGED <<given, adjacent, result, set, val>>
    BY DEF optionVars
<1>2. PICK R \in RestsOf(given) : argv = R[result]
    BY DEF OptInv
<1>3. result \in Nat /\ result + 1 \in 1 .. Len(given) /\ argv[1] = given[result + 1][1]
  <2>1. result \in Nat
      BY DEF OptInv
  <2> QED
      BY <1>2, <2>1, NextGroup
<1>4. Stop = result + 1 /\ Stop <= Len(given) /\ ~(Stop > Len(given))
  <2>1. Stop = result + 1
      BY <1>3, StopNow
  <2>2. Grouped(given)
      BY DEF OptInv
  <2>3. Len(given) \in Nat
      BY <2>2, StopFacts
  <2> QED
      BY ONLY <1>3, <2>1, <2>3
<1>5. StopLetter = argv[1].letter
    BY <1>3, <1>4 DEF StopLetter
<1>6. Stop = 1 <=> result = 0
    BY ONLY <1>3, <1>4
<1>7. ShowsUsage <=> StopLetter = "h" \/ (StopLetter = "" /\ Stop = 1)
    BY <1>4 DEF ShowsUsage
<1>8. Outcome'
  <2>1. result = Stop - 1
      BY ONLY <1>3, <1>4
  <2>2. pc' = "usage" <=> ShowsUsage
      BY <1>5, <1>6, <1>7
  <2>3. pc' = "no value" <=> Stop <= Len(given) /\ LacksValue(Stop)
      BY <1>4
  <2>4. StopLetter \in Names \cup {"", "h"}
      BY <1>5
  <2> QED
      BY <1>1, <2>1, <2>2, <2>3, <2>4, OutcomeNext
<1>9. ValInv'
    BY <1>1, ValEnded
<1> QED
    BY <1>1, <1>8, <1>9, OptEnded

LEMMA OptNoValue ==
    ASSUME OptInv, NEW name \in Names, NoValue(name)
    PROVE  OptInv'
<1>1. /\ name \in Numeric \cup Strings /\ pc = "parse" /\ argv # <<>>
      /\ argv[1].letter = name /\ Len(argv) = 1 /\ pc' = "no value"
      /\ UNCHANGED <<optionVars, val>>
    BY DEF NoValue, AtOption
<1>2. PICK R \in RestsOf(given) : argv = R[result]
    BY <1>1 DEF OptInv
<1>3. Len(given[result + 1]) = 1 /\ result + 1 = Len(given)
    BY <1>1, <1>2, OptionGroup
<1>4. argv[1] = given[result + 1][1]
    BY <1>1, <1>2, NextGroup
<1>5. LacksValue(result + 1)
    BY <1>1, <1>3, <1>4 DEF LacksValue
<1>6. StopsAt(result + 1)
    BY <1>5 DEF StopsAt
<1>7. name # "h" /\ name # ""
    BY DEF Names, Numeric, Strings, Flags
<1> QED
    BY <1>1, <1>5, <1>6, <1>7, OptStopped

\* A word that is no option of the table ends the loop.
LEMMA OptOther ==
    ASSUME OptInv, NEW name \in {"", "h"}, AtOption(name), UNCHANGED <<optionVars, val>>,
           pc' \in {"usage", "check role"},
           pc' = "usage" <=> name = "h" \/ (name = "" /\ result = 0)
    PROVE  OptInv'
<1>1. pc = "parse" /\ argv # <<>> /\ argv[1].letter = name
    BY DEF AtOption
<1>2. PICK R \in RestsOf(given) : argv = R[result]
    BY <1>1 DEF OptInv
<1>3. given[result + 1][1].letter = name
    BY <1>1, <1>2, NextGroup
<1>4. name \notin Names
    BY DEF Names, Numeric, Strings, Flags
<1>5. StopsAt(result + 1) /\ ~LacksValue(result + 1)
    BY <1>3, <1>4 DEF StopsAt, LacksValue, Names
<1> QED
    BY <1>1, <1>5, OptStopped

LEMMA OptEndOfWords ==
    ASSUME OptInv, EndOfWords
    PROVE  OptInv'
<1>1. /\ pc = "parse" /\ argv = <<>>
      /\ pc' = IF Required \subseteq set THEN "check role" ELSE "usage"
      /\ UNCHANGED <<given, adjacent, result, set, val>>
    BY DEF EndOfWords, NoMoreWords, optionVars
<1>2. PICK R \in RestsOf(given) : R[result] = <<>>
    BY <1>1 DEF OptInv
<1>3. Grouped(given) /\ result \in Nat /\ result < Stop
    BY DEF OptInv
<1>4. Len(given) \in Nat /\ Stop \in 1 .. Len(given) + 1
    BY <1>3, StopFacts
<1>5. result = Len(given)
  <2> SUFFICES ASSUME result # Len(given) PROVE FALSE
      OBVIOUS
  <2>1. result \in 0 .. Len(given) - 1 /\ result + 1 \in 1 .. Len(given)
      BY <1>3, <1>4
  <2> DEFINE g == given[result + 1]
             r == R[result + 1]
  <2>2. g \in Seq(Word) /\ g # <<>>
      BY <1>3, <2>1, GroupTyped
  <2>3. R[result] = g \o r /\ r \in Seq(Word)
    <3>1. result + 1 \in 0 .. Len(given)
        BY <1>3, <2>1
    <3> QED
        BY <2>1, <3>1 DEF RestsOf
  <2> HIDE DEF g, r
  <2>4. Len(g \o r) = Len(g) + Len(r) /\ Len(g) \in Nat \ {0} /\ Len(r) \in Nat
    <3>1. Len(g \o r) = Len(g) + Len(r)
        BY ONLY <2>2, <2>3, ShortConcat
    <3> QED
        BY <2>2, <2>3, <3>1
  <2>5. Len(R[result]) # 0
      BY <2>3, <2>4
  <2> QED
      BY <1>2, <2>5
<1>6. Stop = Len(given) + 1 /\ Stop > Len(given) /\ ~(Stop <= Len(given))
    BY <1>3, <1>4, <1>5
<1>7. StopLetter = "" /\ (ShowsUsage <=> ~(Required \subseteq set))
    BY <1>6 DEF StopLetter, ShowsUsage
<1>8. Outcome'
  <2>1. result = Stop - 1
      BY <1>3, <1>5, <1>6
  <2>2. pc' = "usage" <=> ShowsUsage
      BY <1>1, <1>7
  <2>3. pc' # "no value"
      BY <1>1
  <2> QED
      BY <1>1, <1>6, <1>7, <2>1, <2>2, <2>3, OutcomeNext
<1>9. ValInv'
    BY <1>1, ValEnded
<1>10. pc' # "parse"
    BY <1>1
<1> QED
    BY <1>1, <1>8, <1>9, <1>10, OptEnded

LEMMA OptCheckRole ==
    ASSUME OptInv, Typed, CheckRole
    PROVE  OptInv'
<1>1. pc = "check role" /\ UNCHANGED optionVars
    BY DEF CheckRole
<1>2. PICK role \in IF val.r = Uninitialised THEN 0..2 ELSE {val.r} :
         /\ val' = [val EXCEPT !.r = role]
         /\ pc' = IF role < 2 THEN "connect" ELSE "bad role"
    BY DEF CheckRole
<1>3. ValInv /\ UNCHANGED <<given, adjacent, result, set>>
    BY <1>1 DEF OptInv, optionVars
<1>4. /\ val'.r = role /\ val'.f = val.f /\ val'.c = val.c /\ val'.u = val.u
      /\ val'.a = val.a /\ val'.n = val.n /\ val'.t = val.t
  <2>1. val \in Values
      BY DEF Typed
  <2> QED
      BY <1>2, <2>1 DEF Values
<1>5. ASSUME pc' = "connect" PROVE ValInv'
  <2>1. val.r = NumberAt(given, "r", LastTo(given, "r", result))
      BY <1>1, <1>3 DEF ValInv
  <2>2. CASE LastTo(given, "r", result) = 0
      BY <1>3, <1>4, <1>5, <2>2 DEF ValInv, NumberAt, WordAt, Overlaid
  <2>3. CASE LastTo(given, "r", result) # 0
    <3> DEFINE k == LastTo(given, "r", result)
    <3>1. Grouped(given) /\ result \in Nat /\ result < Stop
        BY DEF OptInv
    <3>2. Len(given) \in Nat /\ Stop \in 1 .. Len(given) + 1
        BY <3>1, StopFacts
    <3>3. k \in 0 .. result /\ Gives(given, "r", k)
        BY <2>3, <3>1, LastFacts
    <3>4. /\ k \in 1 .. Len(given) /\ given[k][1].letter = "r" /\ Len(given[k]) = 2
        BY <2>3, <3>1, <3>2, <3>3 DEF Gives
    <3>5. given[k][2] \in Word /\ IsDigit(given[k][2])
      <4>1. "r" \in Numeric /\ "r" \notin Strings
          BY DEF Numeric, Strings
      <4> QED
          BY <3>1, <3>4, <4>1, GroupTyped
    <3>6. val.r \in Nat
      <4>1. val.r = given[k][2].number
          BY <2>1, <2>3 DEF NumberAt
      <4> QED
          BY <3>5, <4>1, NumberTyped DEF IsDigit
    <3>7. role = val.r
      <4>1. val.r # Uninitialised
          BY <3>6 DEF Uninitialised
      <4> QED
          BY <1>2, <4>1
    <3> QED
        BY <1>3, <1>4, <2>1, <3>7 DEF ValInv, NumberAt, WordAt, Overlaid
  <2> QED
      BY <2>2, <2>3
<1>6. pc' \in {"connect", "bad role"}
    BY <1>2
<1> QED
    BY <1>1, <1>5, <1>6, OptAfter

\* Nothing that the invariant speaks of changes.
LEMMA OptSame ==
    ASSUME OptInv, UNCHANGED <<optionVars, val, pc>>
    PROVE  OptInv'
<1>1. UNCHANGED <<given, adjacent, argv, result, set, val, pc>>
    BY DEF optionVars
<1>2. Stop' = Stop /\ \A k : LacksValue(k)' = LacksValue(k)
    BY <1>1, GivenRigid
<1>3. StopLetter' = StopLetter /\ ShowsUsage' = ShowsUsage
    BY <1>1, <1>2 DEF StopLetter, ShowsUsage
<1>4. Outcome' = Outcome
    BY <1>1, <1>2, <1>3 DEF Outcome
<1>5. ValInv' = ValInv
    BY <1>1 DEF ValInv, NumberAt, WordAt, Overlaid
<1> QED
    BY <1>1, <1>2, <1>4, <1>5 DEF OptInv

LEMMA ParseOpt ==
    ASSUME OptInv, Typed, ParseNext
    PROVE  OptInv'
<1>1. ASSUME NEW name \in Names,
             NoValue(name) \/ NumberOption(name) \/ StringOption(name) \/ FlagOption(name)
      PROVE  OptInv'
    BY <1>1, OptNoValue, OptNumber, OptString, OptFlag
<1>2. CASE Help
  <2>1. AtOption("h") /\ pc' = "usage" /\ UNCHANGED <<optionVars, val>>
      BY <1>2 DEF Help
  <2> QED
      BY <2>1, OptOther
<1>3. CASE Unknown
    BY <1>3, OptSame DEF Unknown
<1>4. CASE Operand
  <2>1. /\ AtOption("") /\ UNCHANGED <<optionVars, val>>
        /\ pc' = IF result = 0 THEN "usage" ELSE "check role"
      BY <1>4 DEF Operand
  <2> QED
      BY <2>1, OptOther
<1> QED
    BY <1>1, <1>2, <1>3, <1>4, OptEndOfWords, OptCheckRole DEF ParseNext

-----------------------------------------------------------------------------
(* read_elements.  Before it nothing is read; while it reads, the stream   *)
(* has passed as many lines as there are elements.                         *)

Has(k) == val.c < Len(Fields(file.lines[k]))

ReadInv ==
    /\ Typed
    /\ at \in 0 .. Len(file.lines)
    /\ elements \in Seq(Element)
    /\ pc \in Early => at = 0 /\ elements = <<>>
    /\ pc = "count" => elements = <<>>
    /\ pc \in {"read", "short file", "no field"} => at = Len(elements) /\ at <= val.n
    /\ Len(elements) <= Len(file.lines)
    /\ \A k \in 1 .. Len(elements) :
          elements[k] = IF Has(k) THEN Fields(file.lines[k])[val.c + 1] ELSE Garbage
    /\ pc \in {"hash", "ready"} => Len(elements) = val.n
    /\ pc = "short file" => val.n > Len(file.lines)
    /\ pc = "no field" => /\ Len(elements) < val.n
                          /\ Len(elements) < Len(file.lines)
                          /\ ~Has(Len(elements) + 1)

LEMMA ReadInvInit == Init => ReadInv
<1> SUFFICES ASSUME Init PROVE ReadInv
    OBVIOUS
<1>1. PICK input \in Inputs : ParseInit(input.given) /\ ReadInit(input.file)
    BY DEF Init
<1>2. FlattenSeq(input.given) \in Seq(Word) /\ input.file.lines \in Seq(Seq(STRING) \ {<<>>})
  <2>1. Grouped(input.given) /\ input.file.lines \in Seq(Seq(STRING) \ {<<>>})
      BY InputsAssumption
  <2> QED
    <3>1. PICK R \in RestsOf(input.given) : R[0] = FlattenSeq(input.given)
        BY <2>1, Cut
    <3>2. Len(input.given) \in Nat
        BY <2>1 DEF Grouped
    <3> QED
        BY <2>1, <3>1, <3>2 DEF RestsOf
<1>3. val \in Values
  <2>1. FALSE \in BOOLEAN
      OBVIOUS
  <2>2. \A b \in BOOLEAN :
           [r |-> Uninitialised, f |-> Text(""), c |-> 0, u |-> 123,
            a |-> Text("127.0.0.1"), n |-> 0, t |-> b] \in Values
    <3>1. Text("") \in Word /\ Text("127.0.0.1") \in Word
        BY TextTyped
    <3> QED
      <4>1. 123 \in Nat
          OBVIOUS
      <4> QED
          BY <3>1, <4>1, DefaultsTyped
  <2>3. Defaults \in Values
      BY <2>1, <2>2, Zenon DEF Defaults
  <2> QED
      BY <1>1, <2>3 DEF ParseInit
<1>4. argv \in Seq(Word) /\ pc = "parse"
    BY <1>1, <1>2 DEF ParseInit
<1>5. file.lines \in Seq(Seq(STRING) \ {<<>>}) /\ at = 0 /\ elements = <<>>
    BY <1>1, <1>2 DEF ReadInit
<1>6. elements \in Seq(Element) /\ Len(elements) = 0 /\ Len(file.lines) \in Nat
    BY <1>5
<1> QED
    BY <1>3, <1>4, <1>5, <1>6 DEF ReadInv, Typed, Early

\* The fields of a line are strings.
LEMMA FieldsTyped ==
    ASSUME NEW line \in Seq(STRING) \ {<<>>}
    PROVE  Fields(line) \in Seq(STRING)
<1>1. line \in Seq(STRING) /\ Len(line) \in Nat
    OBVIOUS
<1>2. SubSeq(line, 1, Len(line) - 1) \in Seq(STRING)
    BY <1>1
<1> QED
    BY <1>1, <1>2 DEF Fields

LEMMA ReadInvRead ==
    ASSUME ReadInv, ReadNext, UNCHANGED argv
    PROVE  ReadInv'
<1>0. /\ val \in Values /\ val.n \in Nat /\ val.c \in Nat
      /\ Len(file.lines) \in Nat /\ Len(elements) \in Nat
  <2>1. /\ val \in Values /\ elements \in Seq(Element)
        /\ file.lines \in Seq(Seq(STRING) \ {<<>>})
      BY DEF ReadInv, Typed
  <2>2. val.n \in Nat /\ val.c \in Nat
      BY <2>1, ValuesTyped
  <2>3. Len(elements) \in Nat
      BY <2>1
  <2>4. Len(file.lines) \in Nat
      BY <2>1
  <2> QED
      BY <2>1, <2>2, <2>3, <2>4
<1>1. CASE Open
  <2>1. /\ pc = "open" /\ pc' \in {"no file", "count", "read"}
        /\ file' = file /\ at' = at /\ elements' = elements /\ val' = val
      BY <1>1 DEF Open, fileVars
  <2>2. at = 0 /\ elements = <<>> /\ Len(elements) = 0
      BY <2>1 DEF ReadInv, Early
  <2>3. Typed' /\ pc' # "open"
      BY <2>1 DEF ReadInv, Typed, Early
  <2>4. at' = 0 /\ elements' = <<>> /\ Len(elements') = 0 /\ elements' \in Seq(Element)
      BY <2>1, <2>2 DEF ReadInv
  <2>5. pc' \in {"no file", "count", "read"} /\ Len(file'.lines) \in Nat /\ val'.n \in Nat
      BY <1>0, <2>1
  <2>6. \A k \in 1 .. Len(elements') :
           elements'[k] = IF Has(k)' THEN (Fields(file.lines[k])[val.c + 1])' ELSE Garbage
      BY <2>4
  <2>7. at' \in 0 .. Len(file'.lines) /\ Len(elements') <= Len(file'.lines) /\ at' <= val'.n
    <3>1. at' = 0 /\ Len(elements') = 0
        BY <2>4
    <3>2. Len(file'.lines) \in Nat /\ val'.n \in Nat
        BY <2>5
    <3> QED
        BY <3>1, <3>2
  <2> QED
      BY <2>3, <2>4, <2>5, <2>6, <2>7 DEF ReadInv
<1>2. CASE CountLine
  <2>1. val' \in Values /\ val'.n = val.n + 1 /\ val'.c = val.c
    <3>1. val' = [val EXCEPT !.n = val.n + 1] /\ val.n + 1 \in Nat
        BY <1>0, <1>2 DEF CountLine
    <3> QED
        BY <1>0, <3>1 DEF Values
  <2>2. /\ pc = "count" /\ pc' = pc /\ at' = at + 1 /\ at < Len(file.lines)
        /\ file' = file /\ elements' = elements /\ elements = <<>>
      BY <1>2 DEF CountLine, ReadInv
  <2> QED
      BY <1>0, <2>1, <2>2 DEF ReadInv, Typed, Early, Has
<1>3. CASE Rewind
    BY <1>0, <1>3 DEF Rewind, RewindTo, ReadInv, Typed, Early, Has
<1>4. CASE ShortFile
    BY <1>0, <1>4 DEF ShortFile, fileVars, ReadInv, Typed, Early, Has
<1>5. CASE ReadLine
  <2> DEFINE k == at + 1
             line == file.lines[k]
             fields == Fields(line)
  <2>1. /\ pc = "read" /\ Len(elements) < val.n /\ at < Len(file.lines)
        /\ at = Len(elements) /\ file' = file /\ val' = val
      BY <1>5 DEF ReadLine, ReadInv
  <2>2. line \in Seq(STRING) \ {<<>>} /\ k \in 1 .. Len(file.lines)
      BY <1>0, <2>1 DEF ReadInv, Typed
  <2>3. fields \in Seq(STRING)
      BY <2>2, FieldsTyped
  <2>4. ASSUME NEW e \in Element, elements' = Append(elements, e), at' = at + 1, pc' = pc,
               e = IF Has(k) THEN fields[val.c + 1] ELSE Garbage
        PROVE  ReadInv'
    <3>1. /\ elements' \in Seq(Element) /\ Len(elements') = Len(elements) + 1
          /\ \A j \in 1 .. Len(elements) : elements'[j] = elements[j]
          /\ elements'[k] = e
        BY <2>1, <2>4 DEF ReadInv
    <3>2. \A j \in 1 .. Len(elements') :
             elements'[j] = IF Has(j)' THEN Fields(file.lines[j])[val.c + 1] ELSE Garbage
        BY <1>0, <2>1, <2>4, <3>1 DEF ReadInv, Has
    <3>3. at' \in 0 .. Len(file.lines) /\ at' = Len(elements') /\ at' <= val.n
        BY <1>0, <2>1, <2>4, <3>1
    <3>4. Typed'
        BY <2>1, <2>4 DEF ReadInv, Typed
    <3> QED
        BY <2>1, <2>4, <3>1, <3>2, <3>3, <3>4 DEF ReadInv, Early
  <2>5. CASE val.c < Len(fields) /\ elements' = Append(elements, fields[val.c + 1])
             /\ at' = at + 1 /\ pc' = pc
    <3>1. fields[val.c + 1] \in STRING
        BY <1>0, <2>3, <2>5
    <3> QED
        BY <2>4, <2>5, <3>1 DEF Element, Has
  <2>6. CASE val.c >= Len(fields) /\ elements' = Append(elements, Garbage)
             /\ at' = at + 1 /\ pc' = pc
    <3>1. ~Has(k)
        BY <1>0, <2>3, <2>6 DEF Has
    <3> QED
        BY <2>4, <2>6, <3>1 DEF Element
  <2>7. CASE val.c >= Len(fields) /\ pc' = "no field" /\ UNCHANGED <<elements, at>>
    <3>1. ~Has(k)
      <4>1. val.c >= Len(fields)
          BY <2>7
      <4> QED
          BY <1>0, <2>3, <4>1 DEF Has
    <3> QED
        BY <1>0, <2>1, <2>7, <3>1 DEF ReadInv, Typed, Early, Has
  <2> QED
      BY <1>5, <2>5, <2>6, <2>7 DEF ReadLine
<1>6. CASE EndRead
    BY <1>0, <1>6 DEF EndRead, fileVars, ReadInv, Typed, Early, Has
<1> QED
    BY <1>1, <1>2, <1>3, <1>4, <1>5, <1>6 DEF ReadNext

-----------------------------------------------------------------------------
(* oaid_hashpoint.  The header at hand is the k-th one, and none of those  *)
(* before it is on the curve.                                              *)

Tried(h, e) ==
    \E k \in Nat : h = Header(k) /\ \A l \in 0 .. k - 1 : ~OnCurve(Header(l), e)

FirstOnCurve(h, e) ==
    \E k \in Headers : /\ h = Header(k)
                       /\ OnCurve(Header(k), e)
                       /\ \A l \in 0 .. k - 1 : ~OnCurve(Header(l), e)

LEMMA HeaderZero ==
    FirstHeader \in Nat /\ FirstHeader \in Headers /\ Header(0) = FirstHeader
<1>1. FirstHeader \in 0 .. HeaderCount - 1
    BY HeaderCountAssumption, ModRange DEF FirstHeader
<1>2. (HeaderCount * 0 + FirstHeader) % HeaderCount = FirstHeader
    BY <1>1, HeaderCountAssumption, ModUnique
<1>3. HeaderCount * 0 + FirstHeader = FirstHeader /\ FirstHeader + 0 * 62343 = FirstHeader
    BY <1>1, HeaderCountAssumption
<1> QED
    BY <1>1, <1>2, <1>3 DEF Header, Headers

LEMMA HeaderNext ==
    ASSUME NEW k \in Nat
    PROVE  (Header(k) + 62343) % HeaderCount = Header(k + 1)
<1> DEFINE a == FirstHeader + k * 62343
<1>1. a \in Nat /\ a + 62343 = FirstHeader + (k + 1) * 62343
    BY HeaderZero
<1>2. ((a % HeaderCount) + 62343) % HeaderCount = (a + 62343) % HeaderCount
    BY <1>1, HeaderCountAssumption, ModStep
<1> QED
    BY <1>1, <1>2 DEF Header

LEMMA HeaderPeriod ==
    ASSUME NEW k \in Nat, k >= HeaderCount
    PROVE  Header(k) = Header(k - HeaderCount)
<1> DEFINE a == FirstHeader + (k - HeaderCount) * 62343
<1>1. a \in Nat
    BY HeaderZero, HeaderCountAssumption
<1>2. FirstHeader + k * 62343 = a + 62343 * HeaderCount
    BY HeaderZero, HeaderCountAssumption
<1>3. (a + 62343 * HeaderCount) % HeaderCount = a % HeaderCount
    BY <1>1, HeaderCountAssumption, ModPeriod
<1> QED
    BY <1>2, <1>3 DEF Header

\* Before the first element: no header was tried.
LEMMA TriedFirst == \A e : Tried(FirstHeader, e)
BY HeaderZero DEF Tried

\* A miss: the next header is the next one of the order.
LEMMA TriedNext ==
    ASSUME NEW h, NEW e, Tried(h, e), ~OnCurve(h, e)
    PROVE  Tried((h + 62343) % HeaderCount, e)
<1>1. PICK k \in Nat : h = Header(k) /\ \A l \in 0 .. k - 1 : ~OnCurve(Header(l), e)
    BY DEF Tried
<1>2. (h + 62343) % HeaderCount = Header(k + 1)
    BY <1>1, HeaderNext
<1>3. \A l \in 0 .. (k + 1) - 1 : ~OnCurve(Header(l), e)
  <2> SUFFICES ASSUME NEW l \in 0 .. (k + 1) - 1 PROVE ~OnCurve(Header(l), e)
      OBVIOUS
  <2>1. l = k \/ l \in 0 .. k - 1
      OBVIOUS
  <2> QED
      BY <1>1, <2>1
<1>4. k + 1 \in Nat
    OBVIOUS
<1> QED
    BY <1>2, <1>3, <1>4 DEF Tried

\* A hit: the order repeats after HeaderCount tries, so the hit is among them.
LEMMA TriedHit ==
    ASSUME NEW h, NEW e, Tried(h, e), OnCurve(h, e)
    PROVE  FirstOnCurve(h, e)
<1>1. PICK k \in Nat : h = Header(k) /\ \A l \in 0 .. k - 1 : ~OnCurve(Header(l), e)
    BY DEF Tried
<1>2. k < HeaderCount
  <2> SUFFICES ASSUME k >= HeaderCount PROVE FALSE
      BY HeaderCountAssumption
  <2>1. k - HeaderCount \in 0 .. k - 1
      BY HeaderCountAssumption
  <2>2. Header(k) = Header(k - HeaderCount)
      BY HeaderPeriod
  <2> QED
      BY <1>1, <2>1, <2>2
<1>3. k \in Headers
    BY <1>2, HeaderCountAssumption DEF Headers
<1> QED
    BY <1>1, <1>3 DEF FirstOnCurve

HashInv ==
    /\ points \in Seq(Int \X Element)
    /\ Len(points) <= Len(elements)
    /\ pc \notin {"hash", "ready"} => points = <<>> /\ hdr = FirstHeader
    /\ hdr \in Headers
    /\ pc = "hash" /\ Len(points) < Len(elements) => Tried(hdr, elements[Len(points) + 1])
    /\ \A j \in 1 .. Len(points) :
          points[j] = <<points[j][1], elements[j]>> /\ FirstOnCurve(points[j][1], elements[j])

LEMMA HashInvInit == Init => HashInv
<1> SUFFICES ASSUME Init PROVE HashInv
    OBVIOUS
<1>1. PICK input \in Inputs : ParseInit(input.given) /\ ReadInit(input.file)
    BY DEF Init
<1>2. pc = "parse" /\ elements = <<>> /\ points = <<>> /\ hdr = FirstHeader
    BY <1>1 DEF Init, ParseInit, ReadInit, HashInit
<1>3. points \in Seq(Int \X Element) /\ Len(points) = 0 /\ Len(elements) = 0
    BY <1>2
<1>4. hdr \in Headers
    BY <1>2, HeaderZero
<1> QED
    BY <1>2, <1>3, <1>4 DEF HashInv

\* Before the points are computed, nothing the program does touches them.
LEMMA HashInvBefore ==
    ASSUME HashInv, pc \notin {"hash", "ready"}, UNCHANGED pointVars,
           elements' \in Seq(Element)
    PROVE  HashInv'
<1>1. points = <<>> /\ hdr = FirstHeader /\ points' = points /\ hdr' = hdr
    BY DEF HashInv, pointVars
<1>2. points' \in Seq(Int \X Element) /\ Len(points') = 0
    BY <1>1
<1>3. Len(points') <= Len(elements')
    BY <1>2
<1>4. hdr' = FirstHeader /\ hdr' \in Headers /\ points' = <<>>
    BY <1>1, HeaderZero
<1>5. Tried(hdr', elements'[Len(points') + 1])
    BY <1>4, TriedFirst
<1>6. Tried(hdr, elements[Len(points) + 1])'
    BY <1>5 DEF Tried, Header, FirstHeader
<1> QED
    BY <1>2, <1>3, <1>4, <1>6 DEF HashInv

\* Nothing changes but that the loop is left.
LEMMA HashInvSame ==
    ASSUME HashInv, UNCHANGED <<pointVars, elements>>,
           pc' = pc \/ (pc = "hash" /\ pc' = "ready")
    PROVE  HashInv'
<1>1. points' = points /\ hdr' = hdr /\ elements' = elements
    BY DEF pointVars
<1> QED
    BY <1>1 DEF HashInv, Tried, FirstOnCurve, Header, FirstHeader

LEMMA HashInvHash ==
    ASSUME HashInv, elements \in Seq(Element), Hash(elements), UNCHANGED elements
    PROVE  HashInv'
<1> DEFINE n == Len(points)
           e == elements[n + 1]
<1>1. pc = "hash" /\ pc' = pc /\ n < Len(elements) /\ elements' = elements
    BY DEF Hash, HashStarting
<1>2. points \in Seq(Int \X Element) /\ n \in Nat /\ Len(elements) \in Nat /\ hdr \in Int
    BY HeaderCountAssumption DEF HashInv, Headers
<1>3. e \in Element
    BY <1>1, <1>2
<1>4. Tried(hdr, e)
    BY <1>1 DEF HashInv
<1>5. CASE OnCurve(hdr, e) /\ points' = Append(points, <<hdr, e>>) /\ hdr' = FirstHeader
  <2>1. FirstOnCurve(hdr, e)
      BY <1>4, <1>5, TriedHit
  <2>2. /\ points' \in Seq(Int \X Element) /\ Len(points') = n + 1
        /\ points'[n + 1] = <<hdr, e>>
        /\ \A j \in 1 .. n : points'[j] = points[j]
      BY <1>2, <1>3, <1>5
  <2>3. \A j \in 1 .. n + 1 : /\ points'[j] = <<points'[j][1], elements[j]>>
                              /\ FirstOnCurve(points'[j][1], elements[j])
    <3> SUFFICES ASSUME NEW j \in 1 .. n + 1
                 PROVE  /\ points'[j] = <<points'[j][1], elements[j]>>
                        /\ FirstOnCurve(points'[j][1], elements[j])
        OBVIOUS
    <3>1. CASE j = n + 1
        BY <2>1, <2>2, <3>1
    <3>2. CASE j \in 1 .. n
        BY <2>2, <3>2 DEF HashInv
    <3> QED
        BY <1>2, <3>1, <3>2
  <2>4. hdr' \in Headers /\ Tried(hdr', elements[Len(points') + 1])
      BY <1>5, HeaderZero, TriedFirst
  <2> QED
    <3>1. Tried(hdr, elements[Len(points) + 1])'
        BY <1>1, <2>4 DEF Tried, Header, FirstHeader
    <3>2. \A j \in 1 .. Len(points') :
             (/\ points[j] = <<points[j][1], elements[j]>>
              /\ FirstOnCurve(points[j][1], elements[j]))'
        BY <1>1, <2>2, <2>3 DEF FirstOnCurve, Header, FirstHeader
    <3>3. Len(points') <= Len(elements')
        BY <1>1, <1>2, <2>2
    <3> QED
        BY <1>1, <2>2, <2>4, <3>1, <3>2, <3>3 DEF HashInv
<1>6. CASE ~OnCurve(hdr, e) /\ hdr' = NextHeader /\ points' = points
  <2>1. Tried(hdr', e)
      BY <1>4, <1>6, TriedNext DEF NextHeader
  <2>2. hdr' \in Headers
    <3>1. PICK k \in Nat : hdr = Header(k)
        BY <1>4 DEF Tried
    <3>2. hdr' = Header(k + 1)
        BY <1>6, <3>1, HeaderNext DEF NextHeader
    <3>3. FirstHeader + (k + 1) * 62343 \in Nat
        BY HeaderZero
    <3>4. Header(k + 1) \in 0 .. HeaderCount - 1
      <4>1. \A a \in Nat : a % HeaderCount \in 0 .. HeaderCount - 1
          BY HeaderCountAssumption, ModRange
      <4> QED
          BY <3>3, <4>1 DEF Header
    <3> QED
        BY <3>2, <3>4 DEF Headers
  <2>3. Tried(hdr, elements[Len(points) + 1])'
      BY <1>1, <1>6, <2>1 DEF Tried, Header, FirstHeader
  <2>4. \A j \in 1 .. Len(points') :
           (/\ points[j] = <<points[j][1], elements[j]>>
            /\ FirstOnCurve(points[j][1], elements[j]))'
      BY <1>1, <1>6 DEF HashInv, FirstOnCurve, Header, FirstHeader
  <2> QED
      BY <1>1, <1>6, <2>2, <2>3, <2>4 DEF HashInv
<1> QED
    BY <1>5, <1>6 DEF Hash, HashStarting

-----------------------------------------------------------------------------
(* read_elements and oaid_hashpoint, and then parse_options.               *)

IInv == ReadInv /\ HashInv

\* ReadInv speaks of these variables only, and of nothing that parse_options
\* changes before it is left.
LEMMA ReadInvSame ==
    ASSUME ReadInv, UNCHANGED fileVars, Typed',
           \/ UNCHANGED val /\ (pc' = pc \/ (pc = "hash" /\ pc' = "ready"))
           \/ pc \in Early /\ pc' \in Early
    PROVE  ReadInv'
<1>1. file' = file /\ at' = at /\ elements' = elements
    BY DEF fileVars
<1>2. CASE UNCHANGED val /\ (pc' = pc \/ (pc = "hash" /\ pc' = "ready"))
    BY <1>1, <1>2 DEF ReadInv, Early, Has
<1>3. CASE pc \in Early /\ pc' \in Early
  <2>1. at = 0 /\ elements = <<>> /\ elements \in Seq(Element) /\ Len(elements) = 0
      BY <1>3 DEF ReadInv
  <2>2. at' = 0 /\ elements' = <<>> /\ elements' \in Seq(Element) /\ Len(elements') = 0
      BY <1>1, <2>1
  <2>3. at' \in 0 .. Len(file'.lines) /\ Len(elements') <= Len(file'.lines)
      BY <1>1, <2>1 DEF ReadInv
  <2>4. pc' \notin {"count", "read", "short file", "no field", "hash", "ready"}
      BY <1>3 DEF Early
  <2>5. \A k \in 1 .. Len(elements') :
           elements'[k] = IF Has(k)' THEN (Fields(file.lines[k])[val.c + 1])' ELSE Garbage
      BY <2>2
  <2> QED
      BY <2>2, <2>3, <2>4, <2>5 DEF ReadInv
<1> QED
    BY <1>2, <1>3

LEMMA IInvNext == IInv /\ [Next]_vars => IInv'
<1> SUFFICES ASSUME IInv, [Next]_vars PROVE IInv'
    OBVIOUS
<1> USE DEF IInv
<1>0. elements \in Seq(Element) /\ Typed
    BY DEF ReadInv
<1>1. CASE ParseNext /\ UNCHANGED <<fileVars, pointVars>>
  <2>1. Typed' /\ pc \in Early /\ pc' \in Early
      BY <1>0, <1>1, ParseTyped
  <2>2. UNCHANGED fileVars /\ UNCHANGED pointVars /\ elements' = elements
      BY <1>1 DEF fileVars, pointVars
  <2>3. ReadInv'
      BY <2>1, <2>2, ReadInvSame
  <2>4. pc \notin {"hash", "ready"}
      BY <2>1 DEF Early
  <2> QED
      BY <1>0, <2>2, <2>3, <2>4, HashInvBefore
<1>2. CASE Connect
  <2>1. /\ pc = "connect" /\ pc' = "open" /\ val' = val /\ argv' = argv
        /\ UNCHANGED fileVars /\ UNCHANGED pointVars /\ elements' = elements
        /\ file' = file
      BY <1>2 DEF Connect, optionVars, fileVars, pointVars
  <2>2. Typed' /\ pc \in Early /\ pc' \in Early
      BY <1>0, <2>1 DEF Typed, Early
  <2>3. ReadInv'
      BY <2>1, <2>2, ReadInvSame
  <2> QED
      BY <1>0, <2>1, <2>3, HashInvBefore
<1>3. CASE ReadNext /\ UNCHANGED <<optionVars, pointVars>>
  <2>1. UNCHANGED argv /\ UNCHANGED pointVars
      BY <1>3 DEF optionVars, pointVars
  <2>2. ReadInv'
      BY <1>3, <2>1, ReadInvRead
  <2>3. elements' \in Seq(Element)
      BY <2>2 DEF ReadInv
  <2>4. pc \notin {"hash", "ready"}
      BY <1>3 DEF ReadNext, Open, CountLine, Rewind, RewindTo, ShortFile, ReadLine, EndRead
  <2> QED
      BY <2>1, <2>2, <2>3, <2>4, HashInvBefore
<1>4. CASE Hash(elements) /\ UNCHANGED <<optionVars, fileVars>>
  <2>1. /\ pc' = pc /\ val' = val /\ argv' = argv /\ elements' = elements
        /\ file' = file /\ UNCHANGED fileVars
      BY <1>4 DEF Hash, HashStarting, optionVars, fileVars
  <2>2. Typed'
      BY <1>0, <2>1 DEF Typed
  <2>3. ReadInv'
      BY <2>1, <2>2, ReadInvSame
  <2> QED
      BY <1>0, <1>4, <2>1, <2>3, HashInvHash
<1>5. CASE EndHash(elements) /\ UNCHANGED <<optionVars, fileVars>>
  <2>1. /\ pc = "hash" /\ pc' = "ready" /\ val' = val /\ argv' = argv
        /\ elements' = elements /\ file' = file
        /\ UNCHANGED fileVars /\ UNCHANGED pointVars
      BY <1>5 DEF EndHash, optionVars, fileVars, pointVars
  <2>2. Typed'
      BY <1>0, <2>1 DEF Typed
  <2>3. ReadInv'
      BY <2>1, <2>2, ReadInvSame
  <2> QED
      BY <2>1, <2>3, HashInvSame
<1>6. CASE Stopped \/ UNCHANGED vars
  <2>1. /\ pc' = pc /\ val' = val /\ argv' = argv /\ elements' = elements
        /\ file' = file /\ UNCHANGED fileVars /\ UNCHANGED pointVars
      BY <1>6 DEF Stopped, vars, optionVars, fileVars, pointVars
  <2>2. Typed'
      BY <1>0, <2>1 DEF Typed
  <2>3. ReadInv'
      BY <2>1, <2>2, ReadInvSame
  <2> QED
      BY <2>1, <2>3, HashInvSame
<1> QED
    BY <1>1, <1>2, <1>3, <1>4, <1>5, <1>6 DEF Next

LEMMA IInvAlways == Spec => []IInv
<1>1. Init => IInv
    BY ReadInvInit, HashInvInit DEF IInv
<1> QED
    BY <1>1, IInvNext, PTL DEF Spec

\* Nothing that the invariant speaks of changes, or only the place, after the loop.
LEMMA OptElsewhere ==
    ASSUME OptInv, UNCHANGED optionVars, UNCHANGED val,
           pc \notin {"parse", "usage", "no value"}, pc' \notin {"parse", "usage", "no value"},
           pc' = pc \/ pc' \notin {"check role", "connect"}
    PROVE  OptInv'
<1>1. CASE pc' = pc
    BY <1>1, OptSame
<1>2. CASE pc' \notin {"check role", "connect"}
    BY <1>2, OptAfter
<1> QED
    BY <1>1, <1>2

LEMMA OptInvInit == Init => OptInv
<1> SUFFICES ASSUME Init PROVE OptInv
    OBVIOUS
<1>1. PICK input \in Inputs : ParseInit(input.given) /\ ReadInit(input.file)
    BY DEF Init
<1>2. Grouped(input.given)
    BY InputsAssumption
<1>3. /\ given = input.given /\ argv = FlattenSeq(given) /\ result = 0 /\ set = {}
      /\ val = Defaults /\ pc = "parse"
    BY <1>1 DEF ParseInit
<1>4. Grouped(given)
    BY <1>2, <1>3
<1>5. \E R \in RestsOf(given) : argv = R[result]
    BY <1>3, <1>4, Cut
<1>6. result \in Nat /\ result < Stop
    BY <1>3, <1>4, StopFacts
<1>7. set = {given[k][1].letter : k \in 1 .. result}
  <2>1. \A k : k \notin 1 .. 0
      OBVIOUS
  <2> QED
      BY <1>3, <2>1
<1>8. ValInv
  <2>1. \A name : LastTo(given, name, result) = 0
      BY <1>3, LastNone
  <2>2. Defaults.t = FALSE /\ Defaults.c = 0
      BY Zenon DEF Defaults
  <2>3. 0 % 256 = 0 /\ ~(0 > 0)
      OBVIOUS
  <2>4. val.t = ("t" \in set)
    <3>1. ("t" \in {}) = FALSE
        OBVIOUS
    <3>2. val.t = FALSE /\ ("t" \in set) = ("t" \in {})
        BY <1>3, <2>2, Zenon
    <3> QED
        BY <3>1, <3>2, Zenon
  <2>5. /\ val.r = Defaults["r"] /\ val.u = Defaults["u"] /\ val.c = Defaults["c"] % 256
        /\ val.n = Defaults["n"] /\ val.f = Defaults["f"] /\ val.a = Defaults["a"]
      BY <1>3, <2>2, <2>3
  <2> HIDE DEF Overlaid
  <2> QED
      BY <2>1, <2>3, <2>4, <2>5 DEF ValInv, NumberAt, WordAt
<1> QED
    BY <1>3, <1>4, <1>5, <1>6, <1>7, <1>8 DEF OptInv

LEMMA OptInvNext == IInv /\ OptInv /\ [Next]_vars => OptInv'
<1> SUFFICES ASSUME IInv, OptInv, [Next]_vars PROVE OptInv'
    OBVIOUS
<1>0. Typed
    BY DEF IInv, ReadInv
<1>1. CASE ParseNext /\ UNCHANGED <<fileVars, pointVars>>
    BY <1>0, <1>1, ParseOpt
<1>2. CASE Connect
  <2>1. pc = "connect" /\ pc' = "open" /\ UNCHANGED optionVars /\ UNCHANGED val
      BY <1>2 DEF Connect
  <2> QED
      BY <2>1, OptElsewhere
<1>3. CASE ReadNext /\ UNCHANGED <<optionVars, pointVars>>
  <2>1. /\ UNCHANGED optionVars
        /\ pc \in {"open", "count", "read"}
        /\ pc' \notin {"parse", "usage", "no value", "check role", "connect"}
      BY <1>3 DEF ReadNext, Open, CountLine, Rewind, RewindTo, ShortFile, ReadLine, EndRead
  <2> QED
      BY <2>1, OptAfter
<1>4. CASE (Hash(elements) \/ EndHash(elements)) /\ UNCHANGED <<optionVars, fileVars>>
  <2>1. /\ UNCHANGED optionVars /\ UNCHANGED val
        /\ pc = "hash" /\ pc' \in {"hash", "ready"}
      BY <1>4 DEF Hash, HashStarting, EndHash
  <2> QED
      BY <2>1, OptElsewhere
<1>5. CASE Stopped \/ UNCHANGED vars
  <2>1. UNCHANGED <<optionVars, val, pc>>
      BY <1>5 DEF Stopped, vars
  <2> QED
      BY <2>1, OptSame
<1> QED
    BY <1>1, <1>2, <1>3, <1>4, <1>5 DEF Next

LEMMA OptInvAlways == Spec => []OptInv
<1>1. Init => OptInv
    BY OptInvInit
<1> QED
    BY <1>1, OptInvNext, IInvAlways, PTL DEF Spec

\* The flags that are set are those of the options that were handled.
LEMMA OptInvTypes ==
    ASSUME OptInv
    PROVE  result \in 0 .. Len(given) /\ set \subseteq Names
<1>1. /\ Grouped(given) /\ result \in Nat /\ result < Stop
      /\ set = {given[k][1].letter : k \in 1 .. result}
    BY DEF OptInv
<1>2. /\ Len(given) \in Nat /\ Stop \in 1 .. Len(given) + 1
      /\ \A k \in 1 .. Len(given) : StopsAt(k) => Stop <= k
    BY <1>1, StopFacts
<1>3. ASSUME NEW k \in 1 .. result PROVE given[k][1].letter \in Names
  <2>1. k \in 1 .. Len(given) /\ ~(Stop <= k)
      BY <1>1, <1>2
  <2>2. ~StopsAt(k)
      BY <1>2, <2>1
  <2> QED
      BY <2>2 DEF StopsAt
<1> QED
    BY <1>1, <1>2, <1>3

LEMMA InvTypes == IInv /\ OptInv => TypeOK
<1> SUFFICES ASSUME ReadInv, HashInv, OptInv PROVE TypeOK
    BY DEF IInv
<1>1. val \in Values
    BY DEF ReadInv, Typed
<1>2. /\ val.c \in 0 .. 255 /\ val.n \in Nat /\ val.u \in Nat
      /\ val.r \in Nat \cup {Uninitialised}
    BY <1>1 DEF Values
<1>3. val.t \in BOOLEAN
    BY <1>1, Zenon DEF Values
<1>4. result \in 0 .. Len(given) /\ set \subseteq Names
    BY OptInvTypes
<1>5. at \in 0 .. Len(file.lines) /\ Len(points) <= Len(elements) /\ hdr \in Headers
    BY DEF ReadInv, HashInv
<1>6. Len(elements) <= val.n
  <2>1. elements \in Seq(Element) /\ Typed
      BY DEF ReadInv
  <2>2. Len(elements) \in Nat
      BY <2>1
  <2>3. CASE pc \in Early \cup {"count"}
    <3>1. elements = <<>>
        BY <2>3 DEF ReadInv
    <3>2. Len(elements) = 0
        BY <3>1
    <3> QED
        BY <1>2, <3>2
  <2>4. CASE pc \in {"read", "short file", "no field"}
      BY <2>4 DEF ReadInv
  <2>5. CASE pc \in {"hash", "ready"}
    <3>1. Len(elements) = val.n
        BY <2>5 DEF ReadInv
    <3> QED
        BY <1>2, <3>1
  <2> QED
      BY <2>1, <2>3, <2>4, <2>5 DEF Typed
<1> QED
    BY <1>2, <1>3, <1>4, <1>5, <1>6 DEF TypeOK

\* When the loop has ended, the options named before the group that stopped it
\* are those that were handled, and what they were given last is what counted.
LEMMA WhenEnded ==
    ASSUME OptInv, pc # "parse"
    PROVE  /\ result = Stop - 1
           /\ \A name : Named(name) <=> name \in set
           /\ \A name : LastGiven(name) = LastTo(given, name, result)
<1>1. result = Stop - 1 /\ set = {given[k][1].letter : k \in 1 .. result}
    BY DEF OptInv, Outcome
<1>2. \A name : Named(name) <=> name \in set
    BY <1>1 DEF Named
<1>3. \A name : Giving(name) = GivingTo(given, name, result)
    BY <1>1 DEF Giving, GivingTo, Gives
<1>4. \A name : LastGiven(name) = LastTo(given, name, result)
    BY <1>3 DEF LastGiven, LastTo
<1> QED
    BY <1>1, <1>2, <1>4

LEMMA OptInvOutcome == OptInv => OptionsOutcome
<1> SUFFICES ASSUME OptInv PROVE OptionsOutcome
    OBVIOUS
<1>1. CASE pc = "parse"
    BY <1>1 DEF OptionsOutcome
<1>2. CASE pc # "parse"
  <2> DEFINE complete == \A name \in Required : Named(name)
             letter == IF Stop > Len(given) THEN "" ELSE given[Stop][1].letter
  <2>1. complete <=> Required \subseteq set
      BY <1>2, WhenEnded
  <2>2. letter = StopLetter
      BY DEF StopLetter
  <2>3. /\ result = Stop - 1
        /\ pc = "usage" <=> ShowsUsage
        /\ pc = "no value" <=> Stop <= Len(given) /\ LacksValue(Stop)
        /\ StopLetter \in Names \cup {"", "h"}
      BY <1>2 DEF OptInv, Outcome
  <2>4. ShowsUsage <=> IF Stop > Len(given) THEN ~complete
                       ELSE letter = "h" \/ (letter = "" /\ Stop = 1)
      BY <2>1, <2>2 DEF ShowsUsage
  <2> HIDE DEF complete, letter
  <2>5. /\ pc = "usage" <=> /\ pc # "parse"
                            /\ IF Stop > Len(given) THEN ~complete
                               ELSE letter = "h" \/ (letter = "" /\ Stop = 1)
        /\ pc = "no value" <=> pc # "parse" /\ Stop <= Len(given) /\ LacksValue(Stop)
        /\ letter \notin Names \cup {"", "h"} => pc = "parse"
        /\ pc # "parse" => result = Stop - 1
      BY <1>2, <2>2, <2>3, <2>4
  <2> QED
      BY <2>5 DEF OptionsOutcome, complete, letter
<1> QED
    BY <1>1, <1>2

LEMMA OptInvLast == OptInv => LastValueWins
<1> SUFFICES ASSUME OptInv, pc = "connect" PROVE LastValueWins
    BY DEF LastValueWins
<1>1. /\ \A name : Named(name) <=> name \in set
      /\ \A name : LastGiven(name) = LastTo(given, name, result)
    BY WhenEnded
<1>2. ValInv
    BY DEF OptInv
<1>3. \A name : /\ NumberAt(given, name, LastTo(given, name, result)) =
                      IF LastGiven(name) = 0 THEN Defaults[name]
                      ELSE given[LastGiven(name)][2].number
                /\ WordAt(given, name, LastTo(given, name, result)) =
                      IF LastGiven(name) = 0 THEN Defaults[name]
                      ELSE given[LastGiven(name)][2]
    BY <1>1 DEF NumberAt, WordAt
<1>4. val.t = Named("t")
  <2>1. val.t = ("t" \in set) /\ Named("t") \in BOOLEAN
      BY <1>2 DEF ValInv, Named
  <2> QED
      BY <1>1, <2>1
<1> QED
    BY <1>1, <1>2, <1>3, <1>4 DEF LastValueWins, ValInv, Overlaid

\* For every command line and every file, no variable leaves its type: at most
\* as many options are handled as are given, only options of the table are set,
\* and read_elements keeps no more elements than nelements says.
THEOREM StartupTypes == Spec => []TypeOK
BY InvTypes, IInvAlways, OptInvAlways, PTL

\* For every command line, parse_options ends, or stays, at the first group
\* that is no option of the table or lacks its value, in the way that group or
\* the missing required options say, and has handled all options before it.
THEOREM AlwaysOptionsOutcome == Spec => []OptionsOutcome
BY OptInvOutcome, OptInvAlways, PTL

\* For every command line, the program goes on with the value each option was
\* given last, except for what the store of -c does to nelements.
THEOREM AlwaysLastValueWins == Spec => []LastValueWins
BY OptInvLast, OptInvAlways, PTL

LEMMA ReadInvExact == ReadInv => ReadExact
<1> SUFFICES ASSUME ReadInv PROVE ReadExact
    OBVIOUS
<1>1. DOMAIN elements = 1 .. Len(elements)
  <2>1. elements \in Seq(Element)
      BY DEF ReadInv
  <2> QED
      BY <2>1
<1> QED
    BY <1>1 DEF ReadInv, ReadExact, Has

LEMMA HashInvExact == HashInv => PointsExact
<1> SUFFICES ASSUME HashInv PROVE PointsExact
    OBVIOUS
<1>1. DOMAIN points = 1 .. Len(points)
    BY DEF HashInv
<1> SUFFICES ASSUME NEW j \in 1 .. Len(points)
             PROVE  \E k \in Headers :
                       /\ points[j] = <<Header(k), elements[j]>>
                       /\ OnCurve(Header(k), elements[j])
                       /\ \A l \in 0 .. k - 1 : ~OnCurve(Header(l), elements[j])
    BY <1>1 DEF PointsExact
<1>2. points[j] = <<points[j][1], elements[j]>> /\ FirstOnCurve(points[j][1], elements[j])
    BY DEF HashInv
<1> QED
    BY <1>2 DEF FirstOnCurve

\* For every command line and every file, read_elements takes the field of the
\* k-th line for the k-th element, as many as -n says or the file has lines,
\* and fails only where the file or a line is too short.
THEOREM AlwaysReadExact == Spec => []ReadExact
<1>1. IInv => ReadExact
    BY ReadInvExact DEF IInv
<1> QED
    BY <1>1, IInvAlways, PTL

\* For every curve, every number of headers and every file, oaid_hashpoint's
\* point is that of the first header on the curve, wherever the element is.
THEOREM AlwaysPointsExact == Spec => []PointsExact
<1>1. IInv => PointsExact
    BY HashInvExact DEF IInv
<1> QED
    BY <1>1, IInvAlways, PTL

=============================================================================
