----------------------------- MODULE BigNumbers -----------------------------
(***************************************************************************)
(* The class BigNumber and IppBNStoIpp8u (bigNum/bignum.cpp).  The words   *)
(* are the library's; what the code here decides is how many of them a     *)
(* result gets, in which order the operators are composed, and how many    *)
(* octets of a number are sent.  A number is the integer its sign and      *)
(* words stand for.                                                        *)
(***************************************************************************)
EXTENDS Integers, Sequences, FiniteSetsExt

CONSTANTS
    OctetBits,   \* 8 in the program
    WordOctets,  \* octets of an Ipp32u: 4
    FieldWords,  \* words of a coordinate or half a signature: 8
    Lost         \* the value of a result nobody may rely on

ASSUME BigNumbersAssumption ==
    /\ OctetBits \in Nat \ {0} /\ WordOctets \in Nat \ {0} /\ FieldWords \in Nat \ {0}
    /\ Lost \notin Int

VARIABLES
    operands,   \* <<a, b>>, never changed
    operation,  \* the one that was applied, or ""
    answer      \* its result

numberVars == <<operands, operation, answer>>

WordBits == OctetBits * WordOctets
Abs(v) == IF v < 0 THEN -v ELSE v

\* ippsRef_BN: the bits of the magnitude, and one for zero.
BitLen(v) == CHOOSE n \in 1 .. Abs(v) + 1 : Abs(v) < 2^n /\ (n = 1 \/ 2^(n - 1) <= Abs(v))

\* BITSIZE_WORD
BITSIZE_WORD(n) == (n + WordBits - 1) \div WordBits
WordsOf(v) == BITSIZE_WORD(BitLen(v))

\* The library's ippsAdd_BN and the like: a result without room for the value
\* is an error, which no operator looks at.
Into(words, v) == IF Abs(v) < 2^(WordBits * words) THEN v ELSE Lost

Larger(a, b) == IF BitLen(a) < BitLen(b) THEN BitLen(b) ELSE BitLen(a)

\* operator+=, -= and *=, and with them +, - and *.
\* Variant: no bit for the carry.
PlusTight(a, b) == Into(BITSIZE_WORD(Larger(a, b)), a + b)
Plus(a, b) == Into(BITSIZE_WORD(Larger(a, b) + 1), a + b)
Minus(a, b) == Into(BITSIZE_WORD(Larger(a, b)), a - b)
Times(a, b) == Into(BITSIZE_WORD(BitLen(a) + BitLen(b)), a * b)

\* ippsMod_BN into a copy of the modulus, and ippsDiv_BN into a copy of the
\* dividend, for a dividend that is not negative and a positive divisor.
Remainder(a, m) == Into(WordsOf(m), a % m)
Quotient(a, m) == Into(WordsOf(a), a \div m)

\* The modular operations of a modulus m.
InverseAdd(m, b) == IF Remainder(b, m) = 0 THEN 0 ELSE Minus(m, Remainder(b, m))
ModAdd(m, a, b) == Remainder(Plus(a, b), m)
ModSub(m, a, b) == Remainder(Plus(a, InverseAdd(m, b)), m)
ModMul(m, a, b) == Remainder(Times(a, b), m)

\* compare: the sign of the difference.
Compare(a, b) ==
    LET d == Minus(a, b)
    IN  IF d = Lost THEN Lost ELSE IF d = 0 THEN 0 ELSE IF d > 0 THEN 1 ELSE -1

\* num2vec: the words, least significant first.
Num2Vec(v) == [k \in 1 .. WordsOf(v) |-> (Abs(v) \div 2^(WordBits * (k - 1))) % 2^WordBits]

\* LSB and MSB walk over the words and their bits to the first that is set.
Ones(v) == {n \in 0 .. WordBits * WordsOf(v) - 1 :
              (Num2Vec(v)[n \div WordBits + 1] \div 2^(n % WordBits)) % 2 = 1}
LSB(v) == IF v = 0 THEN 0 ELSE Min(Ones(v))
MSB(v) == IF v = 0 THEN 0 ELSE Max(Ones(v))

\* IppBNStoIpp8u: as many octets as the value has words, the most significant
\* first; and what is copied of them, FieldWords words, with what lies behind.
Octets(v, n) == [k \in 1..n |-> (v \div 2^(OctetBits * (n - k))) % 2^OctetBits]
FieldOctets == WordOctets * FieldWords
Sent(v, behind, size) == SubSeq(Octets(v, WordOctets * WordsOf(v)) \o behind, 1, size)

\* ippsSetOctString_BN at the peer.
FromOctets(s) ==
    LET read[k \in 0 .. Len(s)] == IF k = 0 THEN 0 ELSE read[k - 1] * 2^OctetBits + s[k]
    IN  read[Len(s)]

\* Variant: the end of the octets is not copied.
TransferShort(v, behind) == FromOctets(Sent(v, behind, FieldOctets - 1))
Transfer(v, behind) == FromOctets(Sent(v, behind, FieldOctets))

NumberInit(a, b) == operands = <<a, b>> /\ operation = "" /\ answer = 0

Apply(name, value) ==
    /\ operation = ""
    /\ operation' = name
    /\ answer' = value
    /\ UNCHANGED operands

NumberNext ==
    LET a == operands[1]
        b == operands[2]
    IN  \/ Apply("+", Plus(a, b))
        \/ Apply("-", Minus(a, b))
        \/ Apply("*", Times(a, b))
        \/ Apply("compare", Compare(a, b))
        \/ b > 0 /\ a >= 0 /\ Apply("/", Quotient(a, b))
        \/ b > 0 /\ a >= 0 /\ Apply("ModAdd", ModAdd(b, a, a))
        \/ b > 0 /\ a >= 0 /\ Apply("ModSub", ModSub(b, 0, a))
        \/ b > 0 /\ a >= 0 /\ Apply("ModMul", ModMul(b, a, a))
        \/ Apply("LSB", LSB(a))
        \/ Apply("MSB", MSB(a))
        \/ /\ a \in 0 .. 2^(WordBits * FieldWords) - 1
           /\ \E behind \in [1..FieldOctets -> {0, 2^OctetBits - 1}] :
                 Apply("transfer", Transfer(a, behind))
        \/ operation # "" /\ UNCHANGED numberVars

NumberSpec == (\E a, b \in Int : NumberInit(a, b)) /\ [][NumberNext]_numberVars

-----------------------------------------------------------------------------
\* The operators give the integers they are named after, for all signs and
\* across the boundaries of words.  The exception: the difference of two
\* numbers of different signs gets no word for the carry of their magnitudes,
\* so that subtraction and comparison lose the result.
NumbersExact ==
    LET a == operands[1]
        b == operands[2]
        carry == \E k \in 1 .. WordsOf(a) + WordsOf(b) :
                   /\ a * b < 0
                   /\ Abs(a) < 2^(WordBits * k) /\ Abs(b) < 2^(WordBits * k)
                   /\ Abs(a) + Abs(b) >= 2^(WordBits * k)
    IN  /\ operation = "+" => answer = a + b
        /\ operation = "*" => answer = a * b
        /\ operation = "-" => answer = IF carry THEN Lost ELSE a - b
        /\ operation = "compare" =>
              IF carry THEN answer = Lost
              ELSE answer \in -1..1 /\ (answer > 0 <=> a > b) /\ (answer < 0 <=> a < b)
        /\ operation = "/" => answer * b <= a /\ a < answer * b + b
        /\ operation = "ModAdd" => answer = (a + a) % b
        /\ operation = "ModSub" => answer \in 0 .. b - 1 /\ (answer + a) % b = 0
        /\ operation = "ModMul" => answer = (a * a) % b
        /\ operation = "LSB" /\ a # 0 =>
              \E odd \in 1 .. Abs(a) : odd % 2 = 1 /\ Abs(a) = odd * 2^answer
        /\ operation = "MSB" /\ a # 0 => 2^answer <= Abs(a) /\ Abs(a) < 2^(answer + 1)

\* A coordinate or half a signature reaches the peer as it is if its top word is
\* not zero.  Otherwise the octets are too few, what lies behind them is sent
\* as well, and the peer reads another number, unless it is zero: the
\* signature is then refused, or the key is another.
Carried ==
    LET v == operands[1]
    IN  operation = "transfer" =>
          /\ v >= 2^(WordBits * (FieldWords - 1)) => answer = v
          /\ v < 2^(WordBits * (FieldWords - 1)) /\ v # 0 => answer # v
=============================================================================
