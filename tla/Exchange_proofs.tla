--------------------------- MODULE Exchange_proofs ---------------------------
(***************************************************************************)
(* The rounds over the socket, proved for every script of rounds, all      *)
(* sizes of messages and every size of the kernel's buffers.               *)
(***************************************************************************)
EXTENDS Exchange, Integers, SequenceTheorems, TLAPS

-----------------------------------------------------------------------------
(* The chunks on their way from one party to the other, in the kernel or   *)
(* still to be copied there.  p sends messages of sz[1], sz[2], ... chunks *)
(* and has begun b rounds; the peer is in round r and has n chunks of it.  *)

SendsIn(p, r) == Kind[r] # "oneway" \/ p = SERVER
Chunk == Rounds \X Nat

\* What is on its way is of rounds the peer has not left.
OnTheWay(S, p, sz, r, b) ==
    \A i \in 1 .. Len(S) :
        /\ SendsIn(p, S[i][1]) /\ r <= S[i][1] /\ S[i][1] <= b
        /\ S[i][2] \in 1 .. sz[S[i][1]]
        /\ Len(S) - i >= sz[S[i][1]] - S[i][2]

\* It is in order and without gaps within a message.
InOrder(S, sz) ==
    \A i, j \in 1 .. Len(S) : i < j =>
        /\ S[i][1] <= S[j][1]
        /\ S[i][1] = S[j][1] => S[j][2] - S[i][2] = j - i
        /\ S[i][1] < S[j][1] => j - i > sz[S[i][1]] - S[i][2]

\* It goes on where the peer's buffer ends.
GoesOn(S, p, sz, r, n, b) ==
    /\ Len(S) > 0 /\ S[1][1] = r => S[1][2] = n + 1
    /\ Len(S) > 0 /\ S[1][1] > r => S[1][2] = 1
    /\ r <= b /\ SendsIn(p, r) /\ (Len(S) > 0 => S[1][1] > r) => n = sz[r]
    /\ n > 0 => r <= b

\* No message of a round begun is missing, and the peer is never past a round
\* in which it waits for one that is not begun.
NoneMissing(S, p, sz, r, b) ==
    /\ \A q \in r + 1 .. b :
          SendsIn(p, q) /\ sz[q] > 0 => \E i \in 1 .. Len(S) : S[i] = <<q, 1>>
    /\ \A q \in b + 1 .. r - 1 : SendsIn(p, q) => sz[q] = 0

Line(S, p, sz, r, n, b) ==
    /\ OnTheWay(S, p, sz, r, b)
    /\ InOrder(S, sz)
    /\ GoesOn(S, p, sz, r, n, b)
    /\ NoneMissing(S, p, sz, r, b)

LEMMA Steps ==
    /\ \A x, n, i \in Int : x - (n + 1) = i - 1 => x = n + i
    /\ \A k, m, n \in Int : k <= m - n /\ (k + 1) - 1 > m - (n + 1) => n + k = m
    /\ \A i, h \in Int : i >= h /\ ~(i > h) => i = h
OBVIOUS

LEMMA ChunkPair ==
    \A c \in Chunk : c[1] \in Rounds /\ c[1] \in Nat /\ c[2] \in Nat /\ c = <<c[1], c[2]>>
BY ScriptAssumption DEF Chunk, Rounds

\* What the peer takes next is of its round and goes on where its buffer ends.
LEMMA LineTaken ==
    ASSUME NEW S \in Seq(Chunk), NEW p, NEW sz \in [Rounds -> Nat],
           NEW r \in Rounds, NEW n \in Nat, NEW b \in Nat,
           Line(S, p, sz, r, n, b), SendsIn(p, r),
           NEW k \in 1 .. Len(S), k <= sz[r] - n
    PROVE  \A i \in 1 .. k : S[i] = <<r, n + i>>
<1> SUFFICES ASSUME NEW i \in 1 .. k PROVE S[i] = <<r, n + i>>
    OBVIOUS
<1>1. Rounds \subseteq Nat /\ Len(S) \in Nat /\ sz[r] \in Nat
    BY ScriptAssumption DEF Rounds
<1>2. S[1] \in Chunk /\ S[i] \in Chunk /\ i \in 1 .. Len(S) /\ 1 \in 1 .. Len(S)
    BY <1>1
<1>3. S[1][1] = r
  <2>1. r <= S[1][1] /\ S[1][1] <= b
      BY <1>2 DEF Line, OnTheWay
  <2>2. S[1][1] \in Nat
      BY <1>1, <1>2 DEF Chunk
  <2> QED
      BY <1>1, <1>2, <2>1, <2>2 DEF Line, GoesOn
<1>4. S[1][2] = n + 1
    BY <1>2, <1>3 DEF Line, GoesOn
<1>5. S[i] = <<r, n + i>>
  <2>1. CASE i = 1
      BY <1>2, <1>3, <1>4, <2>1, ChunkPair
  <2>2. CASE 1 < i
    <3>1. /\ S[1][1] <= S[i][1]
          /\ S[1][1] = S[i][1] => S[i][2] - S[1][2] = i - 1
          /\ S[1][1] < S[i][1] => i - 1 > sz[S[1][1]] - S[1][2]
        BY <1>2, <2>2 DEF Line, InOrder
    <3>2. S[i][1] \in Nat /\ S[i][2] \in Nat /\ S[i] = <<S[i][1], S[i][2]>>
        BY <1>2, ChunkPair
    <3>3. S[i][1] = r
        BY <1>1, <1>3, <1>4, <3>1, <3>2
    <3>4. S[i][2] = n + i
      <4>1. S[i][2] - (n + 1) = i - 1
          BY <1>3, <1>4, <3>1, <3>3
      <4> DEFINE x == S[i][2]
      <4>2. x \in Int /\ i \in Int /\ n \in Int /\ x - (n + 1) = i - 1
          BY <1>2, <3>2, <4>1
      <4> HIDE DEF x
      <4>3. x = n + i
          BY <4>2, Steps
      <4> QED
          BY <4>3 DEF x
    <3> QED
        BY <3>2, <3>3, <3>4
  <2> QED
      BY <2>1, <2>2
<1> QED
    BY <1>5

\* Taking it leaves the line as it should be for the longer buffer.
LEMMA LineTake ==
    ASSUME NEW S \in Seq(Chunk), NEW p, NEW sz \in [Rounds -> Nat],
           NEW r \in Rounds, NEW n \in Nat, NEW b \in Nat,
           Line(S, p, sz, r, n, b), SendsIn(p, r),
           NEW k \in 1 .. Len(S), k <= sz[r] - n,
           NEW T \in Seq(Chunk), Len(T) = Len(S) - k,
           \A i \in 1 .. Len(T) : T[i] = S[i + k]
    PROVE  Line(T, p, sz, r, n + k, b)
<1>1. Rounds \subseteq Nat /\ Len(S) \in Nat /\ sz[r] \in Nat /\ Len(T) \in Nat
    BY ScriptAssumption DEF Rounds
<1>2. \A i \in 1 .. k : S[i] = <<r, n + i>>
    BY LineTaken
<1>3. \A i \in 1 .. Len(S) : S[i][1] \in Rounds /\ S[i][2] \in Nat /\ sz[S[i][1]] \in Nat
  <2>1. \A i \in 1 .. Len(S) : S[i] \in Chunk
      OBVIOUS
  <2> QED
      BY <2>1, ChunkPair
<1>4. \A i \in 1 .. Len(T) : i + k \in 1 .. Len(S)
    BY <1>1
<1>5. OnTheWay(T, p, sz, r, b)
  <2> SUFFICES ASSUME NEW i \in 1 .. Len(T)
               PROVE  /\ SendsIn(p, T[i][1]) /\ r <= T[i][1] /\ T[i][1] <= b
                      /\ T[i][2] \in 1 .. sz[T[i][1]]
                      /\ Len(T) - i >= sz[T[i][1]] - T[i][2]
      BY DEF OnTheWay
  <2>1. T[i] = S[i + k] /\ i + k \in 1 .. Len(S)
      BY <1>4
  <2>2. Len(S) - (i + k) = Len(T) - i
      BY <1>1
  <2> QED
      BY <2>1, <2>2 DEF Line, OnTheWay
<1>6. InOrder(T, sz)
  <2> SUFFICES ASSUME NEW i \in 1 .. Len(T), NEW j \in 1 .. Len(T), i < j
               PROVE  /\ T[i][1] <= T[j][1]
                      /\ T[i][1] = T[j][1] => T[j][2] - T[i][2] = j - i
                      /\ T[i][1] < T[j][1] => j - i > sz[T[i][1]] - T[i][2]
      BY DEF InOrder
  <2>1. i + k \in 1 .. Len(S) /\ j + k \in 1 .. Len(S) /\ i + k < j + k
      BY <1>1, <1>4
  <2>2. T[i] = S[i + k] /\ T[j] = S[j + k] /\ (j + k) - (i + k) = j - i
      BY SMTT(40), <1>1
  <2> QED
      BY <2>1, <2>2 DEF Line, InOrder
<1>7. NoneMissing(T, p, sz, r, b)
  <2>1. ASSUME NEW q \in r + 1 .. b, SendsIn(p, q), sz[q] > 0
        PROVE  \E i \in 1 .. Len(T) : T[i] = <<q, 1>>
    <3>1. PICK i \in 1 .. Len(S) : S[i] = <<q, 1>>
        BY <2>1 DEF Line, NoneMissing
    <3>2. i > k
      <4> SUFFICES ASSUME i <= k PROVE FALSE
          BY <1>1
      <4>1. S[i][1] = r /\ S[i][1] = q
          BY <1>1, <1>2, <3>1
      <4> QED
          BY <1>1, <4>1
    <3>3. i - k \in 1 .. Len(T) /\ (i - k) + k = i
        BY <1>1, <3>2
    <3> QED
        BY <3>1, <3>3
  <2> QED
      BY <2>1 DEF NoneMissing, Line
<1>8. GoesOn(T, p, sz, r, n + k, b)
  <2>1. r <= b
    <3>1. S[1][1] = r /\ 1 \in 1 .. Len(S)
        BY <1>1, <1>2
    <3> QED
        BY <3>1 DEF Line, OnTheWay
  <2>2. S[1][1] = r /\ S[1][2] = n + 1 /\ 1 \in 1 .. Len(S)
      BY <1>1, <1>2
  <2>3. CASE Len(T) = 0
    <3>1. Len(S) - 1 >= sz[r] - (n + 1)
        BY <2>2 DEF Line, OnTheWay
    <3>2. n + k = sz[r]
        BY SMTT(40), <1>1, <2>3, <3>1
    <3> QED
        BY <1>1, <2>1, <2>3, <3>2 DEF GoesOn
  <2>4. CASE Len(T) > 0
    <3> DEFINE h == k + 1
    <3>1. h \in 1 .. Len(S) /\ 1 < h /\ T[1] = S[h]
        BY <1>1, <2>4
    <3>2. /\ r <= S[h][1]
          /\ r = S[h][1] => S[h][2] - (n + 1) = h - 1
          /\ r < S[h][1] => h - 1 > sz[r] - (n + 1)
        BY <2>2, <3>1 DEF Line, InOrder
    <3>3. S[h][1] \in Nat /\ S[h][2] \in Nat /\ SendsIn(p, S[h][1]) /\ S[h][1] <= b
          /\ S[h][2] \in 1 .. sz[S[h][1]] /\ sz[S[h][1]] \in Nat
        BY <1>1, <1>3, <3>1 DEF Line, OnTheWay
    <3>4. CASE S[h][1] = r
        BY SMTT(40), <1>1, <2>1, <3>1, <3>2, <3>3, <3>4 DEF GoesOn
    <3>5. CASE S[h][1] > r
      <4>1. n + k = sz[r]
        <5>1. h - 1 > sz[r] - (n + 1)
            BY <1>1, <3>2, <3>3, <3>5
        <5> DEFINE m == sz[r]
        <5>2. m \in Int /\ k \in Int /\ n \in Int /\ k <= m - n /\ (k + 1) - 1 > m - (n + 1)
            BY <1>1, <5>1
        <5> HIDE DEF m
        <5>3. n + k = m
            BY <5>2, Steps
        <5> QED
            BY <5>3 DEF m
      <4>2. PICK i \in 1 .. Len(S) : S[i] = <<S[h][1], 1>>
        <5>1. S[h][1] \in r + 1 .. b /\ sz[S[h][1]] > 0
          <6>1. sz[S[h][1]] > 0
              BY SMTT(40), <3>3
          <6> QED
              BY <1>1, <3>3, <3>5, <6>1
        <5> QED
            BY <3>3, <5>1 DEF Line, NoneMissing
      <4>3. i >= h
        <5> SUFFICES ASSUME i <= k PROVE FALSE
            BY <1>1
        <5>1. S[i][1] = r
            BY <1>2
        <5> QED
            BY <1>1, <3>5, <4>2, <5>1
      <4>4. ~(i > h)
        <5> SUFFICES ASSUME i > h PROVE FALSE
            OBVIOUS
        <5>1. S[i][2] - S[h][2] = i - h
            BY <3>1, <4>2 DEF Line, InOrder
        <5> QED
            BY <3>3, <4>2, <5>1
      <4>5. S[h][2] = 1
        <5>1. i = h
            BY <3>1, <4>2, <4>3, <4>4, Steps
        <5> QED
            BY <4>2, <5>1
      <4> QED
          BY SMTT(40), <1>1, <2>1, <3>1, <3>3, <3>5, <4>1, <4>5 DEF GoesOn
    <3> QED
        BY SMTT(40), <1>1, <3>2, <3>3, <3>4, <3>5
  <2> QED
      BY <1>1, <2>3, <2>4
<1> QED
    BY <1>5, <1>6, <1>7, <1>8 DEF Line

\* The peer leaves its round.
LEMMA LineNextRound ==
    ASSUME NEW S \in Seq(Chunk), NEW p, NEW sz \in [Rounds -> Nat],
           NEW r \in Rounds, NEW n \in Nat, NEW b \in 0 .. Len(Kind),
           Line(S, p, sz, r, n, b), SendsIn(p, r) => n = sz[r]
    PROVE  Line(S, p, sz, r + 1, 0, b)
<1>1. Rounds \subseteq Nat /\ Len(S) \in Nat /\ r \in Nat /\ sz[r] \in Nat /\ b \in Nat
    BY ScriptAssumption DEF Rounds
<1>2. \A i \in 1 .. Len(S) : S[i][1] \in Nat /\ S[i][2] \in Nat /\ S[i] = <<S[i][1], S[i][2]>>
  <2>1. \A i \in 1 .. Len(S) : S[i] \in Chunk
      OBVIOUS
  <2> QED
      BY <2>1, ChunkPair
<1>3. \A i \in 1 .. Len(S) : r + 1 <= S[i][1]
  <2> SUFFICES ASSUME NEW i \in 1 .. Len(S), S[i][1] = r PROVE FALSE
      BY <1>1, <1>2 DEF Line, OnTheWay
  <2>1. 1 \in 1 .. Len(S) /\ r <= S[1][1] /\ S[1][1] <= S[i][1]
    <3>1. 1 \in 1 .. Len(S)
        BY <1>1
    <3>2. r <= S[1][1]
        BY <3>1 DEF Line, OnTheWay
    <3>3. CASE i = 1
        BY <1>1, <1>2, <3>1, <3>2, <3>3
    <3>4. CASE 1 < i
        BY <3>1, <3>2, <3>4 DEF Line, InOrder
    <3> QED
        BY <3>1, <3>3, <3>4
  <2>2. S[1][1] = r
      BY <1>1, <1>2, <2>1
  <2>3. S[1][2] = n + 1 /\ SendsIn(p, r) /\ S[1][2] \in 1 .. sz[r]
    <3>1. Len(S) > 0
        BY <1>1, <2>1
    <3> QED
        BY <2>1, <2>2, <3>1 DEF Line, OnTheWay, GoesOn
  <2> QED
      BY <1>1, <2>3
<1>4. OnTheWay(S, p, sz, r + 1, b)
    BY <1>3 DEF Line, OnTheWay
<1>5. NoneMissing(S, p, sz, r + 1, b)
  <2>1. ASSUME NEW q \in b + 1 .. r, SendsIn(p, q) PROVE sz[q] = 0
    <3>1. CASE q = r
      <4>1. n = sz[r] /\ ~(r <= b)
          BY <1>1, <2>1, <3>1
      <4> QED
          BY <1>1, <3>1, <4>1 DEF Line, GoesOn
    <3>2. CASE q # r
      <4>1. q \in b + 1 .. r - 1
          BY <1>1, <3>2
      <4> QED
          BY <2>1, <4>1 DEF Line, NoneMissing
    <3> QED
        BY <3>1, <3>2
  <2>2. \A q \in (r + 1) + 1 .. b : q \in r + 1 .. b
      BY <1>1
  <2>3. (r + 1) - 1 = r
      BY <1>1
  <2> QED
      BY <2>1, <2>2, <2>3 DEF Line, NoneMissing
<1>6. GoesOn(S, p, sz, r + 1, 0, b)
  <2>1. ASSUME Len(S) > 0 PROVE S[1][2] = 1
    <3>1. S[1][1] > r
        BY <1>1, <1>2, <1>3, <2>1
    <3> QED
        BY <2>1, <3>1 DEF Line, GoesOn
  <2>2. ASSUME r + 1 <= b, SendsIn(p, r + 1), Len(S) > 0 => S[1][1] > r + 1
        PROVE  sz[r + 1] = 0
    <3> SUFFICES ASSUME sz[r + 1] # 0 PROVE FALSE
        OBVIOUS
    <3>1. r + 1 \in r + 1 .. b
        BY <1>1, <2>2
    <3>2. r + 1 \in Rounds
        BY <1>1, <2>2, ScriptAssumption DEF Rounds
    <3>3. sz[r + 1] > 0
      <4>1. sz[r + 1] \in Nat
          BY <3>2
      <4> QED
          BY <4>1
    <3>4. PICK i \in 1 .. Len(S) : S[i] = <<r + 1, 1>>
        BY <2>2, <3>1, <3>3 DEF Line, NoneMissing
    <3>5. Len(S) > 0 /\ 1 \in 1 .. Len(S)
        BY <1>1
    <3>6. S[1][1] <= r + 1
      <4>1. CASE i = 1
          BY <1>1, <3>4, <4>1
      <4>2. CASE 1 < i
          BY <3>4, <3>5, <4>2 DEF Line, InOrder
      <4> QED
          BY <1>1, <4>1, <4>2
    <3>7. S[1][1] > r + 1
        BY <2>2, <3>5
    <3> QED
        BY <1>1, <1>2, <3>5, <3>6, <3>7
  <2> QED
      BY <1>1, <2>1, <2>2 DEF GoesOn
<1>7. InOrder(S, sz)
    BY DEF Line
<1> QED
    BY <1>4, <1>5, <1>6, <1>7 DEF Line

\* p begins its next round, and has a message of m chunks to send.
LEMMA LineBegin ==
    ASSUME NEW S \in Seq(Chunk), NEW p, NEW sz \in [Rounds -> Nat],
           NEW r \in Nat \ {0}, NEW n \in Nat, NEW b \in Nat,
           Line(S, p, sz, r, n, b), b + 1 \in Rounds, SendsIn(p, b + 1),
           NEW T \in Seq(Chunk), Len(T) = Len(S) + sz[b + 1],
           \A i \in 1 .. Len(S) : T[i] = S[i],
           \A k \in 1 .. sz[b + 1] : T[Len(S) + k] = <<b + 1, k>>
    PROVE  Line(T, p, sz, r, n, b + 1)
<1> DEFINE L == Len(S)
           m == sz[b + 1]
<1>1. L \in Nat /\ m \in Nat /\ Rounds \subseteq Nat /\ Len(T) = L + m /\ Len(T) \in Nat
    BY ScriptAssumption DEF Rounds
<1>2. \A i \in 1 .. L :
          /\ S[i] = T[i] /\ i \in 1 .. Len(T)
          /\ S[i][1] \in Rounds /\ S[i][1] \in Nat /\ S[i][2] \in Nat /\ sz[S[i][1]] \in Nat
  <2>1. \A i \in 1 .. L : S[i] \in Chunk
      OBVIOUS
  <2>2. \A i \in 1 .. L : S[i] = T[i] /\ i \in 1 .. Len(T)
      BY <1>1
  <2> QED
      BY <2>1, <2>2, ChunkPair
<1>3. \A i \in 1 .. Len(T) : i > L =>
          i - L \in 1 .. m /\ T[i] = <<b + 1, i - L>>
  <2> SUFFICES ASSUME NEW i \in 1 .. Len(T), i > L
               PROVE  i - L \in 1 .. m /\ T[i] = <<b + 1, i - L>>
      OBVIOUS
  <2>1. i - L \in 1 .. m /\ L + (i - L) = i
      BY <1>1
  <2> QED
      BY <2>1
<1>4. m > 0 => r <= b + 1
  <2> SUFFICES ASSUME m > 0, r > b + 1 PROVE FALSE
      BY <1>1
  <2>1. b + 1 \in b + 1 .. r - 1
      OBVIOUS
  <2> QED
      BY <1>1, <2>1 DEF Line, NoneMissing
<1>5. OnTheWay(T, p, sz, r, b + 1)
  <2> SUFFICES ASSUME NEW i \in 1 .. Len(T)
               PROVE  /\ SendsIn(p, T[i][1]) /\ r <= T[i][1] /\ T[i][1] <= b + 1
                      /\ T[i][2] \in 1 .. sz[T[i][1]]
                      /\ Len(T) - i >= sz[T[i][1]] - T[i][2]
      BY DEF OnTheWay
  <2>1. CASE i <= L
    <3>1. i \in 1 .. L
        BY <1>1, <2>1
    <3>2. /\ SendsIn(p, S[i][1]) /\ r <= S[i][1] /\ S[i][1] <= b
          /\ S[i][2] \in 1 .. sz[S[i][1]]
          /\ L - i >= sz[S[i][1]] - S[i][2]
        BY <3>1 DEF Line, OnTheWay
    <3> HIDE DEF L, m
    <3>3. S[i][1] \in Nat /\ S[i][2] \in Nat /\ sz[S[i][1]] \in Nat /\ T[i] = S[i]
        BY <1>2, <3>1
    <3> DEFINE x == S[i][1]
               d == sz[S[i][1]] - S[i][2]
    <3>4. x \in Int /\ d \in Int /\ x <= b /\ L - i >= d
        BY ONLY <3>2, <3>3
    <3> HIDE DEF x, d
    <3>5. x <= b + 1 /\ (L + m) - i >= d
        BY SMTT(40), <1>1, <3>4
    <3>6. S[i][1] <= b + 1 /\ Len(T) - i >= sz[S[i][1]] - S[i][2]
        BY <1>1, <3>5 DEF x, d
    <3> QED
        BY <3>2, <3>3, <3>6
  <2>2. CASE i > L
    <3>1. i - L \in 1 .. m /\ T[i][1] = b + 1 /\ T[i][2] = i - L
        BY <1>3, <2>2
    <3>2. Len(T) - i >= m - (i - L)
        BY <1>1, <3>1
    <3>3. r <= b + 1
        BY <1>1, <1>4, <3>1
    <3> QED
        BY <3>1, <3>2, <3>3
  <2> QED
      BY <1>1, <2>1, <2>2
<1>6. InOrder(T, sz)
  <2> SUFFICES ASSUME NEW i \in 1 .. Len(T), NEW j \in 1 .. Len(T), i < j
               PROVE  /\ T[i][1] <= T[j][1]
                      /\ T[i][1] = T[j][1] => T[j][2] - T[i][2] = j - i
                      /\ T[i][1] < T[j][1] => j - i > sz[T[i][1]] - T[i][2]
      BY DEF InOrder
  <2>1. CASE j <= L
    <3>1. i \in 1 .. L /\ j \in 1 .. L
        BY <1>1, <2>1
    <3>2. T[i] = S[i] /\ T[j] = S[j]
        BY <3>1
    <3> QED
        BY <3>1, <3>2 DEF Line, InOrder
  <2>2. CASE i <= L /\ j > L
    <3>1. i \in 1 .. L /\ T[i] = S[i] /\ T[j][1] = b + 1
        BY <1>1, <1>3, <2>2
    <3>2. S[i][1] <= b /\ L - i >= sz[S[i][1]] - S[i][2]
        BY <3>1 DEF Line, OnTheWay
    <3> HIDE DEF L, m
    <3>3. S[i][1] \in Nat /\ S[i][2] \in Nat /\ sz[S[i][1]] \in Nat
        BY <1>2, <3>1
    <3> DEFINE x == S[i][1]
               d == sz[S[i][1]] - S[i][2]
    <3>4. x \in Int /\ d \in Int /\ x <= b /\ L - i >= d
        BY ONLY <3>2, <3>3
    <3> HIDE DEF x, d
    <3>5. x < b + 1 /\ j - i > d
        BY SMTT(40), <1>1, <2>2, <3>4
    <3>6. S[i][1] < b + 1 /\ j - i > sz[S[i][1]] - S[i][2]
        BY <3>5 DEF x, d
    <3>7. S[i][1] # b + 1 /\ S[i][1] <= b + 1
        BY SMTT(40), <3>3, <3>6
    <3> QED
        BY <3>1, <3>6, <3>7
  <2>3. CASE i > L
    <3>1. j > L
        BY <1>1, <2>3
    <3>2. /\ i - L \in 1 .. m /\ T[i][1] = b + 1 /\ T[i][2] = i - L
          /\ j - L \in 1 .. m /\ T[j][1] = b + 1 /\ T[j][2] = j - L
        BY <1>3, <2>3, <3>1
    <3>3. (j - L) - (i - L) = j - i /\ b + 1 <= b + 1 /\ ~(b + 1 < b + 1)
        BY <1>1
    <3> QED
        BY <3>2, <3>3
  <2> QED
      BY <1>1, <2>1, <2>2, <2>3
<1>7. GoesOn(T, p, sz, r, n, b + 1)
  <2>1. CASE L > 0
    <3>1. 1 \in 1 .. L /\ T[1] = S[1] /\ Len(T) > 0 /\ S[1][1] \in Nat
        BY <1>1, <1>2, <2>1
    <3>2. r <= S[1][1] /\ S[1][1] <= b
        BY <3>1 DEF Line, OnTheWay
    <3>3. r <= b
        BY <3>1, <3>2
    <3> QED
        BY <2>1, <3>1, <3>3 DEF Line, GoesOn
  <2>2. CASE L = 0
    <3>1. CASE m > 0
      <4>1. T[1] = <<b + 1, 1>> /\ Len(T) > 0
          BY <1>1, <1>3, <2>2, <3>1
      <4>2. n > 0 => r <= b
          BY DEF Line, GoesOn
      <4>3. T[1][1] = r => n = 0
          BY <4>1, <4>2
      <4>4. r <= b /\ SendsIn(p, r) => n = sz[r]
          BY <1>1, <2>2 DEF Line, GoesOn
      <4>5. b + 1 > r => r <= b
          OBVIOUS
      <4> HIDE DEF L, m
      <4>6. T[1][1] = b + 1 /\ T[1][2] = 1
          BY <4>1
      <4> QED
          BY <4>1, <4>2, <4>3, <4>4, <4>5, <4>6 DEF GoesOn
    <3>2. CASE m = 0
      <4>1. Len(T) = 0
          BY <1>1, <2>2, <3>2
      <4>2. n > 0 => r <= b
          BY DEF Line, GoesOn
      <4>3. r <= b /\ SendsIn(p, r) => n = sz[r]
          BY <1>1, <2>2 DEF Line, GoesOn
      <4>4. r = b + 1 => n = sz[r]
          BY <3>2, <4>2
      <4>5. r <= b + 1 => r <= b \/ r = b + 1
          OBVIOUS
      <4> QED
          BY <4>1, <4>2, <4>3, <4>4, <4>5 DEF GoesOn
    <3> QED
        BY <1>1, <3>1, <3>2
  <2> QED
      BY <1>1, <2>1, <2>2
<1>8. NoneMissing(T, p, sz, r, b + 1)
  <2>1. ASSUME NEW q \in r + 1 .. b + 1, SendsIn(p, q), sz[q] > 0
        PROVE  \E i \in 1 .. Len(T) : T[i] = <<q, 1>>
    <3>1. CASE q <= b
      <4>1. q \in r + 1 .. b
          BY <3>1
      <4>2. PICK i \in 1 .. L : S[i] = <<q, 1>>
          BY <2>1, <4>1 DEF Line, NoneMissing
      <4> QED
          BY <1>2, <4>2
    <3>2. CASE q = b + 1
      <4>1. 1 \in 1 .. m /\ L + 1 \in 1 .. Len(T)
          BY <1>1, <2>1, <3>2
      <4> QED
          BY <3>2, <4>1
    <3> QED
        BY <3>1, <3>2
  <2>2. \A q \in (b + 1) + 1 .. r - 1 : q \in b + 1 .. r - 1
      OBVIOUS
  <2> QED
      BY <2>1, <2>2 DEF Line, NoneMissing
<1> QED
    BY <1>5, <1>6, <1>7, <1>8 DEF Line

\* p begins a round it does not send in.
LEMMA LineBeginSilent ==
    ASSUME NEW S \in Seq(Chunk), NEW p, NEW sz \in [Rounds -> Nat],
           NEW r \in Nat \ {0}, NEW n \in Nat, NEW b \in Nat,
           Line(S, p, sz, r, n, b), ~SendsIn(p, b + 1)
    PROVE  Line(S, p, sz, r, n, b + 1)
<1>1. \A i \in 1 .. Len(S) : S[i][1] \in Nat
  <2>1. \A i \in 1 .. Len(S) : S[i] \in Chunk
      OBVIOUS
  <2> QED
      BY <2>1, ChunkPair
<1>2. OnTheWay(S, p, sz, r, b + 1)
    BY <1>1 DEF Line, OnTheWay
<1>3. GoesOn(S, p, sz, r, n, b + 1)
  <2>1. r <= b + 1 /\ SendsIn(p, r) => r <= b
      OBVIOUS
  <2>2. n > 0 => r <= b + 1
      BY DEF Line, GoesOn
  <2> QED
      BY <2>1, <2>2 DEF Line, GoesOn
<1>4. NoneMissing(S, p, sz, r, b + 1)
  <2>1. \A q \in r + 1 .. b + 1 : SendsIn(p, q) => q \in r + 1 .. b
      OBVIOUS
  <2>2. \A q \in (b + 1) + 1 .. r - 1 : q \in b + 1 .. r - 1
      OBVIOUS
  <2> QED
      BY <2>1, <2>2 DEF Line, NoneMissing
<1> QED
    BY <1>2, <1>3, <1>4 DEF Line

-----------------------------------------------------------------------------
(* Sequences of chunks, and the two parties.                               *)

LEMMA Cut ==
    ASSUME NEW t \in Seq(Chunk), NEW n \in 1 .. Len(t)
    PROVE  /\ SubSeq(t, 1, n) \in Seq(Chunk) /\ Len(SubSeq(t, 1, n)) = n
           /\ \A i \in 1 .. n : SubSeq(t, 1, n)[i] = t[i]
           /\ SubSeq(t, n + 1, Len(t)) \in Seq(Chunk)
           /\ Len(SubSeq(t, n + 1, Len(t))) = Len(t) - n
           /\ \A i \in 1 .. Len(t) - n : SubSeq(t, n + 1, Len(t))[i] = t[n + i]
OBVIOUS

\* Moving chunks from one buffer to the next changes nothing on the way.
LEMMA Move ==
    ASSUME NEW s \in Seq(Chunk), NEW t \in Seq(Chunk), NEW n \in 1 .. Len(t)
    PROVE  (s \o SubSeq(t, 1, n)) \o SubSeq(t, n + 1, Len(t)) = s \o t
<1> DEFINE u == SubSeq(t, 1, n)
           v == SubSeq(t, n + 1, Len(t))
<1>1. u \in Seq(Chunk) /\ v \in Seq(Chunk)
    BY Cut
<1>2. u \o v = t
  <2>1. u \o v = SubSeq(t, 1, Len(t))
    <3>1. 1 \in 1 .. Len(t) + 1 /\ n \in 1 - 1 .. Len(t) /\ Len(t) \in n .. Len(t)
        OBVIOUS
    <3> QED
        BY ONLY <3>1, t \in Seq(Chunk), ConcatAdjacentSubSeq
  <2>2. SubSeq(t, 1, Len(t)) = t
      OBVIOUS
  <2> QED
      BY <2>1, <2>2
<1> HIDE DEF u, v
<1>3. (s \o u) \o v = s \o (u \o v)
    BY SMTT(40), <1>1, ConcatAssociative
<1> QED
    BY <1>2, <1>3 DEF u, v

\* Taking from the first buffer is taking from the whole.
LEMMA TakeFront ==
    ASSUME NEW s \in Seq(Chunk), NEW t \in Seq(Chunk), NEW n \in 1 .. Len(s)
    PROVE  LET S == s \o t
               T == SubSeq(s, n + 1, Len(s)) \o t
           IN  /\ S \in Seq(Chunk) /\ T \in Seq(Chunk)
               /\ n \in 1 .. Len(S) /\ Len(T) = Len(S) - n
               /\ \A i \in 1 .. n : S[i] = s[i]
               /\ \A i \in 1 .. Len(T) : T[i] = S[i + n]
<1> DEFINE v == SubSeq(s, n + 1, Len(s))
           S == s \o t
           T == v \o t
<1>1. /\ v \in Seq(Chunk) /\ Len(v) = Len(s) - n
      /\ \A i \in 1 .. Len(s) - n : v[i] = s[n + i]
    BY Cut
<1> HIDE DEF v
<1>2. Len(s) \in Nat /\ Len(t) \in Nat /\ n \in Nat /\ 1 <= n /\ n <= Len(s)
    OBVIOUS
<1>3. /\ S \in Seq(Chunk) /\ Len(S) = Len(s) + Len(t)
      /\ \A i \in 1 .. Len(s) + Len(t) : S[i] = IF i <= Len(s) THEN s[i] ELSE t[i - Len(s)]
    BY ConcatProperties
<1>4. /\ T \in Seq(Chunk) /\ Len(T) = Len(v) + Len(t)
      /\ \A i \in 1 .. Len(v) + Len(t) : T[i] = IF i <= Len(v) THEN v[i] ELSE t[i - Len(v)]
    BY <1>1, ConcatProperties
<1> HIDE DEF S, T
<1>5. n \in 1 .. Len(S) /\ Len(T) = Len(S) - n
    BY <1>1, <1>2, <1>3, <1>4
<1>6. ASSUME NEW i \in 1 .. n PROVE S[i] = s[i]
    BY <1>2, <1>3
<1>7. ASSUME NEW i \in 1 .. Len(T) PROVE T[i] = S[i + n]
  <2>1. i \in Nat /\ i \in 1 .. Len(v) + Len(t) /\ i + n \in 1 .. Len(s) + Len(t)
      BY <1>1, <1>2, <1>4
  <2>2. CASE i <= Len(v)
    <3>1. T[i] = v[i] /\ v[i] = s[n + i] /\ n + i = i + n
        BY <1>1, <1>2, <1>4, <2>1, <2>2
    <3>2. i + n <= Len(s)
        BY <1>1, <1>2, <2>1, <2>2
    <3> QED
        BY <1>3, <2>1, <3>1, <3>2
  <2>3. CASE i > Len(v)
    <3>1. ~(i <= Len(v)) /\ ~(i + n <= Len(s)) /\ (i + n) - Len(s) = i - Len(v)
        BY <1>1, <1>2, <2>1, <2>3
    <3> QED
        BY <1>3, <1>4, <2>1, <3>1
  <2> QED
      BY <1>1, <1>2, <2>1, <2>2, <2>3
<1> QED
    BY <1>3, <1>4, <1>5, <1>6, <1>7 DEF S, T, v

LEMMA Peers ==
    \A p \in Role : /\ Peer(p) \in Role /\ Peer(p) # p /\ Peer(Peer(p)) = p
                    /\ \A x \in Role : x = p \/ x = Peer(p)
BY DEF Role, Peer, SERVER, CLIENT

LEMMA SizesNat ==
    \A sz \in Sizes, p \in Role : sz[p] \in [Rounds -> Nat]
BY ScriptAssumption

LEMMA RcvBytesNat ==
    \A sz \in Sizes, p \in Role : RcvBytes[sz][p] \in [Rounds -> Nat]
BY Crosswise

LEMMA RoundsAre == Len(Kind) \in Nat /\ Rounds = 1 .. Len(Kind) /\ Cap \in Nat /\ Cap > 0
BY ScriptAssumption DEF Rounds

LEMMA MessageChunks ==
    ASSUME NEW p \in Role, NEW r \in Rounds, size \in Sizes
    PROVE  /\ Message(p, r) \in Seq(Chunk) /\ Len(Message(p, r)) = size[p][r]
           /\ size[p][r] \in Nat
           /\ \A k \in 1 .. size[p][r] : Message(p, r)[k] = <<r, k>>
<1>1. size[p][r] \in Nat
    BY SizesNat
<1>2. \A k \in 1 .. size[p][r] : <<r, k>> \in Chunk
    BY <1>1 DEF Chunk
<1> DEFINE n == size[p][r]
           f == [k \in 1 .. n |-> <<r, k>>]
<1>3. f \in Seq(Chunk) /\ Len(f) = n /\ \A k \in 1 .. n : f[k] = <<r, k>>
  <2>1. n \in Nat /\ \A k \in 1 .. n : <<r, k>> \in Chunk
      BY <1>1, <1>2
  <2> HIDE DEF n
  <2> QED
      BY <2>1
<1> QED
    BY <1>1, <1>3 DEF Message

-----------------------------------------------------------------------------
(* The inductive invariant.                                                *)

\* The rounds p has begun.
Begun(p) == IF main[p] = "start" THEN round[p] - 1 ELSE round[p]

Types ==
    /\ size \in Sizes
    /\ round \in [Role -> 1 .. Len(Kind) + 1]
    /\ main \in [Role -> {"start", "send", "recv", "join"}]
    /\ thread \in [Role -> {"none", "created", "running", "finished"}]
    /\ toSend \in [Role -> Seq(Chunk)]
    /\ chan \in [Role -> Seq(Chunk)]
    /\ buf \in [Role -> Seq(Chunk)]
    /\ bytes_sent \in [Role -> Nat]
    /\ bytes_received \in [Role -> Nat]

\* What the place a party is at in its round implies.
Control(p) ==
    /\ main[p] # "start" => Active(p)
    /\ main[p] \in {"start", "send"} => thread[p] = "none" /\ buf[p] = <<>>
    /\ main[p] = "send" => Kind[round[p]] # "oneway"
    /\ main[p] = "recv" => Receives(p)
    /\ main[p] = "join" => thread[p] # "none"
    /\ toSend[p] # <<>> => main[p] = "send" \/ thread[p] \in {"created", "running"}

\* The receive buffer holds the beginning of the message of the round.
Buffer(p) ==
    /\ \A k \in 1 .. Len(buf[p]) : buf[p][k] = <<round[p], k>>
    /\ Active(p) /\ Receives(p) => Len(buf[p]) <= RecvLen(p)
    /\ main[p] = "join" /\ Receives(p) => Len(buf[p]) = RecvLen(p)

\* The chunks from p that its peer has not taken.
Way(p) == chan[p] \o toSend[p]
InLine(p) ==
    Line(Way(p), p, size[p], round[Peer(p)], Len(buf[Peer(p)]), Begun(p))

\* What is counted as sent and not as received is on the way or in the
\* buffer of a Receive that has not returned.
Uncounted(p) == IF thread[p] = "created" THEN size[p][round[p]] ELSE 0
Taken(p) == IF main[p] = "recv" THEN Len(buf[p]) ELSE 0
Counted(p) ==
    bytes_sent[p] + Uncounted(p) =
        bytes_received[Peer(p)] + Len(chan[p]) + Len(toSend[p]) + Taken(Peer(p))

XInv ==
    /\ Types
    /\ \A p \in Role :
          Control(p) /\ Buffer(p) /\ InLine(p) /\ Counted(p)

\* Every operation of a party, whichever of its threads performs it.
Operation(p) ==
    \/ Begin(p) \/ ThreadStart(p) \/ CopyOut(p) \/ SendReturns(p)
    \/ CopyIn(p) \/ ReceiveReturns(p) \/ Join(p)

LEMMA NextOperation == Next => \E p \in Role : Operation(p)
BY DEF Next, Main, Thread, Operation

-----------------------------------------------------------------------------
(* The types and the control.                                              *)

LEMMA XInvInit == Init => XInv
<1> SUFFICES ASSUME Init PROVE XInv
    OBVIOUS
<1>1. Types
  <2>1. 1 \in 1 .. Len(Kind) + 1 /\ <<>> \in Seq(Chunk)
      BY RoundsAre
  <2> QED
      BY <2>1 DEF Init, Types
<1>2. ASSUME NEW p \in Role
      PROVE  Control(p) /\ Buffer(p) /\ InLine(p) /\ Counted(p)
  <2>1. Peer(p) \in Role
      BY Peers
  <2>2. /\ main[p] = "start" /\ thread[p] = "none" /\ toSend[p] = <<>>
        /\ chan[p] = <<>> /\ buf[p] = <<>> /\ round[p] = 1
        /\ bytes_sent[p] = 0 /\ bytes_received[p] = 0
      BY DEF Init
  <2>3. /\ main[Peer(p)] = "start" /\ buf[Peer(p)] = <<>>
        /\ round[Peer(p)] = 1 /\ bytes_received[Peer(p)] = 0
      BY <2>1 DEF Init
  <2>4. Control(p)
      BY <2>2 DEF Control
  <2>5. Buffer(p)
    <3>1. size \in Sizes /\ Len(buf[p]) = 0
        BY <2>2 DEF Init
    <3>2. Active(p) => Len(buf[p]) <= RecvLen(p)
        BY <3>1, RcvBytesNat DEF Active, RecvLen
    <3> QED
        BY <2>2, <3>1, <3>2 DEF Buffer
  <2>6. Counted(p)
      BY <2>2, <2>3 DEF Counted, Uncounted, Taken
  <2>7. InLine(p)
    <3>1. Way(p) = <<>> /\ Begun(p) = 0 /\ Len(buf[Peer(p)]) = 0
      <4>1. <<>> \o <<>> = <<>>
          OBVIOUS
      <4> QED
          BY <2>2, <2>3, <4>1 DEF Way, Begun
    <3>2. Line(<<>>, p, size[p], 1, 0, 0)
      <4>1. OnTheWay(<<>>, p, size[p], 1, 0) /\ InOrder(<<>>, size[p])
          BY DEF OnTheWay, InOrder
      <4>2. GoesOn(<<>>, p, size[p], 1, 0, 0)
          BY DEF GoesOn
      <4>3. NoneMissing(<<>>, p, size[p], 1, 0)
          BY DEF NoneMissing
      <4> QED
          BY <4>1, <4>2, <4>3 DEF Line
    <3> QED
        BY <2>3, <3>1, <3>2 DEF InLine
  <2> QED
      BY <2>4, <2>5, <2>6, <2>7
<1> QED
    BY <1>1, <1>2 DEF XInv

\* The sizes a party meets are numbers.
LEMMA SizesHere ==
    ASSUME Types, NEW p \in Role, Active(p)
    PROVE  /\ round[p] \in Rounds /\ round[p] \in Nat /\ round[p] + 1 \in 1 .. Len(Kind) + 1
           /\ size[p][round[p]] \in Nat /\ RecvLen(p) \in Nat
<1>1. round[p] \in Rounds /\ round[p] \in 1 .. Len(Kind)
    BY RoundsAre DEF Active
<1>2. size[p] \in [Rounds -> Nat] /\ RcvBytes[size][p] \in [Rounds -> Nat]
    BY SizesNat, RcvBytesNat DEF Types
<1> QED
    BY <1>1, <1>2, RoundsAre DEF RecvLen

\* What a party asks for is what its peer sends.
LEMMA AsksForAll ==
    ASSUME Types, NEW p \in Role, Active(p), Receives(p)
    PROVE  RecvLen(p) = size[Peer(p)][round[p]]
<1>1. size \in Sizes /\ round[p] \in Rounds
    BY SizesHere DEF Types
<1>2. Kind[round[p]] # "oneway" \/ p = CLIENT
    BY DEF Receives
<1> QED
    BY <1>1, <1>2, Crosswise DEF RecvLen

LEMMA TypesReturn ==
    ASSUME Types, NEW p \in Role, Active(p), Return(p)
    PROVE  /\ round' \in [Role -> 1 .. Len(Kind) + 1]
           /\ main' \in [Role -> {"start", "send", "recv", "join"}]
           /\ thread' \in [Role -> {"none", "created", "running", "finished"}]
           /\ buf' \in [Role -> Seq(Chunk)]
<1>1. <<>> \in Seq(Chunk) /\ round[p] + 1 \in 1 .. Len(Kind) + 1
    BY SizesHere
<1> QED
    BY <1>1 DEF Types, Return

LEMMA TypesStep ==
    ASSUME Types, NEW p \in Role, Control(p), Operation(p)
    PROVE  Types'
<1>1. CASE Begin(p)
  <2>1. Active(p) /\ main[p] = "start"
      BY <1>1 DEF Begin, BeginAs
  <2>2. Message(p, round[p]) \in Seq(Chunk) /\ size[p][round[p]] \in Nat
      BY <2>1, SizesHere, MessageChunks DEF Types
  <2> DEFINE m == Message(p, round[p])
             k == size[p][round[p]]
  <2>3. /\ \/ toSend' = toSend
           \/ toSend' = [toSend EXCEPT ![p] = m]
        /\ \/ bytes_sent' = bytes_sent
           \/ bytes_sent' = [bytes_sent EXCEPT ![p] = @ + k]
        /\ \E x \in {"send", "recv", "join"} : main' = [main EXCEPT ![p] = x]
        /\ thread' = thread \/ thread' = [thread EXCEPT ![p] = "created"]
        /\ UNCHANGED <<size, round, chan, buf, bytes_received>>
      BY <1>1 DEF Begin, BeginAs
  <2>4. m \in Seq(Chunk) /\ k \in Nat
      BY <2>2
  <2> HIDE DEF m, k
  <2>5. bytes_sent' \in [Role -> Nat]
    <3>1. bytes_sent \in [Role -> Nat] /\ bytes_sent[p] + k \in Nat
        BY <2>4 DEF Types
    <3> QED
        BY <2>3, <3>1
  <2>6. toSend' \in [Role -> Seq(Chunk)]
      BY <2>3, <2>4 DEF Types
  <2>7. main' \in [Role -> {"start", "send", "recv", "join"}]
      BY <2>3 DEF Types
  <2>8. thread' \in [Role -> {"none", "created", "running", "finished"}]
      BY <2>3 DEF Types
  <2> QED
      BY <2>3, <2>5, <2>6, <2>7, <2>8 DEF Types
<1>2. CASE ThreadStart(p)
  <2>1. Active(p)
      BY <1>2 DEF Control, ThreadStart, ThreadStartAdding, Types
  <2>2. size[p][round[p]] \in Nat
      BY <2>1, SizesHere
  <2>3. /\ bytes_sent' = [bytes_sent EXCEPT ![p] = @ + size[p][round[p]]]
        /\ thread' = [thread EXCEPT ![p] = "running"]
        /\ UNCHANGED <<size, round, main, toSend, chan, buf, bytes_received>>
      BY <1>2 DEF ThreadStart, ThreadStartAdding
  <2> QED
      BY <2>2, <2>3 DEF Types
<1>3. CASE CopyOut(p)
  <2>1. PICK n \in 1 .. Cap - Len(chan[p]) :
            /\ n <= Len(toSend[p])
            /\ chan' = [chan EXCEPT ![p] = @ \o SubSeq(toSend[p], 1, n)]
            /\ toSend' = [toSend EXCEPT ![p] = SubSeq(@, n + 1, Len(@))]
            /\ UNCHANGED <<size, round, main, thread, buf, counters>>
      BY <1>3 DEF CopyOut
  <2>2. toSend[p] \in Seq(Chunk) /\ chan[p] \in Seq(Chunk) /\ n \in 1 .. Len(toSend[p])
      BY <2>1, RoundsAre DEF Types
  <2>3. /\ SubSeq(toSend[p], 1, n) \in Seq(Chunk)
        /\ SubSeq(toSend[p], n + 1, Len(toSend[p])) \in Seq(Chunk)
      BY <2>2, Cut
  <2>4. chan[p] \o SubSeq(toSend[p], 1, n) \in Seq(Chunk)
      BY <2>2, <2>3
  <2>5. chan' \in [Role -> Seq(Chunk)]
      BY <2>1, <2>4 DEF Types
  <2>6. toSend' \in [Role -> Seq(Chunk)]
      BY <2>1, <2>3 DEF Types
  <2> QED
      BY <2>1, <2>5, <2>6 DEF Types, counters
<1>4. CASE SendReturns(p)
    BY <1>4 DEF Types, SendReturns, counters
<1>5. CASE CopyIn(p)
  <2> DEFINE q == Peer(p)
  <2>1. PICK n \in 1 .. RecvLen(p) - Len(buf[p]) :
            /\ n <= Len(chan[q])
            /\ buf' = [buf EXCEPT ![p] = @ \o SubSeq(chan[q], 1, n)]
            /\ chan' = [chan EXCEPT ![q] = SubSeq(@, n + 1, Len(@))]
            /\ UNCHANGED <<size, round, main, thread, toSend, counters>>
      BY <1>5 DEF CopyIn, CopyInUpTo
  <2>2. q \in Role
      BY Peers
  <2> HIDE DEF q
  <2>3. chan[q] \in Seq(Chunk) /\ buf[p] \in Seq(Chunk)
      BY <2>2 DEF Types
  <2>4. n \in 1 .. Len(chan[q])
      BY <2>1, <2>3
  <2>5. SubSeq(chan[q], 1, n) \in Seq(Chunk) /\ SubSeq(chan[q], n + 1, Len(chan[q])) \in Seq(Chunk)
      BY <2>3, <2>4, Cut
  <2>6. buf[p] \o SubSeq(chan[q], 1, n) \in Seq(Chunk)
      BY <2>3, <2>5
  <2>7. buf' \in [Role -> Seq(Chunk)]
      BY <2>1, <2>6 DEF Types
  <2>8. chan' \in [Role -> Seq(Chunk)]
      BY <2>1, <2>2, <2>5 DEF Types
  <2> QED
      BY <2>1, <2>7, <2>8 DEF Types, counters
<1>6. CASE ReceiveReturns(p)
  <2>1. Active(p)
      BY <1>6 DEF Control, ReceiveReturns, ReceiveReturnsIf
  <2>2. RecvLen(p) \in Nat
      BY <2>1, SizesHere
  <2>3. /\ bytes_received' = [bytes_received EXCEPT ![p] = @ + RecvLen(p)]
        /\ UNCHANGED <<size, toSend, chan, bytes_sent>>
        /\ \/ /\ main' = [main EXCEPT ![p] = "join"]
              /\ UNCHANGED <<round, thread, buf>>
           \/ Return(p)
      BY <1>6 DEF ReceiveReturns, ReceiveReturnsIf
  <2>4. bytes_received' \in [Role -> Nat]
      BY <2>2, <2>3 DEF Types
  <2>5. CASE Return(p)
      BY <2>1, <2>3, <2>4, <2>5, TypesReturn DEF Types
  <2>6. CASE /\ main' = [main EXCEPT ![p] = "join"]
             /\ UNCHANGED <<round, thread, buf>>
      BY <2>3, <2>4, <2>6 DEF Types
  <2> QED
      BY <2>3, <2>5, <2>6
<1>7. CASE Join(p)
  <2>1. Active(p) /\ Return(p) /\ UNCHANGED <<size, toSend, chan, counters>>
      BY <1>7 DEF Control, Join
  <2> QED
      BY <2>1, TypesReturn DEF Types, counters
<1> QED
    BY <1>1, <1>2, <1>3, <1>4, <1>5, <1>6, <1>7 DEF Operation

-----------------------------------------------------------------------------
(* What each operation of p does to the state of p and of its peer.        *)

LEMMA PeerFrame ==
    ASSUME Types, NEW p \in Role, Operation(p)
    PROVE  LET q == Peer(p) IN
           /\ size' = size /\ round'[q] = round[q] /\ main'[q] = main[q]
           /\ thread'[q] = thread[q] /\ toSend'[q] = toSend[q] /\ buf'[q] = buf[q]
           /\ bytes_sent'[q] = bytes_sent[q] /\ bytes_received'[q] = bytes_received[q]
<1> DEFINE q == Peer(p)
<1>1. q \in Role /\ q # p
    BY Peers
<1> HIDE DEF q
<1>2. /\ size' = size /\ round'[q] = round[q] /\ main'[q] = main[q]
      /\ thread'[q] = thread[q] /\ toSend'[q] = toSend[q] /\ buf'[q] = buf[q]
      /\ bytes_sent'[q] = bytes_sent[q] /\ bytes_received'[q] = bytes_received[q]
  <2>1. CASE Begin(p)
      BY <1>1, <2>1 DEF Begin, BeginAs, Types
  <2>2. CASE ThreadStart(p)
      BY <1>1, <2>2 DEF ThreadStart, ThreadStartAdding, Types
  <2>3. CASE CopyOut(p)
      BY <1>1, <2>3 DEF CopyOut, counters, Types
  <2>4. CASE SendReturns(p)
      BY <1>1, <2>4 DEF SendReturns, counters, Types
  <2>5. CASE CopyIn(p)
      BY <1>1, <2>5 DEF CopyIn, CopyInUpTo, counters, Types
  <2>6. CASE ReceiveReturns(p)
      BY <1>1, <2>6 DEF ReceiveReturns, ReceiveReturnsIf, Return, Types
  <2>7. CASE Join(p)
      BY <1>1, <2>7 DEF Join, Return, counters, Types
  <2> QED
      BY <2>1, <2>2, <2>3, <2>4, <2>5, <2>6, <2>7 DEF Operation
<1> QED
    BY <1>2 DEF q

LEMMA BeginAt ==
    ASSUME Types, NEW p \in Role, Begin(p)
    PROVE  /\ Active(p) /\ main[p] = "start" /\ main'[p] # "start"
           /\ round'[p] = round[p] /\ buf'[p] = buf[p] /\ chan' = chan
           /\ bytes_received' = bytes_received
           /\ ~Sends(p) => /\ main'[p] = "recv" /\ thread'[p] = thread[p]
                           /\ toSend'[p] = toSend[p] /\ bytes_sent'[p] = bytes_sent[p]
           /\ Sends(p) => toSend'[p] = Message(p, round[p])
           /\ Sends(p) /\ Kind[round[p]] = "inline" =>
                  /\ main'[p] = "send" /\ thread'[p] = thread[p]
                  /\ bytes_sent'[p] = bytes_sent[p] + size[p][round[p]]
           /\ Sends(p) /\ Kind[round[p]] # "inline" =>
                  /\ main'[p] = IF Receives(p) THEN "recv" ELSE "join"
                  /\ thread'[p] = "created" /\ bytes_sent'[p] = bytes_sent[p]
<1>1. CASE ~Sends(p)
    BY <1>1 DEF Begin, BeginAs, Types
<1>2. CASE Sends(p) /\ Kind[round[p]] = "inline"
  <2> DEFINE m == Message(p, round[p])
  <2>1. /\ Active(p) /\ main[p] = "start"
        /\ toSend' = [toSend EXCEPT ![p] = m]
        /\ main' = [main EXCEPT ![p] = "send"] /\ UNCHANGED thread
        /\ bytes_sent' = [bytes_sent EXCEPT ![p] = @ + size[p][round[p]]]
        /\ UNCHANGED <<size, round, chan, buf, bytes_received>>
      BY <1>2 DEF Begin, BeginAs
  <2> HIDE DEF m
  <2>2. toSend'[p] = m
      BY <2>1 DEF Types
  <2> QED
      BY <1>2, <2>1, <2>2 DEF Types, m
<1>3. CASE Sends(p) /\ Kind[round[p]] # "inline"
  <2> DEFINE m == Message(p, round[p])
             x == IF Receives(p) THEN "recv" ELSE "join"
  <2>1. /\ Active(p) /\ main[p] = "start"
        /\ toSend' = [toSend EXCEPT ![p] = m]
        /\ main' = [main EXCEPT ![p] = x]
        /\ thread' = [thread EXCEPT ![p] = "created"]
        /\ UNCHANGED <<size, round, chan, buf, bytes_sent, bytes_received>>
      BY <1>3 DEF Begin, BeginAs
  <2>2. x # "start"
      OBVIOUS
  <2> HIDE DEF m, x
  <2>3. toSend'[p] = m /\ main'[p] = x
      BY <2>1 DEF Types
  <2> QED
      BY <1>3, <2>1, <2>2, <2>3 DEF Types, m, x
<1> QED
    BY <1>1, <1>2, <1>3

LEMMA ThreadStartAt ==
    ASSUME Types, NEW p \in Role, ThreadStart(p)
    PROVE  /\ thread[p] = "created" /\ thread'[p] = "running"
           /\ round'[p] = round[p] /\ main'[p] = main[p] /\ buf'[p] = buf[p]
           /\ toSend'[p] = toSend[p] /\ chan' = chan
           /\ bytes_sent'[p] = bytes_sent[p] + size[p][round[p]]
           /\ bytes_received' = bytes_received
BY DEF ThreadStart, ThreadStartAdding, Types

LEMMA CopyOutAt ==
    ASSUME Types, NEW p \in Role, CopyOut(p)
    PROVE  \E n \in 1 .. Len(toSend[p]) :
               /\ n <= Cap - Len(chan[p])
               /\ chan'[p] = chan[p] \o SubSeq(toSend[p], 1, n)
               /\ toSend'[p] = SubSeq(toSend[p], n + 1, Len(toSend[p]))
               /\ Sending(p) /\ chan'[Peer(p)] = chan[Peer(p)]
               /\ round'[p] = round[p] /\ main'[p] = main[p] /\ buf'[p] = buf[p]
               /\ thread'[p] = thread[p] /\ bytes_sent' = bytes_sent
               /\ bytes_received' = bytes_received
<1> DEFINE q == Peer(p)
<1>1. q \in Role /\ q # p
    BY Peers
<1> HIDE DEF q
<1>2. PICK n \in 1 .. Cap - Len(chan[p]) :
          /\ n <= Len(toSend[p])
          /\ chan' = [chan EXCEPT ![p] = @ \o SubSeq(toSend[p], 1, n)]
          /\ toSend' = [toSend EXCEPT ![p] = SubSeq(@, n + 1, Len(@))]
          /\ UNCHANGED <<size, round, main, thread, buf, counters>>
          /\ Sending(p)
    BY DEF CopyOut
<1>3. Len(toSend[p]) \in Nat /\ Len(chan[p]) \in Nat
    BY DEF Types
<1>4. n \in 1 .. Len(toSend[p]) /\ n <= Cap - Len(chan[p])
    BY <1>2, <1>3, RoundsAre
<1>5. /\ chan'[p] = chan[p] \o SubSeq(toSend[p], 1, n)
      /\ toSend'[p] = SubSeq(toSend[p], n + 1, Len(toSend[p]))
      /\ chan'[q] = chan[q]
    BY <1>1, <1>2 DEF Types
<1> QED
    BY <1>2, <1>4, <1>5 DEF counters, q

LEMMA SendReturnsAt ==
    ASSUME Types, NEW p \in Role, SendReturns(p)
    PROVE  /\ toSend[p] = <<>> /\ toSend'[p] = <<>>
           /\ round'[p] = round[p] /\ buf'[p] = buf[p] /\ chan' = chan
           /\ bytes_sent' = bytes_sent /\ bytes_received' = bytes_received
           /\ main[p] = "send" => main'[p] = "recv" /\ thread'[p] = thread[p]
           /\ main[p] # "send" => /\ thread[p] = "running" /\ thread'[p] = "finished"
                                  /\ main'[p] = main[p]
BY DEF SendReturns, Sending, counters, Types

LEMMA CopyInAt ==
    ASSUME Types, NEW p \in Role, CopyIn(p)
    PROVE  LET q == Peer(p) IN
           \E n \in 1 .. Len(chan[q]) :
               /\ main[p] = "recv" /\ n <= RecvLen(p) - Len(buf[p])
               /\ buf'[p] = buf[p] \o SubSeq(chan[q], 1, n)
               /\ chan'[q] = SubSeq(chan[q], n + 1, Len(chan[q]))
               /\ chan'[p] = chan[p] /\ toSend' = toSend
               /\ round'[p] = round[p] /\ main' = main /\ thread'[p] = thread[p]
               /\ bytes_sent' = bytes_sent /\ bytes_received' = bytes_received
<1> DEFINE q == Peer(p)
<1>1. q \in Role /\ q # p
    BY Peers
<1>2. PICK n \in 1 .. RecvLen(p) - Len(buf[p]) :
          /\ n <= Len(chan[q])
          /\ buf' = [buf EXCEPT ![p] = @ \o SubSeq(chan[q], 1, n)]
          /\ chan' = [chan EXCEPT ![q] = SubSeq(@, n + 1, Len(@))]
          /\ UNCHANGED <<size, round, main, thread, toSend, counters>>
          /\ main[p] = "recv"
    BY DEF CopyIn, CopyInUpTo
<1> HIDE DEF q
<1>3. Len(chan[q]) \in Nat
    BY <1>1 DEF Types
<1>4. n \in 1 .. Len(chan[q])
    BY <1>2, <1>3
<1>5. n <= RecvLen(p) - Len(buf[p])
    BY <1>2
<1>6. /\ buf'[p] = buf[p] \o SubSeq(chan[q], 1, n)
      /\ chan'[q] = SubSeq(chan[q], n + 1, Len(chan[q]))
      /\ chan'[p] = chan[p]
    BY <1>1, <1>2 DEF Types
<1> QED
    BY <1>2, <1>4, <1>5, <1>6 DEF counters, q

LEMMA ReturnAt ==
    ASSUME Types, NEW p \in Role, Return(p)
    PROVE  /\ round'[p] = round[p] + 1 /\ main'[p] = "start"
           /\ thread'[p] = "none" /\ buf'[p] = <<>>
BY DEF Return, Types

LEMMA ReceiveReturnsAt ==
    ASSUME Types, NEW p \in Role, ReceiveReturns(p)
    PROVE  /\ main[p] = "recv" /\ Len(buf[p]) = RecvLen(p)
           /\ bytes_received'[p] = bytes_received[p] + RecvLen(p)
           /\ toSend' = toSend /\ chan' = chan /\ bytes_sent' = bytes_sent
           /\ thread[p] # "none" => /\ main'[p] = "join" /\ round'[p] = round[p]
                                    /\ thread'[p] = thread[p] /\ buf'[p] = buf[p]
           /\ thread[p] = "none" => Return(p)
BY DEF ReceiveReturns, ReceiveReturnsIf, Types

LEMMA JoinAt ==
    ASSUME Types, NEW p \in Role, Join(p)
    PROVE  /\ main[p] = "join" /\ thread[p] = "finished" /\ Return(p)
           /\ toSend' = toSend /\ chan' = chan
           /\ bytes_sent' = bytes_sent /\ bytes_received' = bytes_received
BY DEF Join, counters

-----------------------------------------------------------------------------
(* Each part of the invariant is preserved.                                *)

LEMMA ControlStep ==
    ASSUME Types, NEW p \in Role, Control(p), Control(Peer(p)), Operation(p)
    PROVE  Control(p)' /\ Control(Peer(p))'
<1> DEFINE q == Peer(p)
<1>1. Control(q)'
    BY PeerFrame DEF Control, Active, Receives
<1>2. CASE Begin(p)
  <2>1. Sends(p) \/ Receives(p)
      BY DEF Sends, Receives, Role, SERVER, CLIENT
  <2>2. ~Sends(p) => thread'[p] = thread[p] /\ toSend'[p] = toSend[p]
                     /\ main'[p] = "recv" /\ Receives(p)
      BY <1>2, <2>1, BeginAt
  <2>3. Sends(p) /\ Kind[round[p]] = "inline" => main'[p] = "send" /\ thread'[p] = thread[p]
      BY <1>2, BeginAt
  <2>4. Sends(p) /\ Kind[round[p]] # "inline" =>
            main'[p] = (IF Receives(p) THEN "recv" ELSE "join") /\ thread'[p] = "created"
      BY <1>2, BeginAt
  <2>5. thread[p] = "none" /\ buf[p] = <<>> /\ toSend[p] = <<>>
      BY <1>2, BeginAt DEF Control
  <2>6. Active(p) /\ round'[p] = round[p] /\ buf'[p] = buf[p]
      BY <1>2, BeginAt
  <2>7. Active(p)' /\ (Receives(p)' <=> Receives(p)) /\ Kind[round'[p]] = Kind[round[p]]
      BY <2>6 DEF Active, Receives
  <2> QED
      BY <1>1, <2>2, <2>3, <2>4, <2>5, <2>6, <2>7 DEF Control
<1>3. CASE ThreadStart(p)
    BY <1>1, <1>3, ThreadStartAt DEF Control, Active, Receives
<1>4. CASE CopyOut(p)
  <2>1. /\ round'[p] = round[p] /\ main'[p] = main[p] /\ buf'[p] = buf[p]
        /\ thread'[p] = thread[p] /\ Sending(p)
      BY <1>4, CopyOutAt
  <2> QED
      BY <1>1, <2>1 DEF Control, Active, Receives, Sending
<1>5. CASE SendReturns(p)
  <2>1. /\ round'[p] = round[p] /\ buf'[p] = buf[p] /\ toSend'[p] = <<>>
        /\ main[p] = "send" => main'[p] = "recv" /\ thread'[p] = thread[p]
        /\ main[p] # "send" => /\ thread[p] = "running" /\ thread'[p] = "finished"
                               /\ main'[p] = main[p]
      BY <1>5, SendReturnsAt
  <2>2. main[p] = "send" => Receives(p)
      BY DEF Control, Receives
  <2> QED
      BY <1>1, <2>1, <2>2 DEF Control, Active, Receives
<1>6. CASE CopyIn(p)
  <2>1. /\ round'[p] = round[p] /\ main' = main /\ thread'[p] = thread[p]
        /\ toSend' = toSend /\ main[p] = "recv"
      BY <1>6, CopyInAt
  <2> QED
      BY <1>1, <2>1 DEF Control, Active, Receives
<1>7. CASE ReceiveReturns(p)
  <2>1. /\ main[p] = "recv" /\ toSend' = toSend
        /\ thread[p] # "none" => /\ main'[p] = "join" /\ round'[p] = round[p]
                                 /\ thread'[p] = thread[p] /\ buf'[p] = buf[p]
        /\ thread[p] = "none" => main'[p] = "start" /\ thread'[p] = "none" /\ buf'[p] = <<>>
      BY <1>7, ReceiveReturnsAt, ReturnAt
  <2>2. CASE thread[p] = "none"
      BY <1>1, <2>1, <2>2 DEF Control
  <2>3. CASE thread[p] # "none"
      BY <1>1, <2>1, <2>3 DEF Control, Active, Receives
  <2> QED
      BY <2>2, <2>3
<1>8. CASE Join(p)
  <2>1. /\ main[p] = "join" /\ thread[p] = "finished" /\ toSend' = toSend
        /\ main'[p] = "start" /\ thread'[p] = "none" /\ buf'[p] = <<>>
      BY <1>8, JoinAt, ReturnAt
  <2> QED
      BY <1>1, <2>1 DEF Control
<1> QED
    BY <1>2, <1>3, <1>4, <1>5, <1>6, <1>7, <1>8 DEF Operation

\* Sender and receiver agree on which rounds have a message.
LEMMA Sides ==
    \A p \in Role : /\ Receives(p) <=> SendsIn(Peer(p), round[p])
                    /\ Sends(p) <=> SendsIn(p, round[p])
BY DEF Role, Peer, SERVER, CLIENT, Receives, Sends, SendsIn

\* A Receive of p takes from the line of its peer.
LEMMA CopyInLine ==
    ASSUME Types, NEW p \in Role, Control(p), InLine(Peer(p)), CopyIn(p)
    PROVE  LET q == Peer(p) IN
           \E n \in 1 .. Len(chan[q]) :
              /\ n <= RecvLen(p) - Len(buf[p]) /\ Active(p) /\ SendsIn(q, round[p])
              /\ buf'[p] = buf[p] \o SubSeq(chan[q], 1, n)
              /\ chan'[q] = SubSeq(chan[q], n + 1, Len(chan[q])) /\ chan'[p] = chan[p]
              /\ \A i \in 1 .. n : chan[q][i] = <<round[p], Len(buf[p]) + i>>
              /\ Line(chan'[q] \o toSend[q], q, size[q], round[p], Len(buf[p]) + n, Begun(q))
<1> DEFINE q == Peer(p)
           S == chan[q] \o toSend[q]
<1>1. q \in Role /\ Peer(q) = p
    BY Peers
<1>2. PICK n \in 1 .. Len(chan[q]) :
          /\ main[p] = "recv" /\ n <= RecvLen(p) - Len(buf[p])
          /\ buf'[p] = buf[p] \o SubSeq(chan[q], 1, n)
          /\ chan'[q] = SubSeq(chan[q], n + 1, Len(chan[q])) /\ chan'[p] = chan[p]
    BY CopyInAt
<1>3. Active(p) /\ SendsIn(q, round[p])
    BY <1>2, Sides DEF Control
<1>4. /\ Line(S, q, size[q], round[p], Len(buf[p]), Begun(q))
      /\ RecvLen(p) = size[q][round[p]]
    BY <1>1, <1>2, <1>3, AsksForAll DEF InLine, Way, Control
<1> DEFINE T == SubSeq(chan[q], n + 1, Len(chan[q])) \o toSend[q]
           r == round[p]
           sz == size[q]
           b == Begun(q)
           m == Len(buf[p])
<1>5. chan[q] \in Seq(Chunk) /\ toSend[q] \in Seq(Chunk) /\ buf[p] \in Seq(Chunk)
    BY <1>1 DEF Types
<1>6. /\ S \in Seq(Chunk) /\ T \in Seq(Chunk)
      /\ n \in 1 .. Len(S) /\ Len(T) = Len(S) - n
      /\ \A i \in 1 .. n : S[i] = chan[q][i]
      /\ \A i \in 1 .. Len(T) : T[i] = S[i + n]
    BY <1>5, TakeFront
<1>7. sz \in [Rounds -> Nat] /\ r \in Rounds /\ m \in Nat /\ n <= sz[r] - m
  <2>1. size \in Sizes
      BY DEF Types
  <2>2. sz \in [Rounds -> Nat]
      BY <1>1, <2>1, SizesNat
  <2>3. r \in Rounds
      BY <1>3, SizesHere
  <2>4. m \in Nat
      BY <1>5
  <2> QED
      BY <1>2, <1>4, <2>2, <2>3, <2>4
<1>8. b \in Nat
  <2>1. round[q] \in Nat /\ round[q] >= 1
      BY <1>1, RoundsAre DEF Types
  <2> QED
      BY <2>1 DEF Begun
<1>9. Line(S, q, sz, r, m, b) /\ SendsIn(q, r)
    BY <1>3, <1>4
<1>10. chan'[q] \o toSend[q] = T
    BY <1>2
<1> HIDE DEF q, S, T, r, sz, b, m
<1>11. \A i \in 1 .. n : S[i] = <<r, m + i>>
    BY <1>6, <1>7, <1>8, <1>9, LineTaken
<1>12. Line(T, q, sz, r, m + n, b)
    BY <1>6, <1>7, <1>8, <1>9, LineTake
<1> QED
    BY <1>2, <1>3, <1>6, <1>10, <1>11, <1>12 DEF q, r, sz, b, m

LEMMA BufferStep ==
    ASSUME Types, NEW p \in Role, Control(p), Buffer(p), Buffer(Peer(p)), InLine(Peer(p)),
           Operation(p)
    PROVE  Buffer(p)' /\ Buffer(Peer(p))'
<1> DEFINE q == Peer(p)
<1>1. Buffer(q)'
    BY PeerFrame DEF Buffer, Active, Receives, RecvLen
<1>2. ASSUME round'[p] = round[p], buf'[p] = buf[p],
             Active(p) /\ Receives(p) => Len(buf[p]) <= RecvLen(p),
             main'[p] = "join" /\ Receives(p) => Len(buf[p]) = RecvLen(p)
      PROVE  Buffer(p)'
    BY <1>2, PeerFrame DEF Buffer, Active, Receives, RecvLen
<1>3. ASSUME Return(p) PROVE Buffer(p)'
  <2>1. main'[p] = "start" /\ buf'[p] = <<>>
      BY <1>3, ReturnAt
  <2>2. Len(buf'[p]) = 0 /\ size' = size /\ size \in Sizes
      BY <2>1, PeerFrame DEF Types
  <2>3. Active(p)' => Len(buf'[p]) <= RecvLen(p)'
      BY <2>2, RcvBytesNat DEF Active, RecvLen
  <2> QED
      BY <2>1, <2>2, <2>3 DEF Buffer
<1>4. CASE Begin(p)
    BY <1>1, <1>2, <1>4, BeginAt DEF Buffer
<1>5. CASE ThreadStart(p)
    BY <1>1, <1>2, <1>5, ThreadStartAt DEF Buffer
<1>6. CASE CopyOut(p)
  <2>1. round'[p] = round[p] /\ main'[p] = main[p] /\ buf'[p] = buf[p]
      BY <1>6, CopyOutAt
  <2> QED
      BY <1>1, <1>2, <2>1 DEF Buffer
<1>7. CASE SendReturns(p)
    BY <1>1, <1>2, <1>7, SendReturnsAt DEF Buffer
<1>8. CASE CopyIn(p)
  <2>1. PICK n \in 1 .. Len(chan[q]) :
            /\ n <= RecvLen(p) - Len(buf[p])
            /\ buf'[p] = buf[p] \o SubSeq(chan[q], 1, n)
            /\ \A i \in 1 .. n : chan[q][i] = <<round[p], Len(buf[p]) + i>>
      BY <1>8, CopyInLine
  <2>2. main[p] = "recv" /\ main' = main /\ round'[p] = round[p]
      BY <1>8, CopyInAt
  <2> DEFINE s == SubSeq(chan[q], 1, n)
             r == round[p]
             m == Len(buf[p])
             a == buf[p]
  <2>3. chan[q] \in Seq(Chunk) /\ a \in Seq(Chunk) /\ m \in Nat /\ n \in Nat
      BY Peers DEF Types
  <2>4. s \in Seq(Chunk) /\ Len(s) = n /\ \A i \in 1 .. n : s[i] = <<r, m + i>>
      BY <2>1, <2>3, Cut
  <2>5. \A k \in 1 .. m : a[k] = <<r, k>>
      BY DEF Buffer
  <2> HIDE DEF s, r, a, m
  <2>6. /\ Len(a \o s) = m + n
        /\ \A k \in 1 .. m + n : (a \o s)[k] = IF k <= m THEN a[k] ELSE s[k - m]
    <3>1. Len(a) = m
        BY DEF a, m
    <3> QED
        BY <2>3, <2>4, <3>1, ConcatProperties
  <2>7. ASSUME NEW k \in 1 .. m + n PROVE (a \o s)[k] = <<r, k>>
    <3>1. CASE k <= m
        BY <2>3, <2>5, <2>6, <3>1
    <3>2. CASE k > m
      <4>1. k - m \in 1 .. n /\ m + (k - m) = k /\ ~(k <= m)
          BY <2>3, <3>2
      <4> QED
          BY <2>4, <2>6, <4>1
    <3>3. m \in Nat /\ n \in Nat
        BY <2>3
    <3>4. k <= m \/ k > m
        BY <3>3
    <3> QED
        BY <3>1, <3>2, <3>4
  <2>8. \A k \in 1 .. Len(buf'[p]) : buf'[p][k] = <<round'[p], k>>
      BY <2>1, <2>2, <2>6, <2>7 DEF s, r, a
  <2>9. Active(p)' /\ Receives(p)' => Len(buf'[p]) <= RecvLen(p)'
    <3>1. size' = size /\ RecvLen(p)' = RecvLen(p)
        BY <2>2, PeerFrame DEF RecvLen
    <3>2. Len(buf'[p]) = m + n /\ n <= RecvLen(p) - m
        BY <2>1, <2>6 DEF s, a, m
    <3>3. RecvLen(p) \in Nat
        BY <2>2, SizesHere DEF Control
    <3> QED
        BY <2>3, <3>1, <3>2, <3>3
  <2> QED
      BY <1>1, <2>2, <2>8, <2>9 DEF Buffer
<1>9. CASE ReceiveReturns(p)
    BY <1>1, <1>2, <1>3, <1>9, ReceiveReturnsAt
<1>10. CASE Join(p)
    BY <1>1, <1>3, <1>10, JoinAt
<1> QED
    BY <1>4, <1>5, <1>6, <1>7, <1>8, <1>9, <1>10 DEF Operation

LEMMA UncountedNat ==
    ASSUME Types, NEW p \in Role, Control(p)
    PROVE  Uncounted(p) \in Nat
<1>1. CASE thread[p] = "created"
  <2>1. Active(p)
      BY <1>1 DEF Control, Types
  <2> QED
      BY <2>1, SizesHere DEF Uncounted
<1>2. CASE thread[p] # "created"
    BY <1>2 DEF Uncounted
<1> QED
    BY <1>1, <1>2

LEMMA CountedStep ==
    ASSUME Types, NEW p \in Role, Control(p), Control(p)', Counted(p), Counted(Peer(p)), Operation(p)
    PROVE  Counted(p)' /\ Counted(Peer(p))'
<1> DEFINE q == Peer(p)
<1>1. q \in Role /\ Peer(q) = p
    BY Peers
<1>2. /\ chan[p] \in Seq(Chunk) /\ chan[q] \in Seq(Chunk) /\ toSend[p] \in Seq(Chunk)
      /\ buf[p] \in Seq(Chunk)
      /\ bytes_sent[p] \in Nat /\ bytes_received[q] \in Nat /\ bytes_received[p] \in Nat
    BY <1>1 DEF Types
<1> DEFINE c == Len(chan[p])
           d == Len(chan[q])
           t == Len(toSend[p])
           l == Len(buf[p])
<1>3. c \in Nat /\ d \in Nat /\ t \in Nat /\ l \in Nat /\ Len(toSend[q]) \in Nat
    BY <1>1, <1>2 DEF Types
<1>4. /\ main'[q] = main[q] /\ buf'[q] = buf[q] /\ toSend'[q] = toSend[q] /\ thread'[q] = thread[q]
      /\ round'[q] = round[q] /\ size' = size
      /\ bytes_sent'[q] = bytes_sent[q] /\ bytes_received'[q] = bytes_received[q]
    BY PeerFrame
\* What the peer has taken and not yet counted as sent is untouched.
<1>5. Taken(q)' = Taken(q) /\ Uncounted(q)' = Uncounted(q)
    BY <1>4 DEF Taken, Uncounted
<1>6. /\ bytes_sent[p] + Uncounted(p) = bytes_received[q] + c + t + Taken(q)
      /\ bytes_sent[q] + Uncounted(q) = bytes_received[p] + d + Len(toSend[q]) + Taken(p)
    BY <1>1 DEF Counted
<1>7. Taken(q) \in Nat /\ Taken(p) \in Nat /\ Uncounted(p) \in Nat
  <2>1. Taken(q) \in Nat /\ Taken(p) \in Nat
      BY <1>1 DEF Taken, Types
  <2>2. Uncounted(p) \in Nat
      BY UncountedNat
  <2> QED
      BY <2>1, <2>2
\* The two sums after the operation, from how its terms change.
<1>8. ASSUME bytes_sent'[p] + Uncounted(p)' + (c + t) =
                 bytes_sent[p] + Uncounted(p) + (Len(chan'[p]) + Len(toSend'[p]))
      PROVE  Counted(p)'
  <2> DEFINE e == Len(chan'[p])
             f == Len(toSend'[p])
             a == bytes_sent'[p] + Uncounted(p)'
             h == bytes_received[q]
             k == Taken(q)
  <2>1. e \in Int /\ f \in Int /\ a \in Int /\ h \in Int /\ k \in Int /\ c \in Int /\ t \in Int
    <3>1. Len(chan'[p]) \in Int /\ Len(toSend'[p]) \in Int /\ bytes_sent'[p] \in Int
        BY TypesStep DEF Types
    <3>2. Uncounted(p)' \in Int
      <4>1. Types' /\ size'[p] \in [Rounds -> Nat]
          BY TypesStep, SizesNat DEF Types
      <4>2. thread'[p] = "created" => round'[p] \in Rounds
          BY <4>1 DEF Control, Types, Active
      <4> QED
          BY <4>1, <4>2 DEF Uncounted
    <3>3. bytes_sent'[p] + Uncounted(p)' \in Int
        BY <3>1, <3>2
    <3>4. Taken(q) \in Int
        BY <1>7
    <3> QED
        BY <1>2, <1>3, <3>1, <3>3, <3>4
  <2>2. a + (c + t) = (h + c + t + k) + (e + f)
      BY <1>6, <1>8
  <2>3. Counted(p)' <=> a = h + e + f + k
      BY <1>4, <1>5 DEF Counted
  <2> HIDE DEF a, h, k, e, f, c, t
  <2>4. a = h + e + f + k
      BY <2>1, <2>2
  <2> QED
      BY <2>3, <2>4
<1>9. ASSUME bytes_received'[p] + Len(chan'[q]) + Taken(p)' = bytes_received[p] + d + Taken(p)
      PROVE  Counted(q)'
  <2> DEFINE e == Len(chan'[q])
             g == Len(toSend[q])
             a == bytes_sent[q] + Uncounted(q)
             h == bytes_received[p]
             i == bytes_received'[p]
             k == Taken(p)
             m == Taken(p)'
  <2>1. /\ e \in Int /\ g \in Int /\ h \in Int /\ i \in Int /\ k \in Int /\ m \in Int /\ d \in Int
    <3>1. Len(chan'[q]) \in Int /\ bytes_received'[p] \in Int /\ Len(buf'[p]) \in Int
        BY SMTT(40), <1>1, TypesStep DEF Types
    <3>2. Taken(p)' \in Int
        BY <3>1 DEF Taken
    <3> QED
        BY <1>2, <1>3, <1>7, <3>1, <3>2
  <2>2. i + e + m = h + d + k /\ a = h + d + g + k
      BY <1>6, <1>9
  <2>3. Counted(q)' <=> a = i + e + g + m
    <3>1. Peer(q) = p
        BY <1>1
    <3> QED
        BY <1>4, <1>5, <3>1 DEF Counted
  <2> HIDE DEF a, h, i, k, m, e, g, d
  <2>4. a = i + e + g + m
      BY <2>1, <2>2
  <2> QED
      BY <2>3, <2>4
<1>10. CASE Begin(p)
  <2>1. /\ main[p] = "start" /\ thread[p] = "none" /\ buf[p] = <<>> /\ toSend[p] = <<>>
        /\ chan' = chan /\ bytes_received' = bytes_received /\ round'[p] = round[p]
        /\ buf'[p] = <<>>
      BY <1>10, BeginAt DEF Control
  <2>2. Taken(p)' = 0 /\ Taken(p) = 0 /\ Uncounted(p) = 0 /\ t = 0
      BY <2>1 DEF Taken, Uncounted
  <2> DEFINE x == size[p][round[p]]
  <2>3. x \in Nat
      BY <1>10, BeginAt, SizesHere
  <2>4. CASE ~Sends(p)
    <3>1. toSend'[p] = toSend[p] /\ bytes_sent'[p] = bytes_sent[p] /\ Uncounted(p)' = 0
        BY <1>10, <2>1, <2>4, BeginAt DEF Uncounted
    <3>2. Counted(p)'
      <4>1. bytes_sent'[p] + Uncounted(p)' = bytes_sent[p] + Uncounted(p)
          BY <1>2, <2>2, <3>1
      <4>2. Len(chan'[p]) + Len(toSend'[p]) = c + t
          BY <1>3, <2>1, <3>1
      <4> QED
          BY <4>1, <4>2, <1>8
    <3> QED
        BY <1>9, <2>1, <2>2, <3>2
  <2>5. CASE Sends(p)
    <3>1. Len(toSend'[p]) = x
        BY SMTT(40), <1>10, <2>5, BeginAt, MessageChunks, SizesHere DEF Types
    <3>2. bytes_sent'[p] + Uncounted(p)' = bytes_sent[p] + x
      <4>1. CASE Kind[round[p]] = "inline"
        <5>1. bytes_sent'[p] = bytes_sent[p] + x /\ Uncounted(p)' = 0
            BY <1>10, <2>1, <2>5, <4>1, BeginAt DEF Uncounted
        <5> QED
            BY <1>2, <2>3, <5>1
      <4>2. CASE Kind[round[p]] # "inline"
        <5>1. bytes_sent'[p] = bytes_sent[p] /\ thread'[p] = "created"
            BY <1>10, <2>5, <4>2, BeginAt
        <5> QED
            BY <1>4, <2>1, <5>1 DEF Uncounted
      <4> QED
          BY <4>1, <4>2
    <3>3. Counted(p)'
      <4>1. bytes_sent'[p] + Uncounted(p)' = bytes_sent[p] + Uncounted(p) + x
          BY <1>2, <2>2, <3>2
      <4>2. Len(chan'[p]) + Len(toSend'[p]) = c + t + x
          BY <1>3, <2>1, <2>2, <2>3, <3>1
      <4> DEFINE a == bytes_sent[p] + Uncounted(p)
                 b == c + t
      <4>3. a \in Int /\ b \in Int /\ x \in Int
          BY <1>2, <1>3, <1>7, <2>3
      <4> HIDE DEF a, b, x
      <4>4. (a + x) + b = a + (b + x)
          BY <4>3
      <4> QED
          BY <4>1, <4>2, <4>4, <1>8 DEF a, b
    <3> QED
        BY <1>9, <2>1, <2>2, <3>3
  <2> QED
      BY <2>4, <2>5
<1>11. CASE ThreadStart(p)
  <2>1. /\ thread[p] = "created" /\ thread'[p] = "running"
        /\ main'[p] = main[p] /\ buf'[p] = buf[p] /\ toSend'[p] = toSend[p] /\ chan' = chan
        /\ bytes_sent'[p] = bytes_sent[p] + size[p][round[p]]
        /\ bytes_received' = bytes_received
      BY <1>11, ThreadStartAt
  <2>2. Uncounted(p) = size[p][round[p]] /\ Uncounted(p)' = 0 /\ Taken(p)' = Taken(p)
      BY <2>1 DEF Uncounted, Taken
  <2>3. bytes_sent'[p] + Uncounted(p)' = bytes_sent[p] + Uncounted(p)
      BY <1>2, <1>7, <2>1, <2>2
  <2>4. Len(chan'[p]) + Len(toSend'[p]) = c + t
      BY <1>3, <2>1
  <2> QED
      BY <1>8, <1>9, <2>1, <2>2, <2>3, <2>4
<1>12. CASE CopyOut(p)
  <2>1. PICK n \in 1 .. Len(toSend[p]) :
            /\ chan'[p] = chan[p] \o SubSeq(toSend[p], 1, n)
            /\ toSend'[p] = SubSeq(toSend[p], n + 1, Len(toSend[p]))
            /\ chan'[q] = chan[q]
            /\ round'[p] = round[p] /\ main'[p] = main[p] /\ buf'[p] = buf[p]
            /\ thread'[p] = thread[p] /\ bytes_sent' = bytes_sent
            /\ bytes_received' = bytes_received
      BY <1>12, CopyOutAt
  <2> DEFINE s == SubSeq(toSend[p], 1, n)
  <2>2. s \in Seq(Chunk) /\ Len(s) = n /\ Len(toSend'[p]) = t - n
      BY <1>2, <2>1, Cut
  <2>3. chan'[p] = chan[p] \o s
      BY <2>1
  <2> HIDE DEF s
  <2>4. Len(chan'[p]) = c + n
      BY <1>2, <2>2, <2>3, ConcatProperties
  <2>5. Uncounted(p)' = Uncounted(p) /\ Taken(p)' = Taken(p)
      BY <1>4, <2>1 DEF Uncounted, Taken
  <2>6. bytes_sent'[p] + Uncounted(p)' = bytes_sent[p] + Uncounted(p)
      BY <1>2, <1>7, <2>1, <2>5
  <2>7. Len(chan'[p]) + Len(toSend'[p]) = c + t
    <3>1. n \in Int
        BY <1>3
    <3>2. Len(toSend'[p]) = t - n /\ Len(chan'[p]) = c + n
        BY <2>2, <2>4
    <3> HIDE DEF c, t
    <3> QED
        BY <1>3, <3>1, <3>2
  <2> QED
      BY <1>8, <1>9, <2>1, <2>5, <2>6, <2>7
<1>13. CASE SendReturns(p)
  <2>1. /\ toSend'[p] = toSend[p] /\ round'[p] = round[p] /\ buf'[p] = buf[p] /\ chan' = chan
        /\ bytes_sent' = bytes_sent /\ bytes_received' = bytes_received
        /\ main[p] = "send" => main'[p] = "recv" /\ thread'[p] = thread[p] /\ buf[p] = <<>>
        /\ main[p] # "send" => /\ thread[p] = "running" /\ thread'[p] = "finished"
                               /\ main'[p] = main[p]
      BY <1>13, SendReturnsAt DEF Control
  <2>2. Uncounted(p)' = Uncounted(p)
      BY <1>4, <2>1 DEF Uncounted
  <2>3. Taken(p)' = Taken(p)
      BY <2>1 DEF Taken
  <2>4. bytes_sent'[p] + Uncounted(p)' = bytes_sent[p] + Uncounted(p)
      BY <1>2, <1>7, <2>1, <2>2
  <2>5. Len(chan'[p]) + Len(toSend'[p]) = c + t
      BY <1>3, <2>1
  <2> QED
      BY <1>8, <1>9, <2>1, <2>3, <2>4, <2>5
<1>14. CASE CopyIn(p)
  <2>1. PICK n \in 1 .. Len(chan[q]) :
            /\ main[p] = "recv"
            /\ buf'[p] = buf[p] \o SubSeq(chan[q], 1, n)
            /\ chan'[q] = SubSeq(chan[q], n + 1, Len(chan[q]))
            /\ chan'[p] = chan[p] /\ toSend' = toSend
            /\ round'[p] = round[p] /\ main' = main /\ thread'[p] = thread[p]
            /\ bytes_sent' = bytes_sent /\ bytes_received' = bytes_received
      BY <1>14, CopyInAt
  <2> DEFINE s == SubSeq(chan[q], 1, n)
  <2>2. s \in Seq(Chunk) /\ Len(s) = n /\ Len(chan'[q]) = d - n
      BY <1>2, <2>1, Cut
  <2>3. buf'[p] = buf[p] \o s
      BY <2>1
  <2> HIDE DEF s
  <2>4. Len(buf'[p]) = l + n
      BY <1>2, <2>2, <2>3, ConcatProperties
  <2>5. Uncounted(p)' = Uncounted(p) /\ Taken(p)' = l + n /\ Taken(p) = l
      BY <1>4, <2>1, <2>4 DEF Uncounted, Taken
  <2>6. bytes_sent'[p] + Uncounted(p)' = bytes_sent[p] + Uncounted(p)
      BY <1>2, <1>7, <2>1, <2>5
  <2>7. Len(chan'[p]) + Len(toSend'[p]) = c + t
      BY <1>3, <2>1
  <2>8. bytes_received'[p] + Len(chan'[q]) + Taken(p)' = bytes_received[p] + d + Taken(p)
    <3>1. n \in Int
        BY <1>3
    <3>2. /\ Len(chan'[q]) = d - n /\ Taken(p)' = l + n /\ Taken(p) = l
          /\ bytes_received'[p] = bytes_received[p]
        BY <2>1, <2>2, <2>5
    <3> DEFINE h == bytes_received[p]
    <3>3. h \in Int /\ d \in Int /\ l \in Int
        BY <1>2, <1>3
    <3> HIDE DEF d, l, h
    <3>4. h + (d - n) + (l + n) = h + d + l
        BY <3>1, <3>3
    <3> QED
        BY <3>2, <3>4 DEF h
  <2> QED
      BY <1>8, <1>9, <2>6, <2>7, <2>8
<1>15. CASE ReceiveReturns(p)
  <2>1. /\ main[p] = "recv" /\ l = RecvLen(p) /\ main'[p] # "recv"
        /\ bytes_received'[p] = bytes_received[p] + l
        /\ toSend' = toSend /\ chan' = chan /\ bytes_sent' = bytes_sent
        /\ thread'[p] = thread[p]
        /\ thread[p] # "none" => round'[p] = round[p]
      BY <1>15, ReceiveReturnsAt, ReturnAt
  <2>2. Uncounted(p)' = Uncounted(p)
      BY <1>4, <2>1 DEF Uncounted
  <2>3. Taken(p) = l /\ Taken(p)' = 0
      BY <2>1 DEF Taken
  <2>4. bytes_sent'[p] + Uncounted(p)' = bytes_sent[p] + Uncounted(p)
      BY <1>2, <1>7, <2>1, <2>2
  <2>5. Len(chan'[p]) + Len(toSend'[p]) = c + t
      BY <1>3, <2>1
  <2>6. bytes_received'[p] + Len(chan'[q]) + Taken(p)' = bytes_received[p] + d + Taken(p)
    <3>1. Len(chan'[q]) = d /\ bytes_received'[p] = bytes_received[p] + l
        BY <2>1
    <3> HIDE DEF d, l
    <3> QED
        BY <1>2, <1>3, <2>3, <3>1
  <2> QED
      BY <1>8, <1>9, <2>4, <2>5, <2>6
<1>16. CASE Join(p)
  <2>1. /\ main[p] = "join" /\ thread[p] = "finished" /\ main'[p] = "start" /\ thread'[p] = "none"
        /\ toSend' = toSend /\ chan' = chan
        /\ bytes_sent' = bytes_sent /\ bytes_received' = bytes_received
      BY <1>16, JoinAt, ReturnAt
  <2>2. Uncounted(p)' = Uncounted(p) /\ Taken(p)' = Taken(p)
      BY <2>1 DEF Uncounted, Taken
  <2>3. bytes_sent'[p] + Uncounted(p)' = bytes_sent[p] + Uncounted(p)
      BY <1>2, <1>7, <2>1, <2>2
  <2>4. Len(chan'[p]) + Len(toSend'[p]) = c + t
      BY <1>3, <2>1
  <2> QED
      BY <1>8, <1>9, <2>1, <2>2, <2>3, <2>4
<1> QED
    BY <1>10, <1>11, <1>12, <1>13, <1>14, <1>15, <1>16 DEF Operation

LEMMA InLineStep ==
    ASSUME Types, NEW p \in Role, Control(p), Control(Peer(p)), Buffer(p),
           InLine(p), InLine(Peer(p)), Operation(p)
    PROVE  InLine(p)' /\ InLine(Peer(p))'
<1> DEFINE q == Peer(p)
<1>1. q \in Role /\ Peer(q) = p
    BY Peers
<1>2. /\ size' = size /\ round'[q] = round[q] /\ main'[q] = main[q]
      /\ toSend'[q] = toSend[q] /\ buf'[q] = buf[q] /\ Begun(q)' = Begun(q)
    BY PeerFrame DEF Begun
<1>3. /\ chan[p] \in Seq(Chunk) /\ chan[q] \in Seq(Chunk) /\ toSend[p] \in Seq(Chunk)
      /\ toSend[q] \in Seq(Chunk) /\ buf[p] \in Seq(Chunk) /\ buf[q] \in Seq(Chunk)
      /\ size[p] \in [Rounds -> Nat] /\ size[q] \in [Rounds -> Nat]
    BY <1>1, SizesNat DEF Types
<1>4. /\ Line(Way(p), p, size[p], round[q], Len(buf[q]), Begun(p))
      /\ Line(Way(q), q, size[q], round[p], Len(buf[p]), Begun(q))
    BY <1>1 DEF InLine
\* The line of p is as before, seen from both ends.
<1>5. ASSUME Way(p)' = Way(p), Begun(p)' = Begun(p) PROVE InLine(p)'
    BY <1>2, <1>4, <1>5 DEF InLine
<1>6. ASSUME Way(q)' = Way(q), round'[p] = round[p], buf'[p] = buf[p] PROVE InLine(q)'
    BY <1>1, <1>2, <1>4, <1>6 DEF InLine
<1>7. chan'[q] = chan[q] => Way(q)' = Way(q)
    BY <1>2 DEF Way
<1>8. round[p] \in Nat /\ round[q] \in Nat \ {0} /\ round[p] >= 1 /\ round[q] >= 1
    BY <1>1, RoundsAre DEF Types
\* p leaves its round with all of the peer's message.
<1>9. ASSUME Return(p), Active(p), main[p] # "start", toSend' = toSend, chan' = chan,
             Receives(p) => Len(buf[p]) = RecvLen(p)
      PROVE  InLine(p)' /\ InLine(q)'
  <2>1. round'[p] = round[p] + 1 /\ main'[p] = "start" /\ buf'[p] = <<>>
      BY <1>9, ReturnAt
  <2>2. Begun(p)' = Begun(p)
      BY <1>8, <1>9, <2>1 DEF Begun
  <2>3. Way(p)' = Way(p) /\ Way(q)' = Way(q)
      BY <1>9 DEF Way
  <2>4. SendsIn(q, round[p]) => Len(buf[p]) = size[q][round[p]]
      BY <1>9, Sides, AsksForAll
  <2>5. round[p] \in Rounds /\ Len(buf[p]) \in Nat /\ Way(q) \in Seq(Chunk)
      BY <1>3, <1>9, SizesHere, ConcatProperties DEF Way
  <2>6. Begun(q) \in 0 .. Len(Kind)
    <3>1. round[q] \in 1 .. Len(Kind) + 1
        BY <1>1 DEF Types
    <3>2. main[q] # "start" => round[q] \in 1 .. Len(Kind)
        BY RoundsAre DEF Control, Active
    <3> QED
        BY <3>1, <3>2, RoundsAre DEF Begun
  <2> DEFINE S == Way(q)
             sz == size[q]
             r == round[p]
             n == Len(buf[p])
             b == Begun(q)
  <2>7. /\ S \in Seq(Chunk) /\ sz \in [Rounds -> Nat] /\ r \in Rounds /\ n \in Nat
        /\ b \in 0 .. Len(Kind) /\ Line(S, q, sz, r, n, b)
        /\ SendsIn(q, r) => n = sz[r]
      BY <1>3, <1>4, <2>4, <2>5, <2>6
  <2> HIDE DEF S, sz, r, n, b, q
  <2>8. Line(S, q, sz, r + 1, 0, b)
      BY <2>7, LineNextRound
  <2>9. Line(Way(q), q, size[q], round[p] + 1, 0, Begun(q))
      BY <2>8 DEF S, sz, r, b
  <2>10. InLine(q)'
    <3>1. Len(buf'[p]) = 0
        BY <2>1
    <3> QED
        BY <1>1, <1>2, <2>1, <2>3, <2>9, <3>1 DEF InLine
  <2> QED
      BY <1>5, <2>2, <2>3, <2>10 DEF q
<1>10. CASE Begin(p)
  <2>1. /\ main[p] = "start" /\ main'[p] # "start" /\ round'[p] = round[p] /\ buf'[p] = buf[p]
        /\ chan' = chan /\ toSend[p] = <<>> /\ Active(p)
        /\ Sends(p) => toSend'[p] = Message(p, round[p])
        /\ ~Sends(p) => toSend'[p] = toSend[p]
      BY <1>10, BeginAt DEF Control
  <2>2. InLine(q)'
      BY <1>6, <1>7, <2>1
  <2> DEFINE b == Begun(p)
             m == Message(p, round[p])
             S == Way(p)
             sz == size[p]
             r == round[q]
             n == Len(buf[q])
  <2>3. b \in Nat /\ b + 1 = round[p] /\ Begun(p)' = b + 1
      BY <1>8, <2>1 DEF Begun
  <2>4. S = chan[p] /\ S \in Seq(Chunk) /\ n \in Nat /\ r \in Nat \ {0} /\ sz \in [Rounds -> Nat]
      BY <1>3, <1>8, <2>1, ConcatEmptySeq DEF Way
  <2>5. Line(S, p, sz, r, n, b)
      BY <1>4
  <2>6. CASE ~Sends(p)
    <3>1. Way(p)' = S
        BY <2>1, <2>6 DEF Way
    <3>2. ~SendsIn(p, b + 1)
        BY <2>3, <2>6, Sides
    <3> HIDE DEF S, sz, r, n, b
    <3>3. Line(S, p, sz, r, n, b + 1)
        BY <2>3, <2>4, <2>5, <3>2, LineBeginSilent
    <3>4. InLine(p)'
        BY <1>2, <2>3, <3>1, <3>3 DEF InLine, sz, r, n
    <3> QED
        BY <2>2, <3>4
  <2>7. CASE Sends(p)
    <3>1. Way(p)' = S \o m
        BY <2>1, <2>4, <2>7 DEF Way
    <3>2. SendsIn(p, b + 1) /\ b + 1 \in Rounds
        BY <2>1, <2>3, <2>7, Sides, SizesHere
    <3>3. m \in Seq(Chunk) /\ Len(m) = sz[b + 1] /\ \A k \in 1 .. sz[b + 1] : m[k] = <<b + 1, k>>
        BY SMTT(40), <2>1, <2>3, SizesHere, MessageChunks DEF Types
    <3> DEFINE T == S \o m
    <3> HIDE DEF S, m, sz, r, n, b
    <3>4. Len(S) \in Nat /\ Len(m) \in Nat
        BY <2>4, <3>3
    <3>5. /\ T \in Seq(Chunk) /\ Len(T) = Len(S) + sz[b + 1]
          /\ \A i \in 1 .. Len(S) + Len(m) : T[i] = IF i <= Len(S) THEN S[i] ELSE m[i - Len(S)]
      <4>1. S \in Seq(Chunk) /\ m \in Seq(Chunk) /\ Len(m) = sz[b + 1]
          BY <2>4, <3>3
      <4> QED
          BY ONLY <4>1, ConcatProperties
    <3> HIDE DEF T
    <3>6. \A i \in 1 .. Len(S) : T[i] = S[i]
        BY <3>4, <3>5
    <3>7. ASSUME NEW k \in 1 .. sz[b + 1] PROVE T[Len(S) + k] = <<b + 1, k>>
      <4>1. /\ k \in 1 .. Len(m) /\ Len(S) + k \in 1 .. Len(S) + Len(m)
            /\ ~(Len(S) + k <= Len(S)) /\ (Len(S) + k) - Len(S) = k
          BY <3>3, <3>4
      <4> QED
          BY <3>3, <3>5, <4>1
    <3>8. Line(T, p, sz, r, n, b + 1)
        BY <2>3, <2>4, <2>5, <3>2, <3>5, <3>6, <3>7, LineBegin
    <3>9. InLine(p)'
        BY <1>2, <2>3, <3>1, <3>8 DEF InLine, sz, r, n, T
    <3> QED
        BY <2>2, <3>9
  <2> QED
      BY <2>6, <2>7
<1>11. CASE ThreadStart(p)
    BY <1>5, <1>6, <1>7, <1>11, ThreadStartAt DEF Way, Begun
<1>12. CASE CopyOut(p)
  <2>1. PICK n \in 1 .. Len(toSend[p]) :
            /\ chan'[p] = chan[p] \o SubSeq(toSend[p], 1, n)
            /\ toSend'[p] = SubSeq(toSend[p], n + 1, Len(toSend[p]))
            /\ chan'[q] = chan[q]
            /\ round'[p] = round[p] /\ main'[p] = main[p] /\ buf'[p] = buf[p]
      BY <1>12, CopyOutAt
  <2>2. Way(p)' = Way(p)
    <3>1. Way(p)' = (chan[p] \o SubSeq(toSend[p], 1, n)) \o SubSeq(toSend[p], n + 1, Len(toSend[p]))
        BY <2>1 DEF Way
    <3> QED
        BY <1>3, <3>1, Move DEF Way
  <2>3. Begun(p)' = Begun(p)
      BY <2>1 DEF Begun
  <2> QED
      BY <1>5, <1>6, <1>7, <2>1, <2>2, <2>3
<1>13. CASE SendReturns(p)
  <2>1. /\ toSend'[p] = toSend[p] /\ chan' = chan /\ round'[p] = round[p] /\ buf'[p] = buf[p]
        /\ main[p] = "send" => main'[p] = "recv"
        /\ main[p] # "send" => main'[p] = main[p]
      BY <1>13, SendReturnsAt
  <2>2. Way(p)' = Way(p) /\ Begun(p)' = Begun(p)
      BY <2>1 DEF Way, Begun
  <2> QED
      BY <1>5, <1>6, <1>7, <2>1, <2>2
<1>14. CASE CopyIn(p)
  <2>1. PICK n \in 1 .. Len(chan[q]) :
            /\ buf'[p] = buf[p] \o SubSeq(chan[q], 1, n)
            /\ chan'[q] = SubSeq(chan[q], n + 1, Len(chan[q])) /\ chan'[p] = chan[p]
            /\ Line(chan'[q] \o toSend[q], q, size[q], round[p], Len(buf[p]) + n, Begun(q))
      BY <1>14, CopyInLine
  <2>2. main' = main /\ round'[p] = round[p] /\ toSend' = toSend
      BY <1>14, CopyInAt
  <2>3. InLine(p)'
      BY <1>5, <2>1, <2>2 DEF Way, Begun
  <2>4. Len(buf'[p]) = Len(buf[p]) + n
    <3> DEFINE s == SubSeq(chan[q], 1, n)
    <3>1. s \in Seq(Chunk) /\ Len(s) = n /\ buf'[p] = buf[p] \o s
        BY <1>3, <2>1, Cut
    <3> HIDE DEF s
    <3> QED
        BY <1>3, <3>1, ConcatProperties
  <2>5. Way(q)' = chan'[q] \o toSend[q]
      BY <2>2 DEF Way
  <2>6. InLine(q)'
      BY <1>1, <1>2, <2>1, <2>2, <2>4, <2>5 DEF InLine
  <2> QED
      BY <2>3, <2>6
<1>15. CASE ReceiveReturns(p)
  <2>1. CASE thread[p] = "none"
    <3>1. /\ main[p] = "recv" /\ Len(buf[p]) = RecvLen(p) /\ toSend' = toSend /\ chan' = chan
          /\ Return(p)
        BY <1>15, <2>1, ReceiveReturnsAt
    <3> QED
        BY <1>9, <3>1 DEF Control
  <2>2. CASE thread[p] # "none"
    <3>1. /\ main[p] = "recv" /\ main'[p] = "join" /\ toSend' = toSend /\ chan' = chan
          /\ round'[p] = round[p] /\ buf'[p] = buf[p]
        BY <1>15, <2>2, ReceiveReturnsAt
    <3>2. Way(p)' = Way(p) /\ Begun(p)' = Begun(p)
        BY <3>1 DEF Way, Begun
    <3> QED
        BY <1>5, <1>6, <1>7, <3>1, <3>2
  <2> QED
      BY <2>1, <2>2
<1>16. CASE Join(p)
  <2>1. main[p] = "join" /\ Return(p) /\ toSend' = toSend /\ chan' = chan
      BY <1>16, JoinAt
  <2>2. Active(p) /\ (Receives(p) => Len(buf[p]) = RecvLen(p))
      BY <2>1 DEF Control, Buffer
  <2> QED
      BY <1>9, <2>1, <2>2
<1> QED
    BY <1>10, <1>11, <1>12, <1>13, <1>14, <1>15, <1>16 DEF Operation

-----------------------------------------------------------------------------
(* The theorems.                                                           *)

LEMMA XInvStep == XInv /\ [Next]_vars => XInv'
<1> SUFFICES ASSUME XInv, [Next]_vars PROVE XInv'
    OBVIOUS
<1>1. CASE UNCHANGED vars
    BY <1>1 DEF XInv, vars, Types, Control, Buffer, InLine, Way, Counted, Uncounted, Taken,
                Begun, Active, Receives, RecvLen
<1>2. ASSUME NEW p \in Role, Operation(p) PROVE XInv'
  <2> DEFINE q == Peer(p)
  <2>1. q \in Role /\ Peer(q) = p /\ \A x \in Role : x = p \/ x = q
      BY Peers
  <2>2. /\ Types
        /\ Control(p) /\ Buffer(p) /\ InLine(p) /\ Counted(p)
        /\ Control(q) /\ Buffer(q) /\ InLine(q) /\ Counted(q)
      BY <2>1 DEF XInv
  <2>3. Types'
      BY <1>2, <2>2, TypesStep
  <2>4. Control(p)' /\ Control(q)'
      BY <1>2, <2>2, ControlStep
  <2>5. Buffer(p)' /\ Buffer(q)'
      BY <1>2, <2>2, BufferStep
  <2>6. InLine(p)' /\ InLine(q)'
      BY <1>2, <2>2, InLineStep
  <2>7. Counted(p)' /\ Counted(q)'
      BY <1>2, <2>2, <2>4, CountedStep
  <2>8. ASSUME NEW x \in Role
        PROVE  (Control(x) /\ Buffer(x) /\ InLine(x) /\ Counted(x))'
    <3>1. CASE x = p
        BY <2>4, <2>5, <2>6, <2>7, <3>1
    <3>2. CASE x = q
        BY <2>4, <2>5, <2>6, <2>7, <3>2
    <3> QED
        BY <2>1, <3>1, <3>2
  <2> QED
      BY <2>3, <2>8 DEF XInv
<1> QED
    BY <1>1, <1>2, NextOperation

LEMMA XInvAlways == Spec => []XInv
<1>1. Init => XInv
    BY XInvInit
<1>2. XInv /\ [Next]_vars => XInv'
    BY XInvStep
<1> QED
    BY <1>1, <1>2, PTL DEF Spec

\* Every variable keeps its type, and no Receive writes behind the end of its
\* buffer, however many chunks of this and the next message are queued.
THEOREM ExchangeTypeOK == Spec => []TypeOK
<1>1. XInv => TypeOK
    BY DEF XInv, Types, Buffer, TypeOK
<1> QED
    BY <1>1, XInvAlways, PTL

\* Each Receive of snd_and_rcv and exchange_information returns the octets its
\* peer sent in the same round, in order, none missing and none of a later
\* round, however the kernel cuts them and however far the peer is ahead.
THEOREM AlwaysDelivered == Spec => []Delivered
<1>1. XInv => Delivered
  <2> SUFFICES ASSUME XInv, NEW p \in Role, Active(p)
               PROVE  /\ \A k \in DOMAIN buf[p] : buf[p][k] = <<round[p], k>>
                      /\ main[p] = "join" /\ Receives(p) => buf[p] = Message(Peer(p), round[p])
      BY DEF Delivered
  <2>1. buf[p] \in Seq(Chunk) /\ Types /\ Buffer(p) /\ DOMAIN buf[p] = 1 .. Len(buf[p])
      BY DEF XInv, Types
  <2>2. \A k \in DOMAIN buf[p] : buf[p][k] = <<round[p], k>>
      BY <2>1 DEF Buffer
  <2>3. ASSUME main[p] = "join", Receives(p) PROVE buf[p] = Message(Peer(p), round[p])
    <3> DEFINE m == Message(Peer(p), round[p])
    <3>1. Len(buf[p]) = size[Peer(p)][round[p]]
        BY <2>1, <2>3, AsksForAll DEF Buffer
    <3>2. /\ m \in Seq(Chunk) /\ Len(m) = size[Peer(p)][round[p]]
          /\ \A k \in 1 .. size[Peer(p)][round[p]] : m[k] = <<round[p], k>>
      <4>1. Peer(p) \in Role /\ round[p] \in Rounds /\ size \in Sizes
          BY <2>1, Peers, SizesHere DEF Types
      <4> QED
          BY <4>1, MessageChunks
    <3> HIDE DEF m
    <3>3. Len(m) = Len(buf[p]) /\ \A k \in 1 .. Len(buf[p]) : buf[p][k] = m[k]
        BY <2>1, <2>2, <3>1, <3>2
    <3>4. buf[p] = m
        BY <2>1, <3>2, <3>3, SeqEqual
    <3> QED
        BY <3>4 DEF m
  <2> QED
      BY <2>2, <2>3
<1> QED
    BY <1>1, XInvAlways, PTL

\* When both are through all rounds, what one socket counts as sent its peer
\* counts as received, and nothing is left in the kernel.
THEOREM AlwaysCountersAgree == Spec => []CountersAgree
<1>1. XInv => CountersAgree
  <2> SUFFICES ASSUME XInv, \A p \in Role : ~Active(p), NEW p \in Role
               PROVE  bytes_sent[p] = bytes_received[Peer(p)] /\ chan[p] = <<>>
      BY DEF CountersAgree
  <2> DEFINE q == Peer(p)
  <2>1. q \in Role /\ Types /\ Control(p) /\ Control(q) /\ InLine(p) /\ Counted(p)
      BY Peers DEF XInv
  <2>2. /\ main[p] = "start" /\ main[q] = "start" /\ thread[p] = "none" /\ toSend[p] = <<>>
      BY <2>1 DEF Control
  <2>3. round[p] = Len(Kind) + 1 /\ round[q] = Len(Kind) + 1
    <3>1. /\ round[p] \in 1 .. Len(Kind) + 1 /\ round[p] \notin 1 .. Len(Kind)
          /\ round[q] \in 1 .. Len(Kind) + 1 /\ round[q] \notin 1 .. Len(Kind)
        BY <2>1, RoundsAre DEF Types, Active
    <3> QED
        BY <3>1, RoundsAre
  <2>4. chan[p] \in Seq(Chunk) /\ Way(p) = chan[p]
      BY <2>1, <2>2, ConcatEmptySeq DEF Way, Types
  <2>5. chan[p] = <<>>
    <3> SUFFICES ASSUME Len(chan[p]) > 0 PROVE FALSE
        BY <2>4, EmptySeq
    <3>1. 1 \in 1 .. Len(chan[p]) /\ chan[p][1] \in Chunk
        BY <2>4
    <3>2. Begun(p) = Len(Kind)
        BY <2>2, <2>3, RoundsAre DEF Begun
    <3>3. round[q] <= chan[p][1][1] /\ chan[p][1][1] <= Begun(p)
        BY <2>1, <2>4, <3>1 DEF InLine, Line, OnTheWay
    <3>4. chan[p][1][1] \in Nat
        BY <3>1, ChunkPair
    <3> QED
        BY <2>3, <3>2, <3>3, <3>4, RoundsAre
  <2>6. Uncounted(p) = 0 /\ Taken(q) = 0 /\ Len(chan[p]) = 0 /\ Len(toSend[p]) = 0
      BY <2>2, <2>5 DEF Uncounted, Taken
  <2>7. bytes_sent[p] \in Nat /\ bytes_received[q] \in Nat
      BY <2>1 DEF Types
  <2>8. bytes_sent[p] + 0 = bytes_received[q] + 0 + 0 + 0
      BY <2>1, <2>6 DEF Counted
  <2> QED
      BY <2>5, <2>7, <2>8
<1> QED
    BY <1>1, XInvAlways, PTL

\* Seen by its callers, a round is atomic: a party leaves a round it waits in
\* only after its peer began it.
THEOREM ExchangeImplements == Spec => Implements
<1>1. Init => Sync!Init
  <2> SUFFICES ASSUME Init PROVE Sync!Init
      OBVIOUS
  <2>1. /\ size \in Sizes
        /\ \A x \in Role : round[x] - 1 = 0 /\ Begun(x) = 0
      BY DEF Init, Begun
  <2> QED
      BY <2>1 DEF Sync!Init, Sync!Role, Role, Begun
<1>2. XInv /\ [Next]_vars => [Sync!Next]_(Sync!vars)
  <2> SUFFICES ASSUME XInv, [Next]_vars PROVE [Sync!Next]_(Sync!vars)
      OBVIOUS
  <2>1. CASE UNCHANGED vars
      BY <2>1 DEF vars, Sync!vars
  <2>2. ASSUME NEW p \in Role, Operation(p) PROVE [Sync!Next]_(Sync!vars)
    <3> DEFINE q == Peer(p)
               B == [x \in Role |-> Begun(x)]
               D == [x \in Role |-> round[x] - 1]
               B1 == [x \in Role |-> Begun(x)']
               D1 == [x \in Role |-> round'[x] - 1]
    <3>1. /\ Types /\ Control(p) /\ Buffer(p) /\ InLine(q) /\ q \in Role /\ Peer(q) = p
          /\ \A x \in Role : x = p \/ x = q
        BY Peers DEF XInv
    <3>2. /\ size' = size
          /\ \A x \in Role : x # p => Begun(x)' = Begun(x) /\ round'[x] = round[x]
        BY <2>2, <3>1, PeerFrame DEF Begun
    <3>3. round[p] \in Nat /\ round[p] >= 1
        BY <3>1, RoundsAre DEF Types
    <3>4. ASSUME B[p] = D[p], B[p] < Len(Kind), B1 = [B EXCEPT ![p] = @ + 1], D1 = D
          PROVE  Sync!Next
      <4>1. Sync!Enter(p)
          BY <3>2, <3>4 DEF Sync!Enter, Begun
      <4> QED
          BY <4>1 DEF Sync!Next, Sync!Role, Role
    <3>5. ASSUME D[p] < B[p], Sync!Waits(p, B[p]) => B[q] >= B[p],
                 D1 = [D EXCEPT ![p] = @ + 1], B1 = B
          PROVE  Sync!Next
      <4>1. Sync!Leave(p)
          BY <3>2, <3>5 DEF Sync!Leave, Sync!Peer, Peer, Begun
      <4> QED
          BY <4>1 DEF Sync!Next, Sync!Role, Role
    <3>6. ASSUME round'[p] = round[p], Begun(p)' = Begun(p) PROVE UNCHANGED Sync!vars
      <4>1. \A x \in Role : Begun(x)' = Begun(x) /\ round'[x] = round[x]
          BY <3>2, <3>6
      <4>2. B1 = B /\ D1 = D
          BY <4>1
      <4> QED
          BY <3>2, <4>2 DEF Sync!vars, Begun
    <3>7. ASSUME Return(p), main[p] # "start", Receives(p) => Len(buf[p]) = RecvLen(p)
          PROVE  Sync!Next
      <4>1. round'[p] = round[p] + 1 /\ main'[p] = "start" /\ Active(p)
          BY <3>1, <3>7, ReturnAt DEF Control
      <4>2. Begun(p) = round[p] /\ Begun(p)' = Begun(p)
          BY <3>3, <3>7, <4>1 DEF Begun
      <4>3. B1 = B
          BY <3>2, <4>2
      <4>4. D1 = [D EXCEPT ![p] = @ + 1]
        <5>1. round'[p] - 1 = (round[p] - 1) + 1
            BY <3>3, <4>1
        <5>2. \A x \in Role : x # p => round'[x] - 1 = round[x] - 1
            BY <3>2
        <5> QED
            BY <5>1, <5>2
      <4>5. D[p] < B[p]
          BY <3>3, <4>2
      <4>6. ASSUME Sync!Waits(p, B[p]) PROVE B[q] >= B[p]
        <5>1. Receives(p) /\ size[q][round[p]] > 0
            BY <4>2, <4>6 DEF Sync!Waits, Sync!Peer, Peer, Receives
        <5>2. Len(buf[p]) > 0
            BY <3>1, <3>7, <4>1, <5>1, AsksForAll
        <5>3. round[p] <= Begun(q)
            BY <3>1, <5>2 DEF InLine, Line, GoesOn
        <5>4. round[q] \in Nat
            BY <3>1, RoundsAre DEF Types
        <5> QED
            BY <3>1, <3>3, <4>2, <5>3, <5>4 DEF Begun
      <4> QED
          BY <3>5, <4>3, <4>4, <4>5, <4>6
    <3>8. CASE Begin(p)
      <4>1. /\ Active(p) /\ main[p] = "start" /\ main'[p] # "start" /\ round'[p] = round[p]
          BY <3>1, <3>8, BeginAt
      <4>2. Begun(p) = round[p] - 1 /\ Begun(p)' = round[p] /\ round[p] <= Len(Kind)
          BY <4>1, RoundsAre DEF Begun, Active
      <4>3. D1 = D
          BY <3>2, <4>1
      <4>4. B1 = [B EXCEPT ![p] = @ + 1]
        <5>1. Begun(p)' = Begun(p) + 1
            BY <3>3, <4>2
        <5>2. \A x \in Role : x # p => Begun(x)' = Begun(x)
            BY <3>2
        <5> QED
            BY <5>1, <5>2
      <4>5. B[p] = D[p] /\ B[p] < Len(Kind)
          BY <3>3, <4>2, RoundsAre
      <4> QED
          BY <3>4, <4>3, <4>4, <4>5
    <3>9. CASE ThreadStart(p)
        BY <3>1, <3>6, <3>9, ThreadStartAt DEF Begun
    <3>10. CASE CopyOut(p)
      <4>1. round'[p] = round[p] /\ main'[p] = main[p]
          BY <3>1, <3>10, CopyOutAt
      <4> QED
          BY <3>6, <4>1 DEF Begun
    <3>11. CASE SendReturns(p)
      <4>1. /\ round'[p] = round[p]
            /\ main[p] = "send" => main'[p] = "recv"
            /\ main[p] # "send" => main'[p] = main[p]
          BY <3>1, <3>11, SendReturnsAt
      <4> QED
          BY <3>6, <4>1 DEF Begun
    <3>12. CASE CopyIn(p)
      <4>1. round'[p] = round[p] /\ main' = main
          BY <3>1, <3>12, CopyInAt
      <4> QED
          BY <3>6, <4>1 DEF Begun
    <3>13. CASE ReceiveReturns(p)
      <4>1. CASE thread[p] = "none"
          BY <3>1, <3>7, <3>13, <4>1, ReceiveReturnsAt
      <4>2. CASE thread[p] # "none"
        <5>1. main[p] = "recv" /\ main'[p] = "join" /\ round'[p] = round[p]
            BY <3>1, <3>13, <4>2, ReceiveReturnsAt
        <5> QED
            BY <3>6, <5>1 DEF Begun
      <4> QED
          BY <4>1, <4>2
    <3>14. CASE Join(p)
        BY <3>1, <3>7, <3>14, JoinAt DEF Buffer
    <3> QED
        BY <2>2, <3>8, <3>9, <3>10, <3>11, <3>12, <3>13, <3>14 DEF Operation
  <2> QED
      BY <2>1, <2>2, NextOperation
<1> QED
    BY <1>1, <1>2, XInvAlways, PTL DEF Spec, Implements, Sync!Spec

=============================================================================
