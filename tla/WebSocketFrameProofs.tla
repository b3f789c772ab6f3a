------------------------- MODULE WebSocketFrameProofs -------------------------
(***************************************************************************)
(* Proofs about WebSocket frames, for any widths, payloads and masks: what *)
(* the client encodes is what a reader by the rules of RFC 6455 reads, and *)
(* what the client decodes is what the reader reads of the same bytes.     *)
(***************************************************************************)
EXTENDS WebSocketFrame, Lemmas

-----------------------------------------------------------------------------
(* Masks.                                                                  *)

Binary == [0 .. 4 -> {0, 1}]
Sum(b) == b[0] + 2 * b[1] + 4 * b[2] + 8 * b[3] + 16 * b[4]

\* A byte is its five bits.
LEMMA BitsOfByte ==
  ASSUME NEW n \in Bytes
  PROVE  \E b \in Binary : n = Sum(b)
  <1> DEFINE b == [i \in 0 .. 4 |->
               CASE i = 0 -> (n \div 1) % 2 [] i = 1 -> (n \div 2) % 2 [] i = 2 -> (n \div 4) % 2
                 [] i = 3 -> (n \div 8) % 2 [] OTHER -> (n \div 16) % 2]
  <1>1. /\ (n \div 1) % 2 \in {0, 1} /\ (n \div 2) % 2 \in {0, 1} /\ (n \div 4) % 2 \in {0, 1}
        /\ (n \div 8) % 2 \in {0, 1} /\ (n \div 16) % 2 \in {0, 1}
        /\ n = ((n \div 1) % 2) + 2 * ((n \div 2) % 2) + 4 * ((n \div 4) % 2)
                + 8 * ((n \div 8) % 2) + 16 * ((n \div 16) % 2)
    BY DEF Bytes, ByteMod
  <1>2. /\ b[0] = (n \div 1) % 2 /\ b[1] = (n \div 2) % 2 /\ b[2] = (n \div 4) % 2
        /\ b[3] = (n \div 8) % 2 /\ b[4] = (n \div 16) % 2
    OBVIOUS
  <1>3. \A i \in 0 .. 4 : i = 0 \/ i = 1 \/ i = 2 \/ i = 3 \/ i = 4 OBVIOUS
  <1>4. b = [i \in 0 .. 4 |-> b[i]] OBVIOUS
  <1> HIDE DEF b
  <1>5. \A i \in 0 .. 4 : b[i] \in {0, 1} BY <1>1, <1>2, <1>3
  <1>6. b \in Binary BY <1>4, <1>5 DEF Binary
  <1>7. n = Sum(b) BY <1>1, <1>2 DEF Sum
  <1>8. QED BY <1>6, <1>7

\* The bits of a sum of bits are those bits.
LEMMA BitsOfSum ==
  ASSUME NEW b \in Binary, NEW n, n = Sum(b)
  PROVE  /\ n \in Bytes
         /\ (n \div 1) % 2 = b[0] /\ (n \div 2) % 2 = b[1] /\ (n \div 4) % 2 = b[2]
         /\ (n \div 8) % 2 = b[3] /\ (n \div 16) % 2 = b[4]
  <1>1. PICK v \in {0, 1}, w \in {0, 1}, x \in {0, 1}, y \in {0, 1}, z \in {0, 1} :
          v = b[0] /\ w = b[1] /\ x = b[2] /\ y = b[3] /\ z = b[4]
    BY DEF Binary
  <1>2. n = v + 2 * w + 4 * x + 8 * y + 16 * z BY <1>1 DEF Sum
  <1>3. /\ n \in Bytes
        /\ (n \div 1) % 2 = v /\ (n \div 2) % 2 = w /\ (n \div 4) % 2 = x
        /\ (n \div 8) % 2 = y /\ (n \div 16) % 2 = z
    BY ONLY <1>2, v \in {0, 1}, w \in {0, 1}, x \in {0, 1}, y \in {0, 1}, z \in {0, 1}
       DEF Bytes, ByteMod
  <1>4. QED BY <1>1, <1>3

Differ(a, b) == [i \in 0 .. 4 |-> (a[i] + b[i]) % 2]

LEMMA XorOfSums ==
  ASSUME NEW a \in Binary, NEW b \in Binary, NEW m, m = Sum(a), NEW n, n = Sum(b)
  PROVE  Differ(a, b) \in Binary /\ Xor(m, n) = Sum(Differ(a, b))
  <1>1. /\ (m \div 1) % 2 = a[0] /\ (m \div 2) % 2 = a[1] /\ (m \div 4) % 2 = a[2]
        /\ (m \div 8) % 2 = a[3] /\ (m \div 16) % 2 = a[4]
    BY BitsOfSum
  <1>2. /\ (n \div 1) % 2 = b[0] /\ (n \div 2) % 2 = b[1] /\ (n \div 4) % 2 = b[2]
        /\ (n \div 8) % 2 = b[3] /\ (n \div 16) % 2 = b[4]
    BY BitsOfSum
  <1>3. Xor(m, n) = 1 * ((a[0] + b[0]) % 2) + 2 * ((a[1] + b[1]) % 2) + 4 * ((a[2] + b[2]) % 2)
                      + 8 * ((a[3] + b[3]) % 2) + 16 * ((a[4] + b[4]) % 2)
    BY ONLY <1>1, <1>2 DEF Xor
  <1>4. 1 * ((a[0] + b[0]) % 2) = (a[0] + b[0]) % 2 BY DEF Binary
  <1>5. QED BY <1>3, <1>4 DEF Sum, Differ, Binary

\* A mask applied twice is no mask.
LEMMA XorTwice ==
  ASSUME NEW p \in Bytes, NEW q \in Bytes
  PROVE  Xor(p, q) \in Bytes /\ Xor(Xor(p, q), q) = p
  <1>1. PICK a \in Binary : p = Sum(a) BY BitsOfByte
  <1>2. PICK b \in Binary : q = Sum(b) BY BitsOfByte
  <1>3. Differ(a, b) \in Binary /\ Xor(p, q) = Sum(Differ(a, b))
    BY <1>1, <1>2, XorOfSums
  <1>4. Xor(p, q) \in Bytes BY <1>3, BitsOfSum
  <1>5. Xor(Xor(p, q), q) = Sum(Differ(Differ(a, b), b)) BY <1>2, <1>3, XorOfSums
  <1>6. Differ(Differ(a, b), b) = a BY DEF Differ, Binary
  <1>7. QED BY <1>1, <1>4, <1>5, <1>6
-----------------------------------------------------------------------------
(* Numbers.                                                                *)

Spelled(s) == CHOOSE n : n = [i \in 0 .. Len(s) |-> IF i = 0 THEN 0 ELSE n[i - 1] * ByteMod + s[i]]

LEMMA NumberIsSpelled == \A s : Number(s) = Spelled(s)[Len(s)]
  BY DEF Number, Spelled

\* The recursive function of Number() exists.
LEMMA Spelling ==
  ASSUME NEW s, Len(s) \in Nat
  PROVE  /\ Spelled(s)[0] = 0
         /\ \A i \in 1 .. Len(s) : Spelled(s)[i] = Spelled(s)[i - 1] * ByteMod + s[i]
  <1> DEFINE Is(n, N) == n = [i \in 0 .. N |-> IF i = 0 THEN 0 ELSE n[i - 1] * ByteMod + s[i]]
  <1>1. \E n : Is(n, 0)
    <2> DEFINE n == [i \in 0 .. 0 |-> 0]
    <2>1. Is(n, 0) OBVIOUS
    <2>2. QED BY <2>1
  <1>2. ASSUME NEW N \in Nat, NEW n, Is(n, N) PROVE \E m : Is(m, N + 1)
    <2> DEFINE m == [i \in 0 .. N + 1 |-> IF i = N + 1 THEN n[N] * ByteMod + s[N + 1] ELSE n[i]]
    <2>1. \A i \in 0 .. N : n[i] = IF i = 0 THEN 0 ELSE n[i - 1] * ByteMod + s[i]
      BY <1>2
    <2>2. \A i \in 0 .. N + 1 : m[i] = IF i = 0 THEN 0 ELSE m[i - 1] * ByteMod + s[i]
      <3> TAKE i \in 0 .. N + 1
      <3>1. CASE i = N + 1
        <4>1. i # 0 /\ N \in 0 .. N + 1 /\ N # N + 1 /\ i - 1 = N BY <3>1
        <4>2. m[i] = n[N] * ByteMod + s[N + 1] /\ m[N] = n[N] BY <3>1, <4>1
        <4>3. QED BY <3>1, <4>1, <4>2
      <3>2. CASE i # N + 1
        <4>1. i \in 0 .. N /\ (i # 0 => i - 1 \in 0 .. N + 1 /\ i - 1 # N + 1)
          BY <3>2
        <4>2. m[i] = n[i] /\ (i # 0 => m[i - 1] = n[i - 1]) BY <3>2, <4>1
        <4>3. QED BY <2>1, <4>1, <4>2
      <3>3. QED BY <3>1, <3>2
    <2>3. Is(m, N + 1) BY <2>2
    <2>4. QED BY <2>3
  <1> DEFINE S == {N \in Nat : \E n : Is(n, N)}
  <1> HIDE DEF Is
  <1>3. 0 \in S /\ \A N \in S : N + 1 \in S BY <1>1, <1>2
  <1>4. Len(s) \in S BY <1>3, Induct
  <1>5. Is(Spelled(s), Len(s)) BY <1>4 DEF Spelled, Is
  <1>6. QED BY <1>5 DEF Is

\* One more byte counts for itself, and the others 32 times as much.
LEMMA NumberOfMore ==
  ASSUME NEW s, Len(s) \in Nat, NEW t, Len(t) = Len(s) + 1,
         \A i \in 1 .. Len(s) : t[i] = s[i]
  PROVE  Number(t) = Number(s) * ByteMod + t[Len(t)]
  <1> DEFINE S == {N \in Nat : N <= Len(s) => Spelled(t)[N] = Spelled(s)[N]}
  <1>1. Len(t) \in Nat OBVIOUS
  <1>2. 0 \in S BY <1>1, Spelling
  <1>3. ASSUME NEW N \in S PROVE N + 1 \in S
    <2> SUFFICES ASSUME N + 1 <= Len(s) PROVE Spelled(t)[N + 1] = Spelled(s)[N + 1] OBVIOUS
    <2>1. /\ N + 1 \in 1 .. Len(s) /\ N + 1 \in 1 .. Len(t) /\ N + 1 - 1 = N /\ N <= Len(s)
      OBVIOUS
    <2>2. Spelled(t)[N + 1] = Spelled(t)[N] * ByteMod + t[N + 1]
      <3>1. \A i \in 1 .. Len(t) : Spelled(t)[i] = Spelled(t)[i - 1] * ByteMod + t[i]
        BY <1>1, Spelling
      <3>2. QED BY <2>1, <3>1
    <2>3. Spelled(s)[N + 1] = Spelled(s)[N] * ByteMod + s[N + 1] BY <2>1, Spelling
    <2>4. QED BY <2>1, <2>2, <2>3
  <1> HIDE DEF S
  <1>4. S = Nat BY <1>2, <1>3, Induct DEF S
  <1>5. Spelled(t)[Len(s)] = Spelled(s)[Len(s)] BY <1>4 DEF S
  <1>6. Len(t) \in 1 .. Len(t) /\ Len(t) \in Nat /\ Len(t) - 1 = Len(s) OBVIOUS
  <1>7. Spelled(t)[Len(t)] = Spelled(t)[Len(t) - 1] * ByteMod + t[Len(t)]
    BY <1>6, Spelling
  <1>8. QED BY <1>5, <1>6, <1>7, NumberIsSpelled

LEMMA NumberOfNone ==
  ASSUME NEW s, Len(s) = 0
  PROVE  Number(s) = 0
  BY Spelling, NumberIsSpelled

LEMMA BytesAreNatural == Bytes = 0 .. 31 /\ \A x \in Bytes : x \in Nat
  BY DEF Bytes, ByteMod

LEMMA NumberIsNatural ==
  ASSUME NEW s \in Seq(Bytes)
  PROVE  Number(s) \in Nat
  <1> DEFINE S == {N \in Nat : \A t \in Seq(Bytes) : Len(t) = N => Number(t) \in Nat}
  <1>1. 0 \in S BY NumberOfNone
  <1>2. ASSUME NEW N \in S PROVE N + 1 \in S
    <2> SUFFICES ASSUME NEW t \in Seq(Bytes), Len(t) = N + 1 PROVE Number(t) \in Nat OBVIOUS
    <2> DEFINE f == SubSeq(t, 1, N)
    <2>1. f \in Seq(Bytes) /\ Len(f) = N /\ \A i \in 1 .. N : t[i] = f[i] OBVIOUS
    <2>2. t[Len(t)] \in Nat
      <3>1. Len(t) \in 1 .. Len(t) OBVIOUS
      <3>2. t[Len(t)] \in Bytes BY <3>1
      <3>3. QED BY <3>2, BytesAreNatural
    <2> HIDE DEF f
    <2>3. Number(f) \in Nat BY <2>1
    <2>4. Number(t) = Number(f) * ByteMod + t[Len(t)] BY <2>1, NumberOfMore
    <2>5. QED BY <2>2, <2>3, <2>4 DEF ByteMod
  <1> HIDE DEF S
  <1>3. S = Nat BY <1>1, <1>2, Induct DEF S
  <1>4. QED BY <1>3 DEF S

LEMMA Weights ==
  ASSUME NEW k \in Nat
  PROVE  /\ Weight(0) = 1 /\ Weight(k + 1) = Weight(k) * 32
         /\ Weight(k) \in Nat \ {0}
  <1> DEFINE z(n) == [i \in 1 .. n + 1 |-> IF i = 1 THEN 1 ELSE 0]
  <1>1. \A n \in Nat : Weight(n) = Number(z(n)) /\ Len(z(n)) = n + 1 BY DEF Weight
  <1>2. Weight(0) = 1
    <2> DEFINE one == z(0)
               none == <<>>
    <2>1. 0 + 1 = 1 /\ 1 \in 1 .. 1 OBVIOUS
    <2>2. Len(none) = 0 /\ Len(one) = 1 /\ one[1] = 1 BY <2>1
    <2>3. Weight(0) = Number(one) BY <1>1
    <2> HIDE DEF one, none
    <2>4. Len(none) \in Nat /\ Len(one) = Len(none) + 1 /\ \A i \in 1 .. Len(none) : one[i] = none[i]
      BY <2>1, <2>2
    <2>5. Number(one) = Number(none) * ByteMod + one[Len(one)] BY <2>4, NumberOfMore
    <2>6. Number(none) = 0 BY <2>2, NumberOfNone
    <2>7. QED BY <2>2, <2>3, <2>5, <2>6 DEF ByteMod
  <1>3. ASSUME NEW n \in Nat PROVE Weight(n + 1) = Weight(n) * 32
    <2>1. /\ Len(z(n)) = n + 1 /\ Len(z(n + 1)) = Len(z(n)) + 1
          /\ \A i \in 1 .. Len(z(n)) : z(n + 1)[i] = z(n)[i]
          /\ z(n + 1)[Len(z(n + 1))] = 0
      OBVIOUS
    <2>2. Number(z(n + 1)) = Number(z(n)) * ByteMod + z(n + 1)[Len(z(n + 1))]
      BY <2>1, NumberOfMore
    <2>3. Number(z(n)) \in Nat
      <3>1. z(n) \in Seq(Bytes) BY DEF Bytes, ByteMod
      <3>2. QED BY <3>1, NumberIsNatural
    <2>4. QED BY <1>1, <2>1, <2>2, <2>3 DEF ByteMod
  <1> HIDE DEF z
  <1> DEFINE S == {n \in Nat : Weight(n) \in Nat \ {0}}
  <1>4. 0 \in S BY <1>2
  <1>5. ASSUME NEW n \in S PROVE n + 1 \in S BY <1>3
  <1>6. S = Nat
    <2> HIDE DEF S
    <2>1. QED BY <1>4, <1>5, Induct DEF S
  <1>7. k \in S BY <1>6
  <1>8. QED BY <1>2, <1>3, <1>7

\* What BigEndian() spells in enough bytes is the number.
LEMMA NumberOfBigEndian ==
  ASSUME NEW n \in Nat, NEW k \in Nat, n < Weight(k)
  PROVE  BigEndian(n, k) \in Seq(Bytes) /\ Len(BigEndian(n, k)) = k /\ Number(BigEndian(n, k)) = n
  <1> DEFINE b == BigEndian(n, k)
             first(i) == SubSeq(b, 1, i)
  <1>1. \A i \in 0 .. k : Weight(k - i) \in Nat \ {0} BY Weights
  <1>2. ASSUME NEW i \in 1 .. k PROVE b[i] = (n \div Weight(k - i)) % 32 /\ b[i] \in Bytes
    <2>1. b[i] = (n \div Weight(k - i)) % 32 BY DEF BigEndian, ByteMod
    <2>2. Weight(k - i) \in Nat \ {0} BY <1>1
    <2>3. (n \div Weight(k - i)) % 32 \in Bytes BY <2>2 DEF Bytes, ByteMod
    <2>4. QED BY <2>1, <2>3
  <1>3. b = [i \in 1 .. k |-> b[i]] BY DEF BigEndian
  <1> HIDE DEF b
  <1>4. b \in Seq(Bytes) /\ Len(b) = k BY <1>2, <1>3
  <1> DEFINE S == {i \in Nat : i <= k => Number(first(i)) = n \div Weight(k - i)}
  <1>5. 0 \in S
    <2>1. Len(first(0)) = 0 BY <1>4
    <2>2. k - 0 = k /\ Weight(k) \in Nat \ {0} BY Weights
    <2>3. n \div Weight(k) = 0 BY <2>2
    <2>4. QED BY <2>1, <2>2, <2>3, NumberOfNone
  <1>6. ASSUME NEW i \in S PROVE i + 1 \in S
    <2> SUFFICES ASSUME i + 1 <= k PROVE Number(first(i + 1)) = n \div Weight(k - (i + 1))
      OBVIOUS
    <2>1. Len(first(i)) = i /\ Len(first(i + 1)) = i + 1 BY <1>4
    <2>2. \A j \in 1 .. i : first(i + 1)[j] = first(i)[j] BY <1>4
    <2>3. first(i + 1)[i + 1] = b[i + 1] BY <1>4
    <2>4. Number(first(i + 1)) = Number(first(i)) * ByteMod + b[i + 1]
      <3> HIDE DEF first
      <3>1. QED BY <2>1, <2>2, <2>3, NumberOfMore
    <2>5. Number(first(i)) = n \div Weight(k - i) OBVIOUS
    <2>6. PICK w \in Nat \ {0} : w = Weight(k - (i + 1)) BY Weights
    <2>7. Weight(k - i) = w * 32
      <3>1. k - (i + 1) \in Nat /\ k - (i + 1) + 1 = k - i OBVIOUS
      <3>2. QED BY <2>6, <3>1, Weights
    <2>8. b[i + 1] = (n \div w) % 32 BY <1>2, <2>6
    <2>9. n \div (w * 32) = (n \div w) \div 32 OBVIOUS
    <2>10. ((n \div w) \div 32) * 32 + ((n \div w) % 32) = n \div w OBVIOUS
    <2>11. QED BY <2>4, <2>5, <2>6, <2>7, <2>8, <2>9, <2>10 DEF ByteMod
  <1> HIDE DEF S
  <1>7. S = Nat BY <1>5, <1>6, Induct DEF S
  <1>8. Number(first(k)) = n \div Weight(k - k) BY <1>7 DEF S
  <1>9. first(k) = b BY <1>4, SubSeqFull
  <1>10. n \div Weight(k - k) = n
    <2>1. k - k = 0 OBVIOUS
    <2>2. n \div 1 = n OBVIOUS
    <2>3. QED BY <2>1, <2>2, Weights
  <1>11. QED BY <1>4, <1>8, <1>9, <1>10 DEF b
-----------------------------------------------------------------------------
(* Parts of sequences of bytes.                                            *)

LEMMA Joined ==
  ASSUME NEW s \in Seq(Bytes), NEW t \in Seq(Bytes)
  PROVE  /\ s \o t \in Seq(Bytes) /\ Len(s \o t) = Len(s) + Len(t)
         /\ Len(s) \in Nat /\ Len(t) \in Nat
         /\ \A i \in 1 .. Len(s) : (s \o t)[i] = s[i]
         /\ \A i \in 1 .. Len(t) : (s \o t)[Len(s) + i] = t[i]
  BY TwoInOne

LEMMA Part ==
  ASSUME NEW s \in Seq(Bytes), NEW m \in Nat \ {0}, NEW n \in Nat, n <= Len(s), m <= n + 1
  PROVE  /\ SubSeq(s, m, n) \in Seq(Bytes) /\ Len(SubSeq(s, m, n)) = n - m + 1
         /\ \A i \in 1 .. n - m + 1 : SubSeq(s, m, n)[i] = s[m - 1 + i]
  <1>1. SubSeq(s, m, n) \in Seq(Bytes) /\ Len(SubSeq(s, m, n)) = n - m + 1 OBVIOUS
  <1>2. \A i \in 1 .. n - m + 1 : SubSeq(s, m, n)[i] = s[m - 1 + i] OBVIOUS
  <1>3. QED BY <1>1, <1>2

\* t is the k bytes of s after the first u.
IsPart(t, s, u, k) == t \in Seq(Bytes) /\ Len(t) = k /\ \A j \in 1 .. k : t[j] = s[u + j]

LEMMA PartBetween ==
  ASSUME NEW s \in Seq(Bytes), NEW u \in Nat, NEW n \in Nat, u <= n, n <= Len(s)
  PROVE  \E k \in Nat : n = u + k /\ IsPart(SubSeq(s, u + 1, n), s, u, k)
  <1>1. PICK k \in Nat : k = n - u /\ n = u + k
    <2>1. n - u \in Nat /\ n = u + (n - u) OBVIOUS
    <2>2. QED BY <2>1
  <1>2. /\ u + 1 \in Nat \ {0} /\ u + 1 <= n + 1
        /\ n - (u + 1) + 1 = k /\ (u + 1) - 1 = u
    BY <1>1
  <1>3. IsPart(SubSeq(s, u + 1, n), s, u, k) BY <1>2, Part DEF IsPart
  <1>4. QED BY <1>1, <1>3

LEMMA SameBytes ==
  ASSUME NEW s \in Seq(Bytes), NEW t \in Seq(Bytes), Len(s) = Len(t),
         \A i \in 1 .. Len(s) : s[i] = t[i]
  PROVE  s = t
  BY SeqEqual

\* s is the beginning of t.
Begins(s, t) ==
  /\ s \in Seq(Bytes) /\ t \in Seq(Bytes) /\ Len(s) <= Len(t)
  /\ \A i \in 1 .. Len(s) : s[i] = t[i]
-----------------------------------------------------------------------------
(* Frames and their headers.                                               *)

LEMMA HeaderIsNatural ==
  ASSUME NEW b \in Seq(Bytes), Len(b) >= 2
  PROVE  /\ RfcExtended(b) \in Nat /\ RfcHeader(b) \in Nat
         /\ 2 + RfcExtended(b) <= RfcHeader(b)
         /\ Len(b) >= 2 + RfcExtended(b) => RfcLength(b) \in Nat
  <1>1. RfcExtended(b) \in Nat BY WidthAssumption DEF RfcExtended
  <1>2. RfcHeader(b) \in Nat /\ 2 + RfcExtended(b) <= RfcHeader(b)
    BY <1>1, WidthAssumption DEF RfcHeader
  <1>3. ASSUME Len(b) >= 2 + RfcExtended(b) PROVE RfcLength(b) \in Nat
    <2>1. SubSeq(b, 3, 2 + RfcExtended(b)) \in Seq(Bytes) BY <1>1, <1>3, Part
    <2>2. Number(SubSeq(b, 3, 2 + RfcExtended(b))) \in Nat BY <2>1, NumberIsNatural
    <2>3. b[2] \in Nat
      <3>1. b[2] \in Bytes OBVIOUS
      <3>2. QED BY <3>1, BytesAreNatural
    <2>4. b[2] % TopBit \in Nat BY <2>3 DEF TopBit
    <2>5. QED BY <2>2, <2>4 DEF RfcLength
  <1>4. QED BY <1>1, <1>2, <1>3

\* The header is that of any bytes that begin with all of it.
LEMMA SameHeader ==
  ASSUME NEW s, NEW t, Begins(s, t), Len(s) >= 2, Len(s) >= 2 + RfcExtended(s)
  PROVE  /\ RfcExtended(t) = RfcExtended(s) /\ RfcHeader(t) = RfcHeader(s)
         /\ RfcLength(t) = RfcLength(s)
  <1> USE DEF Begins
  <1>1. t[2] = s[2] OBVIOUS
  <1>2. RfcExtended(t) = RfcExtended(s) BY <1>1 DEF RfcExtended
  <1>3. RfcHeader(t) = RfcHeader(s) BY <1>1, <1>2 DEF RfcHeader
  <1>4. PICK k \in Nat : k = RfcExtended(s) BY HeaderIsNatural
  <1> DEFINE x == SubSeq(s, 3, 2 + k)
             y == SubSeq(t, 3, 2 + k)
  <1>5. /\ x \in Seq(Bytes) /\ y \in Seq(Bytes) /\ Len(x) = k /\ Len(y) = k
        /\ \A i \in 1 .. k : x[i] = s[2 + i] /\ y[i] = t[2 + i]
    BY <1>4
  <1>6. \A i \in 1 .. k : x[i] = y[i] BY <1>4, <1>5
  <1>7. x = y BY <1>5, <1>6, SameBytes
  <1>8. RfcLength(t) = RfcLength(s) BY <1>1, <1>2, <1>4, <1>7 DEF RfcLength
  <1>9. QED BY <1>2, <1>3, <1>8

\* No frame begins another.
LEMMA NoFrameBegins ==
  ASSUME NEW s, NEW t, Begins(s, t), OneFrame(t), OneFrame(s)
  PROVE  Len(s) = Len(t)
  <1>1. Len(s) >= 2 /\ Len(s) >= 2 + RfcExtended(s)
    BY HeaderIsNatural DEF OneFrame, Begins
  <1>2. RfcHeader(t) = RfcHeader(s) /\ RfcLength(t) = RfcLength(s)
    BY <1>1, SameHeader
  <1>3. QED BY <1>2 DEF OneFrame
-----------------------------------------------------------------------------
(* What the client writes.                                                 *)

KeyIndex(i) == ((i - 1) % MaskBytes) + 1

LEMMA KeyIndices ==
  ASSUME NEW i \in Nat \ {0}
  PROVE  KeyIndex(i) \in 1 .. MaskBytes
  BY WidthAssumption DEF KeyIndex

LEMMA MaskedBytes ==
  ASSUME NEW s \in Seq(Bytes), NEW mask \in [1 .. MaskBytes -> Bytes]
  PROVE  /\ ApplyMask(s, mask) \in Seq(Bytes) /\ Len(ApplyMask(s, mask)) = Len(s)
         /\ \A i \in 1 .. Len(s) : ApplyMask(s, mask)[i] = Xor(s[i], mask[KeyIndex(i)])
  <1>1. ApplyMask(s, mask) = [i \in 1 .. Len(s) |-> Xor(s[i], mask[KeyIndex(i)])]
    BY DEF ApplyMask, KeyIndex
  <1>2. ASSUME NEW i \in 1 .. Len(s) PROVE Xor(s[i], mask[KeyIndex(i)]) \in Bytes
    <2>1. s[i] \in Bytes /\ mask[KeyIndex(i)] \in Bytes BY KeyIndices
    <2>2. QED BY <2>1, XorTwice
  <1>3. QED BY <1>1, <1>2

\* A header that announces the length of the payload, a mask and the masked
\* payload are a frame, with the opcode of the header and the payload.
LEMMA Framed ==
  ASSUME NEW h \in Seq(Bytes), NEW mask \in [1 .. MaskBytes -> Bytes], NEW payload \in Seq(Bytes),
         Len(h) >= 2, Len(h) = 2 + RfcExtended(h), h[2] >= TopBit, RfcLength(h) = Len(payload)
  PROVE  LET b == h \o mask \o ApplyMask(payload, mask)
         IN  b \in Seq(Bytes) /\ OneFrame(b) /\ FrameIn(b) = <<h[1] % TopBit, payload>>
  <1> DEFINE body == ApplyMask(payload, mask)
             hm == h \o mask
             b == hm \o body
  <1>1. mask \in Seq(Bytes) /\ Len(mask) = MaskBytes BY WidthAssumption
  <1>2. /\ body \in Seq(Bytes) /\ Len(body) = Len(payload)
        /\ \A i \in 1 .. Len(payload) : body[i] = Xor(payload[i], mask[KeyIndex(i)])
    BY MaskedBytes
  <1> HIDE DEF body
  <1>3. /\ hm \in Seq(Bytes) /\ Len(hm) = Len(h) + MaskBytes /\ Len(h) \in Nat
        /\ \A i \in 1 .. Len(h) : hm[i] = h[i]
        /\ \A i \in 1 .. MaskBytes : hm[Len(h) + i] = mask[i]
    BY <1>1, Joined
  <1> HIDE DEF hm
  <1>4. /\ b \in Seq(Bytes) /\ Len(b) = Len(hm) + Len(payload) /\ Len(payload) \in Nat
        /\ \A i \in 1 .. Len(hm) : b[i] = hm[i]
        /\ \A i \in 1 .. Len(payload) : b[Len(hm) + i] = body[i]
    <2>1. /\ hm \o body \in Seq(Bytes) /\ Len(hm \o body) = Len(hm) + Len(body)
          /\ \A i \in 1 .. Len(hm) : (hm \o body)[i] = hm[i]
          /\ \A i \in 1 .. Len(body) : (hm \o body)[Len(hm) + i] = body[i]
      BY <1>2, <1>3, Joined
    <2>2. Len(payload) \in Nat OBVIOUS
    <2>3. QED BY <1>2, <2>1, <2>2
  <1> HIDE DEF b
  <1>5. \A i \in 1 .. Len(h) : b[i] = h[i] BY <1>3, <1>4, WidthAssumption
  <1>6. \A i \in 1 .. MaskBytes : b[Len(h) + i] = mask[i]
    <2> TAKE i \in 1 .. MaskBytes
    <2>1. Len(h) + i \in 1 .. Len(hm) BY <1>3, WidthAssumption
    <2>2. QED BY <1>3, <1>4, <2>1
  <1>7. Begins(h, b) BY <1>3, <1>4, <1>5, WidthAssumption DEF Begins
  <1>8. RfcExtended(b) = RfcExtended(h) /\ RfcHeader(b) = RfcHeader(h) /\ RfcLength(b) = Len(payload)
    BY <1>7, SameHeader
  <1>9. RfcHeader(b) = Len(hm) BY <1>3, <1>8 DEF RfcHeader
  <1>10. OneFrame(b) BY <1>3, <1>4, <1>8, <1>9, WidthAssumption DEF OneFrame
  <1>11. RfcPayload(b) = payload
    <2>1. b[2] >= TopBit /\ b[2] \in Nat
      <3>1. 2 \in 1 .. Len(h) BY <1>3
      <3>2. b[2] = h[2] BY <1>5, <3>1
      <3>3. h[2] \in Nat
        <4>1. h[2] \in Bytes BY <3>1
        <4>2. QED BY <4>1, BytesAreNatural
      <3>4. QED BY <3>2, <3>3
    <2>2. ~(b[2] < TopBit) BY <2>1 DEF TopBit
    <2>3. ASSUME NEW i \in 1 .. Len(payload)
          PROVE  Xor(b[Len(hm) + i], b[Len(hm) - MaskBytes + 1 + ((i - 1) % MaskBytes)]) = payload[i]
      <3>1. KeyIndex(i) \in 1 .. MaskBytes BY KeyIndices
      <3>2. Len(hm) - MaskBytes + 1 + ((i - 1) % MaskBytes) = Len(h) + KeyIndex(i)
        BY <1>3, WidthAssumption DEF KeyIndex
      <3>3. b[Len(h) + KeyIndex(i)] = mask[KeyIndex(i)] BY <1>6, <3>1
      <3>4. b[Len(hm) + i] = Xor(payload[i], mask[KeyIndex(i)]) BY <1>2, <1>4
      <3>5. payload[i] \in Bytes /\ mask[KeyIndex(i)] \in Bytes BY <3>1
      <3>6. QED BY <3>2, <3>3, <3>4, <3>5, XorTwice
    <2>4. RfcPayload(b) = [i \in 1 .. Len(payload) |->
            Xor(b[Len(hm) + i], b[Len(hm) - MaskBytes + 1 + ((i - 1) % MaskBytes)])]
      BY <1>8, <1>9, <2>2 DEF RfcPayload
    <2>5. RfcPayload(b) = [i \in 1 .. Len(payload) |-> payload[i]] BY <2>3, <2>4
    <2>6. QED BY <2>5
  <1>12. b[1] = h[1] BY <1>3, <1>5
  <1>13. QED BY <1>4, <1>10, <1>11, <1>12 DEF FrameIn, b, hm, body

LEMMA Announced ==
  ASSUME NEW op \in Bytes, NEW n \in Nat, n < SizeMod
  PROVE  LET h == <<op>> \o LengthBytes(n)
         IN  /\ h \in Seq(Bytes) /\ Len(h) >= 2 /\ Len(h) = 2 + RfcExtended(h)
             /\ h[1] = op /\ h[2] >= TopBit /\ RfcLength(h) = n
  <1> DEFINE h == <<op>> \o LengthBytes(n)
  <1>1. CASE n < Short
    <2>1. LengthBytes(n) = <<TopBit + n>> BY <1>1 DEF LengthBytes
    <2>2. TopBit + n \in Bytes /\ (TopBit + n) % TopBit = n /\ n # Short /\ n # Long
      BY <1>1 DEF Short, Long, TopBit, Bytes, ByteMod
    <2>3. h = <<op>> \o <<TopBit + n>> BY <2>1
    <2>4. h \in Seq(Bytes) /\ Len(h) = 2 /\ h[1] = op /\ h[2] = TopBit + n
      <3> DEFINE x == <<op>>
                 l == <<TopBit + n>>
      <3>1. /\ x \in Seq(Bytes) /\ Len(x) = 1 /\ x[1] = op
            /\ l \in Seq(Bytes) /\ Len(l) = 1 /\ l[1] = TopBit + n
        BY <2>2
      <3>2. h = x \o l BY <2>3
      <3> HIDE DEF x, l
      <3>3. /\ x \o l \in Seq(Bytes) /\ Len(x \o l) = Len(x) + Len(l)
            /\ \A i \in 1 .. Len(x) : (x \o l)[i] = x[i]
            /\ \A i \in 1 .. Len(l) : (x \o l)[Len(x) + i] = l[i]
        BY <3>1, Joined
      <3> HIDE DEF h
      <3>4. 1 \in 1 .. 1 /\ 1 + 1 = 2 OBVIOUS
      <3>5. QED BY <3>1, <3>2, <3>3, <3>4
    <2> HIDE DEF h
    <2>5. RfcExtended(h) = 0 BY <2>2, <2>4 DEF RfcExtended
    <2>6. RfcLength(h) = n BY <2>2, <2>4 DEF RfcLength
    <2>7. TopBit + n >= TopBit BY DEF TopBit
    <2>8. QED BY <2>4, <2>5, <2>6, <2>7 DEF h
  <1>2. ASSUME NEW m \in {Short, Long}, NEW k \in Nat, k = (IF m = Short THEN ShortBytes ELSE LongBytes),
               n < Weight(k), LengthBytes(n) = <<TopBit + m>> \o BigEndian(n, k)
        PROVE  /\ h \in Seq(Bytes) /\ Len(h) >= 2 /\ Len(h) = 2 + RfcExtended(h)
               /\ h[1] = op /\ h[2] >= TopBit /\ RfcLength(h) = n
    <2> DEFINE d == BigEndian(n, k)
               l == <<TopBit + m>> \o d
    <2>1. d \in Seq(Bytes) /\ Len(d) = k /\ Number(d) = n BY <1>2, NumberOfBigEndian
    <2> HIDE DEF d
    <2>2. TopBit + m \in Bytes /\ (TopBit + m) % TopBit = m /\ TopBit + m >= TopBit /\ Short # Long
      BY DEF Short, Long, TopBit, Bytes, ByteMod
    <2>3. /\ l \in Seq(Bytes) /\ Len(l) = 1 + k /\ l[1] = TopBit + m
          /\ \A i \in 1 .. k : l[1 + i] = d[i]
      <3> DEFINE x == <<TopBit + m>>
      <3>1. x \in Seq(Bytes) /\ Len(x) = 1 /\ x[1] = TopBit + m BY <2>2
      <3> HIDE DEF x
      <3>2. /\ x \o d \in Seq(Bytes) /\ Len(x \o d) = Len(x) + Len(d)
            /\ \A i \in 1 .. Len(x) : (x \o d)[i] = x[i]
            /\ \A i \in 1 .. Len(d) : (x \o d)[Len(x) + i] = d[i]
        BY <2>1, <3>1, Joined
      <3>3. 1 \in 1 .. 1 OBVIOUS
      <3>4. l = x \o d BY DEF x
      <3>5. QED BY <2>1, <3>1, <3>2, <3>3, <3>4
    <2>4. h = <<op>> \o l BY <1>2 DEF d
    <2> HIDE DEF l
    <2>5. /\ h \in Seq(Bytes) /\ Len(h) = 2 + k /\ h[1] = op /\ h[2] = TopBit + m
          /\ \A i \in 1 .. k : h[2 + i] = d[i]
      <3> DEFINE x == <<op>>
      <3>1. x \in Seq(Bytes) /\ Len(x) = 1 /\ x[1] = op OBVIOUS
      <3> HIDE DEF x
      <3>2. /\ x \o l \in Seq(Bytes) /\ Len(x \o l) = Len(x) + Len(l)
            /\ \A i \in 1 .. Len(x) : (x \o l)[i] = x[i]
            /\ \A i \in 1 .. Len(l) : (x \o l)[Len(x) + i] = l[i]
        BY <2>3, <3>1, Joined
      <3>3. h = x \o l BY <2>4 DEF x
      <3> HIDE DEF h
      <3>4. h \in Seq(Bytes) /\ Len(h) = 1 + (1 + k) BY <2>3, <3>1, <3>2, <3>3
      <3>5. \A i \in 1 .. 1 + k : h[1 + i] = l[i] BY <2>3, <3>1, <3>2, <3>3
      <3>6. h[1] = op BY <3>1, <3>2, <3>3
      <3>7. h[1 + 1] = l[1] BY <3>5
      <3>8. \A i \in 1 .. k : h[1 + (1 + i)] = d[i] BY <2>3, <3>5
      <3>9. 1 + 1 = 2 /\ (\A i \in 1 .. k : 1 + (1 + i) = 2 + i) /\ 1 + (1 + k) = 2 + k OBVIOUS
      <3>10. QED BY <2>3, <3>4, <3>6, <3>7, <3>8, <3>9
    <2> HIDE DEF h
    <2>6. h[2] % TopBit = m BY <2>2, <2>5
    <2>7. RfcExtended(h) = k BY <1>2, <2>2, <2>6 DEF RfcExtended
    <2>8. SubSeq(h, 3, 2 + k) = d
      <3>1. /\ SubSeq(h, 3, 2 + k) \in Seq(Bytes) /\ Len(SubSeq(h, 3, 2 + k)) = k
            /\ \A i \in 1 .. k : SubSeq(h, 3, 2 + k)[i] = h[2 + i]
        BY <2>5
      <3>2. \A i \in 1 .. k : SubSeq(h, 3, 2 + k)[i] = d[i] BY <2>5, <3>1
      <3>3. QED BY <2>1, <3>1, <3>2, SameBytes
    <2>9. RfcLength(h) = n BY <2>1, <2>6, <2>7, <2>8 DEF RfcLength
    <2>10. QED BY <2>2, <2>5, <2>7, <2>9
  <1>3. CASE Short <= n /\ n <= ShortMax
    <2>1. LengthBytes(n) = <<TopBit + Short>> \o BigEndian(n, ShortBytes)
      BY <1>3 DEF LengthBytes, Short
    <2>2. n < Weight(ShortBytes) /\ ShortBytes \in Nat
      <3>1. Weight(ShortBytes) \in Nat BY WidthAssumption, Weights
      <3>2. QED BY <1>3, <3>1, WidthAssumption
    <2>3. QED BY <1>2, <2>1, <2>2
  <1>4. CASE ShortMax < n
    <2>1. LengthBytes(n) = <<TopBit + Long>> \o BigEndian(n, LongBytes)
      BY <1>4, WidthAssumption DEF LengthBytes, Short
    <2>2. n < Weight(LongBytes) /\ LongBytes \in Nat BY WidthAssumption DEF SizeMod
    <2>3. Long # Short BY DEF Long, Short
    <2>4. QED BY <1>2, <2>1, <2>2, <2>3
  <1>5. QED BY <1>1, <1>3, <1>4, WidthAssumption DEF Short

\* What send(), close() and a pong encode is a frame with the opcode and the
\* payload it is meant to have: the pong one for pings as long as RFC 6455
\* allows, 125 bytes, scaled down.
THEOREM EncodedAreFrames ==
  ASSUME NEW mask \in [1 .. MaskBytes -> Bytes], NEW payload \in Seq(Bytes)
  PROVE  /\ Len(payload) < SizeMod => IsFrame(TextFrame(payload, mask), <<TextOp, payload>>)
         /\ IsFrame(CloseFrame(mask), <<CloseOp, CloseReason>>)
         /\ Len(payload) < Short => IsFrame(PongFrame(payload, mask), <<PongOp, payload>>)
  <1>1. ASSUME Len(payload) < SizeMod
        PROVE  IsFrame(TextFrame(payload, mask), <<TextOp, payload>>)
    <2> DEFINE h == <<TopBit + TextOp>> \o LengthBytes(Len(payload))
    <2>1. TopBit + TextOp \in Bytes /\ (TopBit + TextOp) % TopBit = TextOp /\ Len(payload) \in Nat
      BY DEF TopBit, TextOp, Bytes, ByteMod
    <2>2. /\ h \in Seq(Bytes) /\ Len(h) >= 2 /\ Len(h) = 2 + RfcExtended(h)
          /\ h[1] = TopBit + TextOp /\ h[2] >= TopBit /\ RfcLength(h) = Len(payload)
      BY <1>1, <2>1, Announced
    <2>3. TextFrame(payload, mask) = h \o mask \o ApplyMask(payload, mask)
      BY DEF TextFrame
    <2> HIDE DEF h
    <2>4. QED BY <2>1, <2>2, <2>3, Framed DEF IsFrame
  <1>2. ASSUME NEW op \in {CloseOp, PongOp}, NEW p \in Seq(Bytes), Len(p) < Short
        PROVE  LET h == <<TopBit + op, TopBit + Len(p)>>
               IN  IsFrame(h \o mask \o ApplyMask(p, mask), <<op, p>>)
    <2> DEFINE h == <<TopBit + op, TopBit + Len(p)>>
    <2>1. /\ TopBit + op \in Bytes /\ (TopBit + op) % TopBit = op
          /\ TopBit + Len(p) \in Bytes /\ (TopBit + Len(p)) % TopBit = Len(p)
          /\ TopBit + Len(p) >= TopBit /\ Len(p) # Short /\ Len(p) # Long
      <3>1. PICK n \in Nat : n = Len(p) /\ n < 14 BY <1>2 DEF Short
      <3>2. /\ 16 + n \in 0 .. 31 /\ (16 + n) % 16 = n /\ 16 + n >= 16 /\ n # 14 /\ n # 15
        <4>1. n \in Nat /\ n < 14 BY <3>1
        <4>2. QED BY ONLY <4>1
      <3>3. op = 8 \/ op = 10 BY <1>2 DEF CloseOp, PongOp
      <3>4. 16 + op \in 0 .. 31 /\ (16 + op) % 16 = op BY <3>3
      <3>5. QED BY <3>1, <3>2, <3>4, BytesAreNatural DEF TopBit, Short, Long
    <2>2. h \in Seq(Bytes) /\ Len(h) = 2 /\ h[1] = TopBit + op /\ h[2] = TopBit + Len(p)
      BY <2>1
    <2> HIDE DEF h
    <2>3. RfcExtended(h) = 0 BY <2>1, <2>2 DEF RfcExtended
    <2>4. RfcLength(h) = Len(p) BY <2>1, <2>2 DEF RfcLength
    <2>5. /\ h \in Seq(Bytes) /\ Len(h) >= 2 /\ Len(h) = 2 + RfcExtended(h)
          /\ h[1] % TopBit = op /\ h[2] >= TopBit /\ RfcLength(h) = Len(p)
      BY <2>1, <2>2, <2>3, <2>4
    <2>6. IsFrame(h \o mask \o ApplyMask(p, mask), <<op, p>>)
      BY <2>5, Framed DEF IsFrame
    <2>7. QED BY <2>6 DEF h
  <1>3. IsFrame(CloseFrame(mask), <<CloseOp, CloseReason>>)
    <2>1. CloseReason \in Seq(Bytes) /\ Len(CloseReason) = 2 /\ 2 < Short
      BY DEF CloseReason, Bytes, ByteMod, Short
    <2>2. QED BY <1>2, <2>1 DEF CloseFrame
  <1>4. ASSUME Len(payload) < Short
        PROVE  IsFrame(PongFrame(payload, mask), <<PongOp, payload>>)
    <2>1. Len(payload) % TopBit = Len(payload) BY <1>4 DEF Short, TopBit
    <2>2. QED BY <1>2, <1>4, <2>1 DEF PongFrame
  <1>5. QED BY <1>1, <1>3, <1>4
-----------------------------------------------------------------------------
(* What the client reads.                                                  *)

\* The sum that dispatchFramedBuffer() takes does not wrap around.
Fits(b) == HeaderSize(b) + PayloadLen(b) < SizeMod

LEMMA SameReading ==
  ASSUME NEW b \in Seq(Bytes), Len(b) >= 2
  PROVE  /\ LengthSize(b) = RfcExtended(b) /\ HeaderSize(b) = RfcHeader(b)
         /\ PayloadLen(b) = RfcLength(b)
  <1>1. LengthSize(b) = RfcExtended(b) BY DEF LengthSize, RfcExtended
  <1>2. HeaderSize(b) = RfcHeader(b) BY <1>1 DEF HeaderSize, RfcHeader, IsMasked
  <1>3. LengthSize(b) = 0 <=> b[2] % TopBit \notin {Short, Long}
    BY WidthAssumption DEF LengthSize
  <1>4. PayloadLen(b) = RfcLength(b) BY <1>1, <1>3 DEF PayloadLen, RfcLength
  <1>5. QED BY <1>1, <1>2, <1>4

LEMMA SizeIsNatural == SizeMod \in Nat \ {0}
  BY WidthAssumption, Weights DEF SizeMod

\* A frame the client takes from its buffer is the frame at its beginning.
LEMMA WholeIsFrame ==
  ASSUME NEW b \in Seq(Bytes), IsWhole(b), Fits(b)
  PROVE  LET c == HeaderSize(b) + PayloadLen(b)
             g == SubSeq(b, 1, c)
         IN  /\ c \in 2 .. Len(b)
             /\ IsFrame(g, <<Opcode(b), Payload(b)>>)
             /\ Payload(b) \in Seq(Bytes) /\ Len(Payload(b)) = PayloadLen(b)
  <1> DEFINE c == HeaderSize(b) + PayloadLen(b)
             g == SubSeq(b, 1, c)
  <1>1. Len(b) \in Nat /\ Len(b) >= 2 /\ Len(b) >= 2 + LengthSize(b) /\ Len(b) >= c % SizeMod
    BY DEF IsWhole
  <1>2. LengthSize(b) = RfcExtended(b) /\ HeaderSize(b) = RfcHeader(b) /\ PayloadLen(b) = RfcLength(b)
    BY <1>1, SameReading
  <1>3. PICK h \in Nat, n \in Nat, e \in Nat :
          h = RfcHeader(b) /\ n = RfcLength(b) /\ e = RfcExtended(b) /\ 2 + e <= h
    BY <1>1, <1>2, HeaderIsNatural
  <1>4. c = h + n BY <1>2, <1>3
  <1>5. c <= Len(b)
    <2>1. PICK m \in Nat \ {0} : m = SizeMod BY SizeIsNatural
    <2>2. c \in Nat /\ c < m BY <1>3, <1>4, <2>1 DEF Fits
    <2>3. c % m = c BY <2>1, <2>2
    <2>4. QED BY <1>1, <2>1, <2>3
  <1> HIDE DEF c
  <1>6. /\ g \in Seq(Bytes) /\ Len(g) = c /\ \A i \in 1 .. c : g[i] = b[i]
    BY <1>3, <1>4, <1>5
  <1> HIDE DEF g
  <1>7. Begins(g, b) BY <1>1, <1>4, <1>5, <1>6 DEF Begins
  <1>8. g[2] = b[2] /\ g[1] = b[1] BY <1>3, <1>4, <1>6
  <1>9. RfcExtended(g) = e BY <1>3, <1>8 DEF RfcExtended
  <1>10. RfcHeader(g) = h /\ RfcLength(g) = n
    BY <1>3, <1>4, <1>6, <1>7, <1>9, SameHeader
  <1>11. OneFrame(g) BY <1>3, <1>4, <1>6, <1>10 DEF OneFrame
  <1> DEFINE raw == SubSeq(b, h + 1, h + n)
             key == SubSeq(b, h - MaskBytes + 1, h)
  <1>12. /\ raw \in Seq(Bytes) /\ Len(raw) = n /\ \A i \in 1 .. n : raw[i] = b[h + i]
    <2>1. h + 1 \in Nat \ {0} /\ h + n \in Nat /\ h + n <= Len(b) /\ h + 1 <= (h + n) + 1
      BY <1>3, <1>4, <1>5
    <2>2. (h + n) - (h + 1) + 1 = n /\ (h + 1) - 1 = h BY <1>3
    <2>3. QED BY <2>1, <2>2, Part
  <1>13. \A i \in 1 .. n : g[h + i] = b[h + i] BY <1>3, <1>4, <1>6
  <1>14. b[2] \in Nat
    <2>1. b[2] \in Bytes BY <1>1
    <2>2. QED BY <2>1, BytesAreNatural
  <1>15. Payload(b) = IF IsMasked(b) THEN ApplyMask(raw, key) ELSE raw
    BY <1>2, <1>3 DEF Payload
  <1>16. ASSUME RfcPayload(g) = Payload(b), Payload(b) \in Seq(Bytes), Len(Payload(b)) = n
         PROVE  /\ c \in 2 .. Len(b)
                /\ IsFrame(g, <<Opcode(b), Payload(b)>>)
                /\ Payload(b) \in Seq(Bytes) /\ Len(Payload(b)) = PayloadLen(b)
    <2>1. FrameIn(g) = <<Opcode(b), Payload(b)>> BY <1>8, <1>16 DEF FrameIn, Opcode
    <2>2. c \in 2 .. Len(b) BY <1>1, <1>3, <1>4, <1>5
    <2>3. QED BY <1>2, <1>3, <1>6, <1>11, <1>16, <2>1, <2>2 DEF IsFrame
  <1>17. CASE ~IsMasked(b)
    <2>1. g[2] < TopBit BY <1>8, <1>14, <1>17 DEF IsMasked, TopBit
    <2> HIDE DEF raw
    <2>2. RfcPayload(g) = [i \in 1 .. n |-> g[h + i]] BY <1>10, <2>1 DEF RfcPayload
    <2>3. RfcPayload(g) = [i \in 1 .. n |-> raw[i]] BY <1>12, <1>13, <2>2
    <2>4. RfcPayload(g) = raw BY <1>12, <2>3
    <2>5. Payload(b) = raw BY <1>15, <1>17
    <2>6. RfcPayload(g) = Payload(b) /\ Payload(b) \in Seq(Bytes) /\ Len(Payload(b)) = n
      BY <1>12, <2>4, <2>5
    <2>7. QED BY <1>16, <2>6 DEF c, g
  <1>18. CASE IsMasked(b)
    <2>1. ~(g[2] < TopBit) BY <1>8, <1>14, <1>18 DEF IsMasked, TopBit
    <2>2. h = 2 + e + MaskBytes BY <1>3, <1>18 DEF RfcHeader, IsMasked
    <2>3. /\ key \in Seq(Bytes) /\ Len(key) = MaskBytes
          /\ \A i \in 1 .. MaskBytes : key[i] = b[h - MaskBytes + i]
      <3>1. /\ h - MaskBytes + 1 \in Nat \ {0} /\ h \in Nat /\ h <= Len(b)
            /\ h - MaskBytes + 1 <= h + 1
            /\ h - (h - MaskBytes + 1) + 1 = MaskBytes
            /\ (h - MaskBytes + 1) - 1 = h - MaskBytes
        <4>1. PICK m \in Nat \ {0} : m = MaskBytes BY WidthAssumption
        <4>2. h = 2 + e + m BY <2>2, <4>1
        <4>3. /\ h - m + 1 \in Nat \ {0} /\ h - m + 1 <= h + 1
              /\ h - (h - m + 1) + 1 = m /\ (h - m + 1) - 1 = h - m
          BY <4>1, <4>2
        <4>4. h \in Nat /\ h <= Len(b) BY <1>1, <1>3, <1>4, <1>5
        <4>5. QED BY <4>1, <4>3, <4>4
      <3>2. QED BY <3>1, Part
    <2> HIDE DEF raw, key
    <2>4. key \in [1 .. MaskBytes -> Bytes] BY <2>3
    <2>5. /\ ApplyMask(raw, key) \in Seq(Bytes) /\ Len(ApplyMask(raw, key)) = n
          /\ \A i \in 1 .. n : ApplyMask(raw, key)[i] = Xor(raw[i], key[KeyIndex(i)])
      BY <1>12, <2>4, MaskedBytes
    <2>6. ASSUME NEW i \in 1 .. n
          PROVE  Xor(g[h + i], g[h - MaskBytes + 1 + ((i - 1) % MaskBytes)]) = ApplyMask(raw, key)[i]
      <3>1. KeyIndex(i) \in 1 .. MaskBytes BY KeyIndices
      <3>2. h - MaskBytes + 1 + ((i - 1) % MaskBytes) = h - MaskBytes + KeyIndex(i)
        BY <1>3, WidthAssumption DEF KeyIndex
      <3>3. key[KeyIndex(i)] = b[h - MaskBytes + KeyIndex(i)] BY <2>3, <3>1
      <3>4. h - MaskBytes + KeyIndex(i) \in 1 .. c
        <4>1. PICK k \in 1 .. MaskBytes : k = KeyIndex(i) BY <3>1
        <4>2. h - MaskBytes = 2 + e BY <1>3, <2>2, WidthAssumption
        <4>3. 2 + e + k \in 1 .. h + n
          <5>1. PICK m \in Nat \ {0} : m = MaskBytes BY WidthAssumption
          <5>2. k \in 1 .. m /\ h = 2 + e + m BY <2>2, <4>1, <5>1
          <5>3. QED BY ONLY <5>2, m \in Nat, e \in Nat, n \in Nat
        <4>4. QED BY <1>4, <4>1, <4>2, <4>3
      <3>5. g[h - MaskBytes + KeyIndex(i)] = key[KeyIndex(i)] BY <1>6, <3>3, <3>4
      <3>6. QED BY <1>12, <1>13, <2>5, <3>2, <3>5
    <2>7. RfcPayload(g) = [i \in 1 .. n |->
            Xor(g[h + i], g[h - MaskBytes + 1 + ((i - 1) % MaskBytes)])]
      BY <1>10, <2>1 DEF RfcPayload
    <2>8. RfcPayload(g) = [i \in 1 .. n |-> ApplyMask(raw, key)[i]] BY <2>6, <2>7
    <2>9. RfcPayload(g) = ApplyMask(raw, key) BY <2>5, <2>8
    <2>10. Payload(b) = ApplyMask(raw, key) BY <1>15, <1>18 DEF raw, key
    <2>11. RfcPayload(g) = Payload(b) /\ Payload(b) \in Seq(Bytes) /\ Len(Payload(b)) = n
      BY <2>5, <2>9, <2>10
    <2>12. QED BY <1>16, <2>11 DEF c, g
  <1>19. QED BY <1>17, <1>18 DEF c, g

\* Where the client waits for more bytes, no frame has ended.
LEMMA NotWhole ==
  ASSUME NEW b \in Seq(Bytes), ~IsWhole(b), NEW j \in 1 .. Len(b)
  PROVE  ~OneFrame(SubSeq(b, 1, j))
  <1> DEFINE g == SubSeq(b, 1, j)
  <1>1. g \in Seq(Bytes) /\ Len(g) = j /\ \A i \in 1 .. j : g[i] = b[i] OBVIOUS
  <1> HIDE DEF g
  <1> SUFFICES ASSUME OneFrame(g) PROVE FALSE BY DEF g
  <1>2. Begins(g, b) BY <1>1 DEF Begins
  <1>3. Len(g) >= 2 /\ Len(g) >= RfcHeader(g) /\ Len(g) = RfcHeader(g) + RfcLength(g)
    BY DEF OneFrame
  <1>4. PICK h \in Nat, n \in Nat, e \in Nat :
          h = RfcHeader(g) /\ n = RfcLength(g) /\ e = RfcExtended(g) /\ 2 + e <= h
    BY <1>1, <1>3, HeaderIsNatural
  <1>5. RfcExtended(b) = e /\ RfcHeader(b) = h /\ RfcLength(b) = n
    BY <1>1, <1>2, <1>3, <1>4, SameHeader
  <1>6. Len(b) >= 2 /\ Len(b) \in Nat /\ j = h + n BY <1>1, <1>3, <1>4
  <1>7. LengthSize(b) = e /\ HeaderSize(b) = h /\ PayloadLen(b) = n
    BY <1>5, <1>6, SameReading
  <1>8. (h + n) % SizeMod <= h + n
    <2>1. PICK m \in Nat \ {0} : m = SizeMod BY SizeIsNatural
    <2>2. \A x \in Nat : x % m <= x OBVIOUS
    <2>3. h + n \in Nat BY <1>4
    <2>4. QED BY <2>1, <2>2, <2>3
  <1>9. (h + n) % SizeMod \in Nat BY <1>4, SizeIsNatural
  <1>10. Len(b) >= (h + n) % SizeMod BY <1>4, <1>6, <1>8, <1>9
  <1>11. Len(b) >= 2 + e BY <1>4, <1>6
  <1>12. QED BY <1>6, <1>7, <1>10, <1>11 DEF IsWhole
-----------------------------------------------------------------------------
(* The reader, byte by byte.                                               *)

Reading(p, s) == CHOOSE r : r = [i \in 0 .. Len(s) |-> IF i = 0 THEN p ELSE ReadByte(r[i - 1], s[i])]

LEMMA ReadIsReading == \A p, s : Read(p, s) = Reading(p, s)[Len(s)]
  BY DEF Read, Reading

\* The recursive function of Read() exists.
LEMMA ReadingStep ==
  ASSUME NEW p, NEW s, Len(s) \in Nat
  PROVE  /\ Reading(p, s)[0] = p
         /\ \A i \in 1 .. Len(s) : Reading(p, s)[i] = ReadByte(Reading(p, s)[i - 1], s[i])
  <1> DEFINE Is(r, N) == r = [i \in 0 .. N |-> IF i = 0 THEN p ELSE ReadByte(r[i - 1], s[i])]
  <1>1. \E r : Is(r, 0)
    <2> DEFINE r == [i \in 0 .. 0 |-> p]
    <2>1. Is(r, 0) OBVIOUS
    <2>2. QED BY <2>1
  <1>2. ASSUME NEW N \in Nat, NEW r, Is(r, N) PROVE \E t : Is(t, N + 1)
    <2> DEFINE t == [i \in 0 .. N + 1 |-> IF i = N + 1 THEN ReadByte(r[N], s[N + 1]) ELSE r[i]]
    <2>1. \A i \in 0 .. N : r[i] = IF i = 0 THEN p ELSE ReadByte(r[i - 1], s[i])
      BY <1>2
    <2>2. \A i \in 0 .. N + 1 : t[i] = IF i = 0 THEN p ELSE ReadByte(t[i - 1], s[i])
      <3> TAKE i \in 0 .. N + 1
      <3>1. CASE i = N + 1
        <4>1. i # 0 /\ N \in 0 .. N + 1 /\ N # N + 1 /\ i - 1 = N BY <3>1
        <4>2. t[i] = ReadByte(r[N], s[N + 1]) /\ t[N] = r[N] BY <3>1, <4>1
        <4>3. QED BY <3>1, <4>1, <4>2
      <3>2. CASE i # N + 1
        <4>1. i \in 0 .. N /\ (i # 0 => i - 1 \in 0 .. N + 1 /\ i - 1 # N + 1)
          BY <3>2
        <4>2. t[i] = r[i] /\ (i # 0 => t[i - 1] = r[i - 1]) BY <3>2, <4>1
        <4>3. QED BY <2>1, <4>1, <4>2
      <3>3. QED BY <3>1, <3>2
    <2>3. Is(t, N + 1) BY <2>2
    <2>4. QED BY <2>3
  <1> DEFINE S == {N \in Nat : \E r : Is(r, N)}
  <1> HIDE DEF Is
  <1>3. 0 \in S /\ \A N \in S : N + 1 \in S BY <1>1, <1>2
  <1>4. Len(s) \in S BY <1>3, Induct
  <1>5. Is(Reading(p, s), Len(s)) BY <1>4 DEF Reading, Is
  <1>6. QED BY <1>5 DEF Is

Begun(b, j, F) == [got |-> SubSeq(b, 1, j), frames |-> F]

LEMMA OneMoreByte ==
  ASSUME NEW b \in Seq(Bytes), NEW j \in Nat, j + 1 <= Len(b), NEW F
  PROVE  ReadByte(Begun(b, j, F), b[j + 1]) =
           IF OneFrame(SubSeq(b, 1, j + 1))
           THEN [got |-> <<>>, frames |-> Append(F, FrameIn(SubSeq(b, 1, j + 1)))]
           ELSE Begun(b, j + 1, F)
  <1> DEFINE x == Append(SubSeq(b, 1, j), b[j + 1])
             y == SubSeq(b, 1, j + 1)
  <1>1. /\ SubSeq(b, 1, j) \in Seq(Bytes) /\ Len(SubSeq(b, 1, j)) = j
        /\ \A i \in 1 .. j : SubSeq(b, 1, j)[i] = b[i]
        /\ b[j + 1] \in Bytes
    OBVIOUS
  <1>2. /\ x \in Seq(Bytes) /\ Len(x) = j + 1 /\ x[j + 1] = b[j + 1]
        /\ \A i \in 1 .. j : x[i] = b[i]
    BY <1>1
  <1>3. y \in Seq(Bytes) /\ Len(y) = j + 1 /\ \A i \in 1 .. j + 1 : y[i] = b[i] OBVIOUS
  <1> HIDE DEF x, y
  <1>4. ASSUME NEW i \in 1 .. j + 1 PROVE x[i] = y[i]
    <2>1. CASE i = j + 1 BY <1>2, <1>3, <2>1
    <2>2. CASE i # j + 1
      <3>1. i \in 1 .. j BY <2>2
      <3>2. QED BY <1>2, <1>3, <3>1
    <2>3. QED BY <2>1, <2>2
  <1>5. x = y BY <1>2, <1>3, <1>4, SameBytes
  <1>6. Begun(b, j, F).got = SubSeq(b, 1, j) /\ Begun(b, j, F).frames = F
    BY DEF Begun
  <1>7. ReadByte(Begun(b, j, F), b[j + 1]) =
          IF OneFrame(y) THEN [got |-> <<>>, frames |-> Append(F, FrameIn(y))]
          ELSE [got |-> y, frames |-> F]
    BY <1>5, <1>6 DEF ReadByte, x
  <1>8. QED BY <1>7 DEF y, Begun

\* The reading r of bytes that are, from k to m, those of b, which begin at o.
Follows(r, o, b, k, m) == \A j \in k + 1 .. m : r[o + j] = ReadByte(r[o + j - 1], b[j])
NoEnd(b, k, m) == \A j \in k + 1 .. m : ~OneFrame(SubSeq(b, 1, j))

\* Bytes that do not end a frame are kept.
LEMMA Gathered ==
  ASSUME NEW b \in Seq(Bytes), NEW k \in Nat, NEW m \in Nat, k <= m, m <= Len(b),
         NEW r, NEW o \in Int, NEW F, r[o + k] = Begun(b, k, F),
         Follows(r, o, b, k, m), NoEnd(b, k, m)
  PROVE  r[o + m] = Begun(b, m, F)
  <1> DEFINE S == {n \in Nat : k + n <= m => r[o + (k + n)] = Begun(b, k + n, F)}
  <1>1. 0 \in S
    <2>1. k + 0 = k OBVIOUS
    <2>2. QED BY <2>1
  <1>2. ASSUME NEW n \in S PROVE n + 1 \in S
    <2> SUFFICES ASSUME k + (n + 1) <= m
                 PROVE  r[o + (k + (n + 1))] = Begun(b, k + (n + 1), F)
      OBVIOUS
    <2>1. PICK j \in Nat : j = k + n /\ k + (n + 1) = j + 1 /\ j + 1 \in k + 1 .. m /\ j + 1 <= Len(b)
      OBVIOUS
    <2>2. r[o + j] = Begun(b, j, F) BY <2>1
    <2>3. o + (j + 1) - 1 = o + j OBVIOUS
    <2>4. r[o + (j + 1)] = ReadByte(r[o + j], b[j + 1]) BY <2>1, <2>3 DEF Follows
    <2>5. ~OneFrame(SubSeq(b, 1, j + 1)) BY <2>1 DEF NoEnd
    <2>6. r[o + (j + 1)] = Begun(b, j + 1, F) BY <2>1, <2>2, <2>4, <2>5, OneMoreByte
    <2>7. QED BY <2>1, <2>6
  <1> HIDE DEF S
  <1>3. S = Nat BY <1>1, <1>2, Induct DEF S
  <1>4. PICK n \in Nat : k + n = m
    <2>1. m - k \in Nat /\ k + (m - k) = m OBVIOUS
    <2>2. QED BY <2>1
  <1>5. n \in S BY <1>3
  <1>6. QED BY <1>4, <1>5 DEF S

\* The last byte of a frame ends it.
LEMMA Ended ==
  ASSUME NEW b \in Seq(Bytes), NEW k \in Nat, NEW m \in Nat, k < m, m <= Len(b),
         NEW r, NEW o \in Int, NEW F, r[o + k] = Begun(b, k, F), Follows(r, o, b, k, m),
         OneFrame(SubSeq(b, 1, m))
  PROVE  r[o + m] = [got |-> <<>>, frames |-> Append(F, FrameIn(SubSeq(b, 1, m)))]
  <1>1. PICK n \in Nat : m = n + 1 /\ n = m - 1 /\ k <= n
    <2>1. m - 1 \in Nat /\ m = (m - 1) + 1 /\ k <= m - 1 OBVIOUS
    <2>2. QED BY <2>1
  <1>2. NoEnd(b, k, n)
    <2> SUFFICES ASSUME NEW j \in k + 1 .. n PROVE ~OneFrame(SubSeq(b, 1, j))
      BY DEF NoEnd
    <2> DEFINE s == SubSeq(b, 1, j)
               t == SubSeq(b, 1, m)
    <2>1. j \in Nat /\ j < m /\ j <= Len(b) /\ 1 <= j + 1 BY <1>1
    <2>2. s \in Seq(Bytes) /\ Len(s) = j /\ \A i \in 1 .. j : s[i] = b[i] BY <2>1
    <2>3. t \in Seq(Bytes) /\ Len(t) = m /\ \A i \in 1 .. m : t[i] = b[i] OBVIOUS
    <2> HIDE DEF s, t
    <2>4. \A i \in 1 .. j : s[i] = t[i]
      <3>1. \A i \in 1 .. j : i \in 1 .. m BY <2>1
      <3>2. QED BY <2>2, <2>3, <3>1
    <2>5. Begins(s, t) BY <2>1, <2>2, <2>3, <2>4 DEF Begins
    <2>6. OneFrame(t) BY DEF t
    <2>7. Len(s) # Len(t) BY <2>1, <2>2, <2>3
    <2>8. ~OneFrame(s) BY <2>5, <2>6, <2>7, NoFrameBegins
    <2>9. QED BY <2>8 DEF s
  <1>3. Follows(r, o, b, k, n)
    <2>1. \A j \in k + 1 .. n : j \in k + 1 .. m BY <1>1
    <2>2. QED BY <2>1 DEF Follows
  <1>4. n <= Len(b) BY <1>1
  <1>5. r[o + n] = Begun(b, n, F) BY <1>1, <1>4, <1>2, <1>3, Gathered
  <1>6. o + m - 1 = o + n /\ m \in k + 1 .. m BY <1>1
  <1>7. r[o + m] = ReadByte(r[o + n], b[m]) BY <1>6 DEF Follows
  <1>8. QED BY <1>1, <1>5, <1>7, OneMoreByte

\* A frame may be read in parts: only the last one ends it.
THEOREM PartsAreRead ==
  ASSUME NEW b \in Seq(Bytes), OneFrame(b), NEW k \in Nat, NEW n \in Nat \ {0},
         k + n <= Len(b), NEW F
  PROVE  Read(Begun(b, k, F), SubSeq(b, k + 1, k + n)) =
           IF k + n = Len(b) THEN [got |-> <<>>, frames |-> Append(F, FrameIn(b))]
           ELSE Begun(b, k + n, F)
  <1> DEFINE part == SubSeq(b, k + 1, k + n)
             p == Begun(b, k, F)
             r == Reading(p, part)
             o == 0 - k
             m == k + n
  <1>1. /\ part \in Seq(Bytes) /\ Len(part) = n /\ \A i \in 1 .. n : part[i] = b[k + i]
    <2>1. PICK e \in Nat : e = k + n OBVIOUS
    <2>2. k <= e /\ e <= Len(b) BY <2>1
    <2>3. PICK l \in Nat : e = k + l /\ IsPart(SubSeq(b, k + 1, e), b, k, l) BY <2>2, PartBetween
    <2>4. l = n BY <2>1, <2>3
    <2>5. QED BY <2>1, <2>3, <2>4 DEF IsPart
  <1> HIDE DEF part
  <1>2. r[0] = p /\ \A i \in 1 .. n : r[i] = ReadByte(r[i - 1], part[i])
    BY <1>1, ReadingStep
  <1>3. Read(p, part) = r[n] BY <1>1, ReadIsReading
  <1> HIDE DEF r, p
  <1>4. o \in Int /\ o + k = 0 /\ o + m = n /\ m \in Nat /\ k < m /\ k <= m /\ m <= Len(b)
    OBVIOUS
  <1>5. Follows(r, o, b, k, m)
    <2> SUFFICES ASSUME NEW j \in k + 1 .. m PROVE r[o + j] = ReadByte(r[o + j - 1], b[j])
      BY DEF Follows
    <2>1. PICK i \in 1 .. n : j = k + i
      <3>1. j - k \in 1 .. n /\ j = k + (j - k) OBVIOUS
      <3>2. QED BY <3>1
    <2>2. o + j = i /\ o + j - 1 = i - 1 BY <2>1
    <2>3. QED BY <1>1, <1>2, <2>1, <2>2
  <1> HIDE DEF o
  <1>6. r[o + k] = Begun(b, k, F) BY <1>2, <1>4 DEF p
  <1>7. CASE m = Len(b)
    <2>1. SubSeq(b, 1, m) = b BY <1>7, SubSeqFull
    <2>2. OneFrame(SubSeq(b, 1, m)) BY <2>1
    <2>3. r[o + m] = [got |-> <<>>, frames |-> Append(F, FrameIn(SubSeq(b, 1, m)))]
      <3> HIDE DEF m
      <3>1. QED BY <1>4, <1>5, <1>6, <2>2, Ended
    <2>4. QED BY <1>3, <1>4, <1>7, <2>1, <2>3 DEF p, part
  <1>8. CASE m # Len(b)
    <2>1. NoEnd(b, k, m)
      <3> SUFFICES ASSUME NEW j \in k + 1 .. m PROVE ~OneFrame(SubSeq(b, 1, j))
        BY DEF NoEnd
      <3> DEFINE s == SubSeq(b, 1, j)
      <3>1. j \in Nat /\ j < Len(b) BY <1>4, <1>8
      <3>2. s \in Seq(Bytes) /\ Len(s) = j /\ \A i \in 1 .. j : s[i] = b[i] BY <3>1
      <3> HIDE DEF s
      <3>3. Begins(s, b) /\ Len(s) # Len(b) BY <3>1, <3>2 DEF Begins
      <3>4. QED BY <3>3, NoFrameBegins DEF s
    <2>2. r[o + m] = Begun(b, m, F)
      <3> HIDE DEF m
      <3>1. QED BY <1>4, <1>5, <1>6, <2>1, Gathered
    <2>3. QED BY <1>3, <1>4, <1>8, <2>2 DEF p, part
  <1>9. QED BY <1>7, <1>8

\* The reader p, which has read u of the bytes s and the frames F, reads next
\* the frame that the client finds in a, which it has of the first n of them.
ReadsNext(p, s, u, n, F, a) ==
  \E c \in 2 .. n - u :
    /\ Rest(a) = SubSeq(s, u + c + 1, n)
    /\ Reading(p, s)[u + c] =
         [got |-> <<>>, frames |-> Append(F, <<Opcode(a), Payload(a)>>)]

\* It has read n bytes of s: the frames F and the part g of the next.
HasRead(p, s, n, g, F) == Reading(p, s)[n] = [got |-> g, frames |-> F]

\* The client and the reader take the same frames from the same bytes: s is
\* what was sent, a what the client has of it in its buffer, F the frames read
\* before.
THEOREM DecodedIsRead ==
  ASSUME NEW s \in Seq(Bytes), NEW p, NEW u \in Nat, NEW n \in Nat, u <= n, n <= Len(s),
         NEW F, Reading(p, s)[u] = [got |-> <<>>, frames |-> F],
         NEW a, a = SubSeq(s, u + 1, n)
  PROVE  /\ IsWhole(a) /\ Fits(a) => ReadsNext(p, s, u, n, F, a)
         /\ ~IsWhole(a) => HasRead(p, s, n, a, F)
  <1> DEFINE r == Reading(p, s)
  <1>1. a \in Seq(Bytes) /\ Len(a) = n - u /\ \A i \in 1 .. n - u : a[i] = s[u + i]
    <2>1. PICK m \in Nat : n = u + m /\ IsPart(a, s, u, m) BY PartBetween
    <2>2. n - u = m BY <2>1
    <2>3. QED BY <2>1, <2>2 DEF IsPart
  <1>2. \A i \in 1 .. Len(s) : r[i] = ReadByte(r[i - 1], s[i])
    <2>1. Len(s) \in Nat OBVIOUS
    <2>2. QED BY ONLY <2>1, ReadingStep
  <1>3. r[u + 0] = Begun(a, 0, F)
    <2>1. SubSeq(a, 1, 0) = <<>> BY <1>1
    <2>2. QED BY <2>1 DEF Begun
  <1> HIDE DEF r
  <1>4. \A m \in 0 .. n - u : Follows(r, u, a, 0, m)
    <2> SUFFICES ASSUME NEW m \in 0 .. n - u, NEW j \in 0 + 1 .. m
                 PROVE  r[u + j] = ReadByte(r[u + j - 1], a[j])
      BY DEF Follows
    <2>1. j \in 1 .. n - u /\ u + j \in 1 .. Len(s) OBVIOUS
    <2>2. QED BY <1>1, <1>2, <2>1
  <1>5. ASSUME IsWhole(a), Fits(a), NEW c, c = HeaderSize(a) + PayloadLen(a)
        PROVE  /\ c \in 2 .. n - u /\ Rest(a) = SubSeq(s, u + c + 1, n)
               /\ r[u + c] = [got |-> <<>>, frames |-> Append(F, <<Opcode(a), Payload(a)>>)]
    <2>1. /\ c \in 2 .. Len(a)
          /\ IsFrame(SubSeq(a, 1, c), <<Opcode(a), Payload(a)>>)
      BY <1>1, <1>5, WholeIsFrame
    <2>2. c \in Nat /\ 0 < c /\ c <= Len(a) /\ c \in 0 .. n - u /\ c \in 2 .. n - u
      BY <1>1, <2>1
    <2>3. OneFrame(SubSeq(a, 1, c)) /\ FrameIn(SubSeq(a, 1, c)) = <<Opcode(a), Payload(a)>>
      BY <2>1 DEF IsFrame
    <2>4. Follows(r, u, a, 0, c) BY <1>4, <2>2
    <2>5. r[u + c] = [got |-> <<>>, frames |-> Append(F, FrameIn(SubSeq(a, 1, c)))]
      <3>1. 0 \in Nat /\ u \in Int OBVIOUS
      <3>2. 0 < c /\ c <= Len(a) /\ c \in Nat BY <2>2
      <3>3. OneFrame(SubSeq(a, 1, c)) BY <2>3
      <3>4. a \in Seq(Bytes) BY <1>1
      <3>5. QED BY ONLY <1>3, <2>4, <3>1, <3>2, <3>3, <3>4, Ended
    <2>6. PICK m \in Nat : m = n - u - c /\ c + m = Len(a) /\ u + c + m = n
      <3>1. PICK l \in Nat, d \in Nat : l = Len(a) /\ l = n - u /\ d = c /\ d <= l
        <4>1. Len(a) \in Nat /\ Len(a) = n - u /\ c \in Nat /\ c <= Len(a)
          BY <1>1, <2>2
        <4>2. QED BY ONLY <4>1
      <3>2. l - d \in Nat /\ l - d = n - u - d /\ d + (l - d) = l /\ u + d + (l - d) = n
        BY ONLY <3>1, u \in Nat, n \in Nat
      <3>3. QED BY <3>1, <3>2
    <2>7. Rest(a) = SubSeq(s, u + c + 1, n)
      <3> DEFINE x == SubSeq(a, c + 1, Len(a))
                 y == SubSeq(s, u + c + 1, n)
      <3>1. Rest(a) = x BY <1>5 DEF Rest
      <3>2. /\ x \in Seq(Bytes) /\ Len(x) = m /\ \A i \in 1 .. m : x[i] = a[c + i]
        <4>1. c \in Nat /\ Len(a) \in Nat /\ c + m = Len(a) /\ a \in Seq(Bytes) BY <1>1, <2>2, <2>6
        <4>2. c <= Len(a) /\ Len(a) <= Len(a) BY <4>1
        <4>3. PICK k \in Nat : Len(a) = c + k /\ IsPart(x, a, c, k) BY <4>1, <4>2, PartBetween
        <4>4. k = m BY ONLY <4>1, <4>3, m \in Nat
        <4>5. QED BY <4>3, <4>4 DEF IsPart
      <3>3. /\ y \in Seq(Bytes) /\ Len(y) = m
            /\ \A i \in 1 .. m : y[i] = s[u + c + i]
        <4>1. PICK v \in Nat : v = u + c /\ n = v + m
          <5>1. c \in Nat /\ u + c + m = n BY <2>2, <2>6
          <5>2. u + c \in Nat /\ n = (u + c) + m BY ONLY <5>1, u \in Nat, m \in Nat
          <5>3. QED BY ONLY <5>2
        <4>2. /\ SubSeq(s, v + 1, n) \in Seq(Bytes) /\ Len(SubSeq(s, v + 1, n)) = m
              /\ \A i \in 1 .. m : SubSeq(s, v + 1, n)[i] = s[v + i]
          <5>1. /\ v + 1 \in Nat \ {0} /\ v + 1 <= n + 1
                /\ n - (v + 1) + 1 = m /\ (v + 1) - 1 = v
            <6>1. n = v + m BY <4>1
            <6>2. QED BY ONLY <6>1, v \in Nat, m \in Nat
          <5>2. QED BY <5>1, Part
        <4>3. QED BY <4>1, <4>2
      <3> HIDE DEF x, y
      <3>4. ASSUME NEW i \in 1 .. m PROVE x[i] = y[i]
        <4>1. c \in Nat /\ c + m = Len(a) /\ Len(a) = n - u BY <1>1, <2>2, <2>6
        <4>2. c + i \in 1 .. n - u /\ u + (c + i) = u + c + i
          BY ONLY <4>1, u \in Nat, n \in Nat, m \in Nat, i \in 1 .. m
        <4>3. a[c + i] = s[u + (c + i)] BY <1>1, <4>2
        <4>4. QED BY <3>2, <3>3, <4>2, <4>3
      <3>5. x = y BY <3>2, <3>3, <3>4, SameBytes
      <3>6. QED BY <3>1, <3>5 DEF y
    <2>8. QED BY <2>2, <2>3, <2>5, <2>7
  <1>6. ASSUME ~IsWhole(a) PROVE r[n] = [got |-> a, frames |-> F]
    <2>1. PICK m \in Nat : m = Len(a) /\ u + m = n /\ m \in 0 .. n - u /\ 0 <= m
      <3>1. PICK m \in Nat : m = n - u
        <4>1. n - u \in Nat OBVIOUS
        <4>2. QED BY <4>1
      <3>2. u + m = n /\ m \in 0 .. n - u /\ 0 <= m
        BY ONLY <3>1, m \in Nat, n \in Nat, u \in Nat
      <3>3. QED BY <1>1, <3>1, <3>2
    <2>2. NoEnd(a, 0, m)
      <3> SUFFICES ASSUME NEW j \in 0 + 1 .. m PROVE ~OneFrame(SubSeq(a, 1, j))
        BY DEF NoEnd
      <3>1. j \in 1 .. Len(a) BY <2>1
      <3>2. QED BY <1>1, <1>6, <3>1, NotWhole
    <2>3. Follows(r, u, a, 0, m) BY <1>4, <2>1
    <2>4. r[u + m] = Begun(a, m, F)
      <3>1. 0 \in Nat /\ u \in Int OBVIOUS
      <3>2. a \in Seq(Bytes) BY <1>1
      <3>3. m \in Nat /\ 0 <= m /\ m <= Len(a) BY <1>1, <2>1
      <3>4. QED BY ONLY <1>3, <2>2, <2>3, <3>1, <3>2, <3>3, Gathered
    <2>5. SubSeq(a, 1, m) = a BY <1>1, <2>1, SubSeqFull
    <2>6. QED BY <2>1, <2>4, <2>5 DEF Begun
  <1>7. ASSUME IsWhole(a), Fits(a) PROVE ReadsNext(p, s, u, n, F, a)
    <2>1. PICK c : c = HeaderSize(a) + PayloadLen(a) OBVIOUS
    <2>2. QED BY <1>5, <1>7, <2>1 DEF ReadsNext, r
  <1>8. QED BY <1>6, <1>7 DEF HasRead, r
=============================================================================
