---------------------------- MODULE DataPathProofs -----------------------------
(***************************************************************************)
(* Proofs about module DataPath, for every file, name and pair of sizes:   *)
(* what the checksum is worth, what the receivers take out of a PDU, and   *)
(* that the chunks put together are the file.                              *)
(***************************************************************************)
EXTENDS DataPath, SequenceTheorems, Induction

(***************************************************************************)
(* The checksum.                                                           *)
(***************************************************************************)
\* The partial sums of in_cksum()'s loop.
PartialSums(f, bytes) ==
  /\ f \in [0..Len(bytes) -> Int]
  /\ f[0] = 0
  /\ \A k \in 1..Len(bytes) : f[k] = f[k - 1] + Weight(k) * bytes[k]

\* What a byte is worth in the sum.
LEMMA ByteWorth ==
  ASSUME NEW k, NEW b \in Byte
  PROVE  /\ Weight(k) \in {1, 256}
         /\ Weight(k) * b \in Int /\ 0 <= Weight(k) * b /\ Weight(k) * b <= 65280
<1>1. Weight(k) = 1 \/ Weight(k) = 256
  BY DEF Weight
<1>2. b \in Int /\ 0 <= b /\ b <= 255
  BY DEF Byte
<1> HIDE DEF Weight
<1>3. QED
  BY <1>1, <1>2

LEMMA WordSumIsSum ==
  ASSUME NEW bytes \in Seq(Byte)
  PROVE  \E f : PartialSums(f, bytes) /\ WordSum(bytes) = f[Len(bytes)]
<1> DEFINE n == Len(bytes)
           term(k) == Weight(k) * bytes[k]
           step == [k \in 1..n |-> [x \in Int |-> x + term(k)]]
           Rounds(g) == [k \in 0..n |-> IF k = 0 THEN 0 ELSE g[k - 1] + term(k)]
           sum == CHOOSE g : g = Rounds(g)
<1>1. n \in Nat
  BY LenProperties
<1>2. \A k \in 1..n : term(k) \in Int
  <2>1. \A k \in 1..n : bytes[k] \in Byte
    BY ElementOfSeq
  <2>2. QED
    BY <2>1, ByteWorth
<1>3. WordSum(bytes) = sum[n]
  BY DEF WordSum
<1> HIDE DEF n, term
<1>4. PICK f \in [0..n -> Int] : f[0] = 0 /\ \A k \in 1..n : f[k] = step[k][f[k - 1]]
  <2> DEFINE S == Int
             base == 0
  <2>1. step \in [1..n -> [S -> S]] /\ base \in S
    BY <1>2
  <2> HIDE DEF step, S, base
  <2>2. PICK f : LoopRun(f, n, S, base, step)
    BY <1>1, <2>1, LoopRuns
  <2>3. f \in [0..n -> S] /\ f[0] = base /\ \A k \in 1..n : f[k] = step[k][f[k - 1]]
    BY <2>2 DEF LoopRun
  <2>4. QED
    BY <2>3 DEF S, base
<1>5. \A k \in 1..n : f[k] = f[k - 1] + term(k)
  <2> TAKE k \in 1..n
  <2>1. f[k - 1] \in Int
    BY <1>1, <1>4
  <2>2. step[k][f[k - 1]] = f[k - 1] + term(k)
    BY <2>1
  <2>3. QED
    BY <1>4, <2>2
<1>6. f = Rounds(f)
  <2>1. \A k \in 0..n : f[k] = Rounds(f)[k]
    BY <1>1, <1>4, <1>5
  <2>2. DOMAIN f = 0..n /\ DOMAIN Rounds(f) = 0..n
    BY <1>4
  <2>3. QED
    BY <1>4, <2>1, <2>2
<1>7. sum = Rounds(sum)
  <2> HIDE DEF Rounds
  <2>1. QED
    BY <1>6
<1> HIDE DEF sum
<1>8. \A k \in 0..n : sum[k] = IF k = 0 THEN 0 ELSE sum[k - 1] + term(k)
  BY <1>7
<1> DEFINE P == {k \in 0..n : sum[k] \in Int}
<1>9. \A k \in 0..n : k \in P
  <2>1. 0 \in P
    BY <1>1, <1>8
  <2>2. ASSUME NEW k \in 1..n, k - 1 \in P PROVE k \in P
    BY SMTT(30), <1>1, <1>2, <1>8, <2>2
  <2> HIDE DEF P
  <2>3. QED
    BY <1>1, <2>1, <2>2, InductionUpTo
<1>10. sum \in [0..n -> Int]
  BY <1>7, <1>9
<1>11. PartialSums(sum, bytes)
  BY <1>1, <1>8, <1>10 DEF PartialSums, n, term
<1>12. QED
  BY <1>3, <1>11 DEF n

LEMMA WordSumBounds ==
  ASSUME NEW bytes \in Seq(Byte)
  PROVE  WordSum(bytes) \in Nat /\ WordSum(bytes) <= 65280 * Len(bytes)
<1> DEFINE n == Len(bytes)
<1>1. PICK f : PartialSums(f, bytes) /\ WordSum(bytes) = f[n]
  BY WordSumIsSum
<1>2. n \in Nat
  BY LenProperties
<1>3. /\ f \in [0..n -> Int] /\ f[0] = 0
      /\ \A k \in 1..n : f[k] = f[k - 1] + Weight(k) * bytes[k]
  BY <1>1 DEF PartialSums
<1>4. \A k \in 1..n : /\ Weight(k) * bytes[k] \in Int
                      /\ 0 <= Weight(k) * bytes[k] /\ Weight(k) * bytes[k] <= 65280
  BY ElementOfSeq, ByteWorth
<1> HIDE DEF n
<1> DEFINE P == {k \in 0..n : 0 <= f[k] /\ f[k] <= 65280 * k}
<1>5. 0 \in P
  BY <1>2, <1>3
<1>6. ASSUME NEW k \in 1..n, k - 1 \in P PROVE k \in P
  <2> DEFINE t == Weight(k) * bytes[k]
  <2>1. f[k] = f[k - 1] + t /\ t \in Int /\ 0 <= t /\ t <= 65280
    BY <1>3, <1>4
  <2> HIDE DEF t
  <2>2. f[k - 1] \in Int /\ f[k] \in Int
    BY <1>2, <1>3
  <2>3. QED
    BY <1>6, <2>1, <2>2
<1>7. \A k \in 0..n : k \in P
  <2> HIDE DEF P
  <2>1. QED
    BY <1>2, <1>5, <1>6, InductionUpTo
<1>8. n \in 0..n
  BY <1>2
<1>9. QED
  BY <1>1, <1>3, <1>7, <1>8 DEF n

\* One changed byte changes the sum by what the change is worth at its place.
LEMMA WordSumUpdate ==
  ASSUME NEW bytes \in Seq(Byte), NEW i \in 1..Len(bytes), NEW b \in Byte
  PROVE  WordSum([bytes EXCEPT ![i] = b])
           = WordSum(bytes) + (Weight(i) * b - Weight(i) * bytes[i])
<1> DEFINE n   == Len(bytes)
           new == [bytes EXCEPT ![i] = b]
           d   == Weight(i) * b - Weight(i) * bytes[i]
<1>1. /\ new \in Seq(Byte) /\ Len(new) = n /\ n \in Nat
      /\ \A k \in 1..n : new[k] = IF k = i THEN b ELSE bytes[k]
  BY ExceptSeq, LenProperties
<1>2. PICK f : PartialSums(f, bytes) /\ WordSum(bytes) = f[n]
  BY WordSumIsSum
<1>3. PICK g : PartialSums(g, new) /\ WordSum(new) = g[n]
  BY <1>1, WordSumIsSum
<1>4. /\ f \in [0..n -> Int] /\ f[0] = 0 /\ g \in [0..n -> Int] /\ g[0] = 0
      /\ \A k \in 1..n : f[k] = f[k - 1] + Weight(k) * bytes[k]
      /\ \A k \in 1..n : g[k] = g[k - 1] + Weight(k) * new[k]
  BY <1>1, <1>2, <1>3 DEF PartialSums
<1>5. /\ \A k \in 1..n : Weight(k) * bytes[k] \in Int
      /\ Weight(i) * b \in Int
  BY ElementOfSeq, ByteWorth
<1>6. \A k \in 1..n : g[k] = g[k - 1] + (IF k = i THEN Weight(i) * b
                                         ELSE Weight(k) * bytes[k])
  BY <1>1, <1>4
<1>7. d \in Int /\ Weight(i) * b = Weight(i) * bytes[i] + d /\ i \in 1..n
  BY <1>5
<1> HIDE DEF n, new, d
<1> DEFINE P == {k \in 0..n : g[k] = f[k] + (IF k < i THEN 0 ELSE d)}
<1>8. 0 \in P
  BY <1>1, <1>4, <1>7
<1>9. ASSUME NEW k \in 1..n, k - 1 \in P PROVE k \in P
  <2> DEFINE t == Weight(k) * bytes[k]
  <2>1. f[k] = f[k - 1] + t /\ g[k] = g[k - 1] + (IF k = i THEN t + d ELSE t)
    BY <1>4, <1>6, <1>7
  <2>2. t \in Int
    BY <1>5 DEF n
  <2> HIDE DEF t
  <2>3. /\ f[k - 1] \in Int /\ g[k - 1] \in Int
        /\ g[k - 1] = f[k - 1] + (IF k - 1 < i THEN 0 ELSE d)
    BY <1>1, <1>4, <1>9
  <2>4. CASE k < i
    BY <1>7, <2>1, <2>2, <2>3, <2>4
  <2>5. CASE k = i
    BY <1>7, <2>1, <2>2, <2>3, <2>5
  <2>6. CASE k > i
    BY <1>7, <2>1, <2>2, <2>3, <2>6
  <2>7. QED
    BY <1>7, <2>4, <2>5, <2>6
<1>10. \A k \in 0..n : k \in P
  <2> HIDE DEF P
  <2>1. QED
    BY <1>1, <1>8, <1>9, InductionUpTo
<1>11. g[n] = f[n] + d
  BY <1>1, <1>7, <1>10
<1>12. QED
  BY <1>2, <1>3, <1>11 DEF new, d

\* The folded sum and its complement differ from the sum by multiples of 65535.
Folded(sum, c) == \E q \in Nat : sum = 65535 * q + (65535 - c)

LEMMA ComplementOfSum ==
  ASSUME NEW sum \in Nat, sum < 65536 * 65536
  PROVE  /\ Complement(sum) \in Nat /\ Complement(sum) <= 65535
         /\ Folded(sum, Complement(sum))
         /\ sum > 0 => Complement(sum) < 65535
<1> DEFINE hi == sum \div 65536
           lo == sum % 65536
           fold == hi + lo
           R == (fold + (fold \div 65536)) % 65536
<1>1. hi \in Nat /\ lo \in Nat /\ lo <= 65535 /\ sum = 65536 * hi + lo /\ hi <= 65535
  BY SMT, DivMod
<1>2. Complement(sum) = 65535 - R
  BY SMT DEF Complement
<1> HIDE DEF hi, lo
<1>3. fold \in Nat /\ fold <= 131070 /\ hi <= fold /\ sum = 65535 * hi + fold
  BY SMT, <1>1
<1> HIDE DEF fold
<1>4. /\ R \in Nat /\ R <= 65535 /\ (sum > 0 => R > 0)
      /\ sum = 65535 * hi + R \/ sum = 65535 * (hi + 1) + R
  <2>1. CASE fold < 65536
    <3>1. R = fold
      BY SMT, <1>3, <2>1
    <3> HIDE DEF R
    <3>2. QED
      BY SMT, <1>1, <1>3, <2>1, <3>1
  <2>2. CASE fold >= 65536
    <3>1. fold \div 65536 = 1
      BY SMT, <1>3, <2>2
    <3>2. R = fold + 1 - 65536
      BY SMT, <1>3, <2>2, <3>1
    <3> HIDE DEF R
    <3>3. QED
      BY SMT, <1>1, <1>3, <2>2, <3>2
  <2>3. QED
    BY SMT, <1>3, <2>1, <2>2
<1> HIDE DEF R
<1>5. /\ Complement(sum) \in Nat /\ Complement(sum) <= 65535 /\ (sum > 0 => Complement(sum) < 65535)
      /\ R = 65535 - Complement(sum)
  BY SMT, <1>2, <1>4
<1>6. \E q \in Nat : sum = 65535 * q + (65535 - Complement(sum))
  <2>0. hi \in Nat
    BY SMT, <1>1
  <2>1. CASE sum = 65535 * hi + R
    <3>1. hi \in Nat
      BY SMT, <2>0
    <3> WITNESS hi \in Nat
    <3>2. QED
      BY SMT, <1>5, <2>0, <2>1
  <2>2. CASE sum = 65535 * (hi + 1) + R
    <3>1. hi + 1 \in Nat
      BY SMT, <2>0
    <3> WITNESS hi + 1 \in Nat
    <3>2. QED
      BY SMT, <1>5, <2>0, <2>2
  <2>3. QED
    BY SMT, <1>4, <2>1, <2>2
<1>7. QED
  BY SMT, <1>5, <1>6 DEF Folded

(***************************************************************************)
(* The layout of a PDU.                                                    *)
(***************************************************************************)
\* The four bytes of a number, and the number they are taken for.
LEMMA NtohlHtonl ==
  ASSUME NEW n \in Nat
  PROVE  /\ Htonl(n) \in Seq(Byte) /\ Len(Htonl(n)) = 4
         /\ n < 65536 * 65536 =>
              n = 16777216 * Htonl(n)[1] + 65536 * Htonl(n)[2]
                    + 256 * Htonl(n)[3] + Htonl(n)[4]
<1>1. \A a \in Nat : a % 256 \in Byte
  BY SMT, DivMod DEF Byte
<1>2. n \div 16777216 \in Nat /\ n \div 65536 \in Nat /\ n \div 256 \in Nat
  BY SMT
<1>3. Htonl(n) \in Seq(Byte) /\ Len(Htonl(n)) = 4
  BY SMT, <1>1, <1>2 DEF Htonl
<1>4. ASSUME n < 65536 * 65536
      PROVE  n = 16777216 * ((n \div 16777216) % 256) + 65536 * ((n \div 65536) % 256)
                    + 256 * ((n \div 256) % 256) + (n % 256)
  <2> DEFINE a == n \div 256
             b == a \div 256
             c == b \div 256
  <2>0. \A x \in Nat : /\ x \div 256 \in Nat /\ x = 256 * (x \div 256) + (x % 256)
                       /\ x % 256 \in Nat /\ x % 256 <= 255
    BY SMT
  <2>1. a \in Nat /\ n = 256 * a + (n % 256) /\ n % 256 \in Nat /\ n % 256 <= 255
    BY SMT, <2>0
  <2>2. a = n \div 256
    BY SMT
  <2> HIDE DEF a
  <2>3. b \in Nat /\ a = 256 * b + (a % 256) /\ a % 256 \in Nat /\ a % 256 <= 255
    BY SMT, <2>0, <2>1
  <2>4. b = n \div 65536
    <3> HIDE DEF b
    <3>1. QED
      BY SMT, <2>1, <2>3
  <2> HIDE DEF b
  <2>5. c \in Nat /\ b = 256 * c + (b % 256) /\ b % 256 \in Nat /\ b % 256 <= 255
    BY SMT, <2>0, <2>3
  <2>6. c = n \div 16777216
    <3> HIDE DEF c
    <3>1. QED
      BY SMT, <2>1, <2>3, <2>5
  <2> HIDE DEF c
  <2>7. c < 256
    BY SMT, <1>4, <2>1, <2>3, <2>5
  <2>8. c % 256 = c
    BY SMT, <2>5, <2>7
  <2>9. n = 16777216 * c + 65536 * (b % 256) + 256 * (a % 256) + (n % 256)
    BY SMT, <2>1, <2>3, <2>5
  <2>10. QED
    BY SMT, <2>2, <2>4, <2>6, <2>8, <2>9
<1>5. QED
  BY SMT, <1>3, <1>4 DEF Htonl

LEMMA Htons16 ==
  ASSUME NEW n \in Nat
  PROVE  /\ Htons(n) \in Seq(Byte) /\ Len(Htons(n)) = 2
         /\ Htons(n)[1] = (n \div 256) % 256 /\ Htons(n)[2] = n % 256
<1>1. \A a \in Nat : a % 256 \in Byte
  BY SMT, DivMod DEF Byte
<1>2. n \div 256 \in Nat
  BY SMT
<1>3. QED
  BY SMT, <1>1, <1>2 DEF Htons

\* The same without the two bytes' values.
LEMMA HtonsIsTwoBytes ==
  ASSUME NEW n \in Nat
  PROVE  Htons(n) \in Seq(Byte) /\ Len(Htons(n)) = 2
BY Zenon, Htons16

\* A checksum fits its field, however long the PDU is.
LEMMA ComplementIsWord ==
  ASSUME NEW sum \in Nat
  PROVE  Complement(sum) \in Nat /\ Complement(sum) <= 65535
<1>1. \A x \in Nat : x \div 65536 \in Nat /\ x % 65536 \in Nat /\ x % 65536 <= 65535
  BY SMT
<1>2. \A x, y \in Nat : x + y \in Nat
  BY SMT
<1> DEFINE fold == (sum \div 65536) + (sum % 65536)
           R == (fold + (fold \div 65536)) % 65536
<1>3. fold \in Nat
  BY SMT, <1>1, <1>2
<1> HIDE DEF fold
<1>4. R \in Nat /\ R <= 65535
  BY SMT, <1>1, <1>2, <1>3
<1> HIDE DEF R
<1>5. Complement(sum) = 65535 - R
  BY SMT DEF Complement, fold, R
<1>6. QED
  BY SMT, <1>4, <1>5

\* The two bytes of a 16-bit field.
LEMMA FieldBytes ==
  ASSUME NEW w \in Nat, w <= 65535
  PROVE  /\ w % 256 \in Nat /\ w % 256 <= 255 /\ w \div 256 \in Nat /\ w \div 256 <= 255
         /\ w = (w % 256) + 256 * (w \div 256)
         /\ w % 256 \in Byte /\ w \div 256 \in Byte
<1>1. /\ w % 256 \in Nat /\ w % 256 <= 255 /\ w \div 256 \in Nat /\ w \div 256 <= 255
      /\ w = (w % 256) + 256 * (w \div 256)
  BY SMT
<1>2. \A x \in Nat : x <= 255 => x \in Byte
  BY SMT DEF Byte
<1>3. QED
  BY SMT, <1>1, <1>2

\* A PDU before its checksum is filled in.
Zeroed(n, flag, payload) == Htonl(n) \o <<0, 0, flag>> \o payload

Laid(z, n, flag, p) ==
  /\ z \in Seq(Byte) /\ Len(z) = 7 + Len(p)
  /\ \A i \in 1..4 : z[i] = Htonl(n)[i]
  /\ z[5] = 0 /\ z[6] = 0 /\ z[7] = flag
  /\ \A i \in 1..Len(p) : z[7 + i] = p[i]

LEMMA ZeroedLayout ==
  ASSUME NEW n \in Nat, NEW flag \in Byte, NEW p \in Seq(Byte)
  PROVE  Laid(Zeroed(n, flag, p), n, flag, p)
<1> DEFINE h == Htonl(n)
           m == <<0, 0, flag>>
           a == h \o m
           z == a \o p
<1>1. h \in Seq(Byte) /\ Len(h) = 4
  BY SMT, NtohlHtonl
<1>2. 0 \in Byte
  BY SMT DEF Byte
<1>3. m \in Seq(Byte) /\ Len(m) = 3 /\ m[1] = 0 /\ m[2] = 0 /\ m[3] = flag
  BY SMT, <1>2
<1> HIDE DEF h, m
<1>4. /\ a \in Seq(Byte) /\ Len(a) = 7
      /\ \A i \in 1..7 : a[i] = IF i <= 4 THEN h[i] ELSE m[i - 4]
  <2>1. /\ h \o m \in Seq(Byte) /\ Len(h \o m) = Len(h) + Len(m)
        /\ \A i \in 1..(Len(h) + Len(m)) :
             (h \o m)[i] = IF i <= Len(h) THEN h[i] ELSE m[i - Len(h)]
    BY <1>1, <1>3, ConcatProperties
  <2>2. Len(h) = 4 /\ Len(m) = 3
    BY SMT, <1>1, <1>3
  <2> HIDE DEF a
  <2>3. QED
    BY SMT, <2>1, <2>2 DEF a
<1>5. (\A i \in 1..4 : a[i] = h[i]) /\ a[5] = 0 /\ a[6] = 0 /\ a[7] = flag
  BY SMTT(30), <1>3, <1>4
<1> HIDE DEF a
<1>6. /\ z \in Seq(Byte) /\ Len(z) = 7 + Len(p)
      /\ \A i \in 1..(7 + Len(p)) : z[i] = IF i <= 7 THEN a[i] ELSE p[i - 7]
  <2>1. /\ a \o p \in Seq(Byte) /\ Len(a \o p) = Len(a) + Len(p)
        /\ \A i \in 1..(Len(a) + Len(p)) :
             (a \o p)[i] = IF i <= Len(a) THEN a[i] ELSE p[i - Len(a)]
    BY <1>4, ConcatProperties
  <2>2. QED
    BY SMT, <1>4, <2>1
<1> HIDE DEF z
<1>7. Len(p) \in Nat
  BY SMT, LenProperties
<1>8. /\ \A i \in 1..4 : z[i] = h[i]
      /\ z[5] = 0 /\ z[6] = 0 /\ z[7] = flag
  BY SMT, <1>5, <1>6, <1>7
<1>9. ASSUME NEW i \in 1..Len(p) PROVE z[7 + i] = p[i]
  <2>1. 7 + i \in 1..(7 + Len(p)) /\ ~(7 + i <= 7) /\ (7 + i) - 7 = i
    BY SMT, <1>7
  <2>2. QED
    BY SMTT(30), <1>6, <2>1
<1>10. Zeroed(n, flag, p) = z
  BY SMT DEF Zeroed, z, a, h, m
<1>11. Laid(z, n, flag, p)
  BY SMT, <1>6, <1>8, <1>9 DEF Laid, h
<1>12. QED
  BY SMT, <1>10, <1>11

\* The checksum that createPDU() writes.
Checksum(n, flag, p) == in_cksum(Zeroed(n, flag, p))

Filled(pdu, z, w) ==
  /\ w \in Nat /\ w <= 65535
  /\ pdu = [[z EXCEPT ![5] = w % 256] EXCEPT ![6] = w \div 256]
  /\ pdu \in Seq(Byte) /\ Len(pdu) = Len(z)
  /\ \A i \in 1..Len(z) :
       pdu[i] = IF i = 6 THEN w \div 256 ELSE IF i = 5 THEN w % 256 ELSE z[i]

LEMMA PduLayout ==
  ASSUME NEW n \in Nat, NEW flag \in Byte, NEW p \in Seq(Byte)
  PROVE  Filled(createPDU(n, flag, p), Zeroed(n, flag, p), Checksum(n, flag, p))
<1> DEFINE z == Zeroed(n, flag, p)
           w == Checksum(n, flag, p)
           a == [z EXCEPT ![5] = w % 256]
           b == [a EXCEPT ![6] = w \div 256]
<1>1. z \in Seq(Byte) /\ Len(z) = 7 + Len(p) /\ Len(p) \in Nat
  <2>1. Laid(z, n, flag, p)
    BY SMT, ZeroedLayout
  <2>2. QED
    BY SMT, <2>1, LenProperties DEF Laid
<1>2. w \in Nat /\ w <= 65535
  BY SMT, <1>1, WordSumBounds, ComplementIsWord DEF Checksum, in_cksum
<1>3. createPDU(n, flag, p) = [z EXCEPT ![5] = w % 256, ![6] = w \div 256]
  BY SMT DEF createPDU, WithChecksum, Zeroed, Checksum
<1>4. createPDU(n, flag, p) = b
  BY SMT, <1>3
<1>5. w % 256 \in Byte /\ w \div 256 \in Byte
  BY SMT, <1>2, FieldBytes
<1> HIDE DEF z, w
<1>6. 5 \in 1..Len(z) /\ 6 \in 1..Len(z)
  BY SMT, <1>1
<1>7. /\ a \in Seq(Byte) /\ Len(a) = Len(z)
      /\ \A i \in 1..Len(z) : a[i] = IF i = 5 THEN w % 256 ELSE z[i]
  BY SMT, <1>1, <1>5, <1>6, ExceptSeq
<1> HIDE DEF a
<1>8. /\ b \in Seq(Byte) /\ Len(b) = Len(z)
      /\ \A i \in 1..Len(z) : b[i] = IF i = 6 THEN w \div 256 ELSE a[i]
  BY SMT, <1>5, <1>6, <1>7, ExceptSeq
<1>9. \A i \in 1..Len(z) : b[i] = IF i = 6 THEN w \div 256
                                  ELSE IF i = 5 THEN w % 256 ELSE z[i]
  BY SMT, <1>7, <1>8
<1>10. b = [[z EXCEPT ![5] = w % 256] EXCEPT ![6] = w \div 256]
  BY SMT DEF a
<1> HIDE DEF b
<1>11. Filled(b, z, w)
  BY SMTT(30), <1>2, <1>8, <1>9, <1>10 DEF Filled
<1>12. QED
  BY SMT, <1>4, <1>11 DEF z, w

\* What the receivers take out of a PDU is what createPDU() was given.
Parts(pdu, n, flag, p) ==
  /\ pdu \in Seq(Byte) /\ Len(pdu) = 7 + Len(p) /\ pdu # <<>>
  /\ SeqNum(pdu) = n /\ Flag(pdu) = flag /\ Payload(pdu) = p

LEMMA PduParts ==
  ASSUME NEW n \in Nat, n < 65536 * 65536, NEW flag \in Byte, NEW p \in Seq(Byte)
  PROVE  Parts(createPDU(n, flag, p), n, flag, p)
<1> DEFINE pdu == createPDU(n, flag, p)
           z   == Zeroed(n, flag, p)
           h   == SubSeq(pdu, 1, 4)
           q   == SubSeq(pdu, 8, Len(pdu))
<1>a. Laid(z, n, flag, p)
  BY SMT, ZeroedLayout
<1>b. Filled(pdu, z, Checksum(n, flag, p))
  BY SMT, PduLayout
<1> HIDE DEF pdu, z
<1>1. /\ pdu \in Seq(Byte) /\ Len(pdu) = 7 + Len(p)
      /\ \A i \in 1..(7 + Len(p)) : i # 5 /\ i # 6 => pdu[i] = z[i]
  <2>1. /\ pdu \in Seq(Byte) /\ Len(pdu) = Len(z)
        /\ \A i \in 1..Len(z) : i # 5 /\ i # 6 => pdu[i] = z[i]
    BY SMT, <1>b DEF Filled
  <2>2. Len(z) = 7 + Len(p)
    BY SMT, <1>a DEF Laid
  <2>3. QED
    BY SMT, <2>1, <2>2
<1>2. /\ \A i \in 1..4 : z[i] = Htonl(n)[i]
      /\ z[7] = flag
      /\ \A i \in 1..Len(p) : z[7 + i] = p[i]
  BY SMT, <1>a DEF Laid
<1>3. Len(p) \in Nat
  BY SMT, LenProperties
<1>4. /\ \A i \in 1..4 : pdu[i] = Htonl(n)[i]
      /\ pdu[7] = flag
  BY SMT, <1>1, <1>2, <1>3
<1>5. \A i \in 1..Len(p) : pdu[7 + i] = p[i]
  <2> TAKE i \in 1..Len(p)
  <2>1. 7 + i \in 1..(7 + Len(p)) /\ 7 + i # 5 /\ 7 + i # 6
    BY SMT, <1>3
  <2>2. QED
    BY SMT, <1>1, <1>2, <2>1
<1>6. pdu # <<>>
  BY SMT, <1>1, <1>3, EmptySeq
<1>7. \A i \in 1..Len(pdu) : pdu[i] \in Byte
  BY SMT, <1>1, ElementOfSeq
<1>8. h \in Seq(Byte) /\ Len(h) = 4 /\ \A i \in 1..4 : h[i] = pdu[i]
  <2>1. 1 \in Int /\ 4 \in Int /\ 8 \in Int /\ \A i \in 1..4 : pdu[i] \in Byte
    BY SMT, <1>1, <1>3, <1>7
  <2>2. /\ h \in Seq(Byte) /\ Len(h) = IF 1 <= 4 THEN 4 - 1 + 1 ELSE 0
        /\ \A i \in 1..(4 - 1 + 1) : h[i] = pdu[1 + i - 1]
    BY SMT, <2>1, SubSeqProperties
  <2> HIDE DEF h
  <2>3. QED
    BY SMT, <2>2
<1>9. SeqNum(pdu) = n
  <2>1. h[1] = Htonl(n)[1] /\ h[2] = Htonl(n)[2] /\ h[3] = Htonl(n)[3] /\ h[4] = Htonl(n)[4]
    BY SMT, <1>4, <1>8
  <2>2. QED
    BY SMT, <2>1, NtohlHtonl DEF SeqNum, Ntohl
<1>10. q = p
  <2>1. 8 \in Int /\ Len(pdu) \in Int /\ \A i \in 8..Len(pdu) : pdu[i] \in Byte
    BY SMT, <1>1, <1>3, <1>7
  <2>2. /\ q \in Seq(Byte) /\ Len(q) = IF 8 <= Len(pdu) THEN Len(pdu) - 8 + 1 ELSE 0
        /\ \A i \in 1..(Len(pdu) - 8 + 1) : q[i] = pdu[8 + i - 1]
    BY SMT, <2>1, SubSeqProperties
  <2> HIDE DEF q
  <2>3. Len(q) = Len(p) /\ \A i \in 1..Len(q) : q[i] = p[i]
    BY SMT, <1>1, <1>3, <1>5, <2>2
  <2>4. QED
    BY SMT, <2>2, <2>3, SeqEqual
<1>11. QED
  BY SMT, <1>1, <1>4, <1>6, <1>9, <1>10 DEF Flag, Payload, Parts, pdu

(***************************************************************************)
(* What the checksum is worth.                                             *)
(***************************************************************************)
LEMMA SumAtLeast ==
  ASSUME NEW bytes \in Seq(Byte), NEW i \in 1..Len(bytes)
  PROVE  WordSum(bytes) >= Weight(i) * bytes[i]
<1> DEFINE rest == [bytes EXCEPT ![i] = 0]
<1>1. 0 \in Byte /\ bytes[i] \in Byte
  BY SMT, ElementOfSeq DEF Byte
<1>2. rest \in Seq(Byte)
  BY SMT, <1>1, ExceptSeq
<1>3. WordSum(rest) = WordSum(bytes) + (Weight(i) * 0 - Weight(i) * bytes[i])
  BY SMT, <1>1, WordSumUpdate
<1>4. WordSum(rest) \in Nat /\ WordSum(bytes) \in Nat
  BY SMT, <1>2, WordSumBounds
<1>5. Weight(i) \in {1, 256} /\ Weight(i) * bytes[i] \in Int
  BY SMT, <1>1, ByteWorth
<1> DEFINE x == Weight(i) * bytes[i]
<1> HIDE DEF rest, x
<1>6. WordSum(rest) = WordSum(bytes) - x /\ x \in Int
  BY SMT, <1>3, <1>4, <1>5 DEF x
<1>7. WordSum(bytes) >= x
  BY SMT, <1>4, <1>6
<1>8. QED
  BY SMT, <1>7 DEF x

\* The sum of a PDU is that of the zeroed one and its checksum.
LEMMA SumOfPdu ==
  ASSUME NEW n \in Nat, NEW flag \in Byte, NEW p \in Seq(Byte)
  PROVE  /\ WordSum(createPDU(n, flag, p))
              = WordSum(Zeroed(n, flag, p)) + Checksum(n, flag, p)
         /\ WordSum(Zeroed(n, flag, p)) >= flag
<1> DEFINE z == Zeroed(n, flag, p)
           w == Checksum(n, flag, p)
           lo == w % 256
           hi == w \div 256
           a == [z EXCEPT ![5] = lo]
           b == [a EXCEPT ![6] = hi]
<1>1. Laid(z, n, flag, p)
  BY SMT, ZeroedLayout
<1>2. Filled(createPDU(n, flag, p), z, w)
  BY SMT, PduLayout
<1> HIDE DEF z, w
<1>3. /\ z \in Seq(Byte) /\ Len(z) = 7 + Len(p) /\ Len(p) \in Nat
      /\ z[5] = 0 /\ z[6] = 0 /\ z[7] = flag
  BY SMT, <1>1, LenProperties DEF Laid
<1>4. createPDU(n, flag, p) = b /\ w \in Nat /\ w <= 65535
  BY SMT, <1>2 DEF Filled
<1>5. /\ lo \in Byte /\ hi \in Byte /\ w = lo + 256 * hi
      /\ lo \in Int /\ hi \in Int
  BY SMT, <1>4, FieldBytes
<1>6. 5 \in 1..Len(z) /\ 6 \in 1..Len(z) /\ 7 \in 1..Len(z)
  BY SMT, <1>3
<1>7. Weight(5) = 1 /\ Weight(6) = 256 /\ Weight(7) = 1
  BY SMT DEF Weight
<1> HIDE DEF lo, hi
<1>8. a \in Seq(Byte) /\ Len(a) = Len(z) /\ a[6] = 0
  BY SMT, <1>3, <1>5, <1>6, ExceptSeq
<1>9. WordSum(a) = WordSum(z) + (Weight(5) * lo - Weight(5) * z[5])
  <2>1. z \in Seq(Byte) /\ 5 \in 1..Len(z) /\ lo \in Byte
    BY SMT, <1>3, <1>5, <1>6
  <2>2. QED
    BY SMT, <2>1, WordSumUpdate
<1> HIDE DEF a
<1>10. WordSum(b) = WordSum(a) + (Weight(6) * hi - Weight(6) * a[6])
  BY SMT, <1>5, <1>6, <1>8, WordSumUpdate
<1>11. WordSum(z) \in Nat /\ WordSum(z) >= Weight(7) * z[7]
  BY SMT, <1>3, <1>6, WordSumBounds, SumAtLeast
<1>12. flag \in Int
  BY SMT DEF Byte
<1> HIDE DEF b
<1>13. WordSum(a) = WordSum(z) + lo
  BY SMT, <1>3, <1>5, <1>7, <1>9, <1>11
<1>14. WordSum(b) = WordSum(z) + w
  BY SMT, <1>5, <1>7, <1>8, <1>10, <1>11, <1>13
<1>15. WordSum(z) >= flag
  BY SMT, <1>3, <1>7, <1>11, <1>12
<1>16. QED
  BY SMT, <1>4, <1>14, <1>15 DEF z, w

\* A checksum is zero exactly if the sum is a multiple of 65535.
Multiple(sum) == \E m \in Nat : sum = 65535 * m

LEMMA ZeroComplement ==
  ASSUME NEW sum \in Nat, 0 < sum, sum < 65536 * 65536
  PROVE  Complement(sum) = 0 <=> Multiple(sum)
<1>1. PICK q \in Nat : sum = 65535 * q + (65535 - Complement(sum))
  <2>1. Folded(sum, Complement(sum))
    BY SMT, ComplementOfSum
  <2>2. QED
    BY SMT, <2>1 DEF Folded
<1>2. Complement(sum) \in Nat /\ Complement(sum) < 65535
  BY SMT, ComplementOfSum
<1>3. ASSUME Complement(sum) = 0 PROVE \E m \in Nat : sum = 65535 * m
  <2>1. q + 1 \in Nat /\ sum = 65535 * (q + 1)
    BY SMT, <1>1, <1>3
  <2>2. QED
    BY SMT, <2>1
<1>4. ASSUME NEW m \in Nat, sum = 65535 * m PROVE Complement(sum) = 0
  BY SMT, <1>1, <1>2, <1>4
<1>5. QED
  BY SMT, <1>3, <1>4 DEF Multiple

\* A flipped bit adds or subtracts its value, and the result is a byte.
LEMMA FlippedBit ==
  ASSUME NEW b \in Byte, NEW w \in {1, 2, 4, 8, 16, 32, 64, 128}
  PROVE  LET c == IF (b \div w) % 2 = 0 THEN b + w ELSE b - w
         IN  c \in Byte /\ (c = b + w \/ c = b - w)
<1> DEFINE c == IF (b \div w) % 2 = 0 THEN b + w ELSE b - w
<1>1. b \in Nat /\ b <= 255
  BY SMT DEF Byte
<1>2. c \in Nat /\ c <= 255 /\ (c = b + w \/ c = b - w)
  <2>1. CASE w = 1
    BY SMT, <1>1, <2>1
  <2>2. CASE w = 2
    BY SMT, <1>1, <2>2
  <2>3. CASE w = 4
    BY SMT, <1>1, <2>3
  <2>4. CASE w = 8
    BY SMT, <1>1, <2>4
  <2>5. CASE w = 16
    BY SMT, <1>1, <2>5
  <2>6. CASE w = 32
    BY SMT, <1>1, <2>6
  <2>7. CASE w = 64
    BY SMT, <1>1, <2>7
  <2>8. CASE w = 128
    BY SMT, <1>1, <2>8
  <2>9. QED
    BY SMT, <2>1, <2>2, <2>3, <2>4, <2>5, <2>6, <2>7, <2>8
<1>3. \A x \in Nat : x <= 255 => x \in Byte
  BY SMT DEF Byte
<1> HIDE DEF c
<1>4. c \in Byte /\ (c = b + w \/ c = b - w)
  BY SMT, <1>2, <1>3
<1>5. QED
  BY SMT, <1>4 DEF c

\* A datagram with a flipped bit: one byte of it differs by a power of two.
Damaged(bad, pdu, i, w, c) ==
  /\ i \in 1..Len(pdu) /\ w \in {1, 2, 4, 8, 16, 32, 64, 128}
  /\ c \in Byte /\ (c = pdu[i] + w \/ c = pdu[i] - w)
  /\ bad = [pdu EXCEPT ![i] = c]

LEMMA FlipIsDamage ==
  ASSUME NEW pdu \in Seq(Byte), NEW bad \in OneBitFlips(pdu)
  PROVE  \E i, w, c : Damaged(bad, pdu, i, w, c)
<1>1. PICK i \in DOMAIN pdu, w \in {1, 2, 4, 8, 16, 32, 64, 128} :
        bad = [pdu EXCEPT ![i] = IF (@ \div w) % 2 = 0 THEN @ + w ELSE @ - w]
  BY SMT DEF OneBitFlips
<1>2. i \in 1..Len(pdu) /\ pdu[i] \in Byte
  BY SMT, LenProperties, ElementOfSeq
<1> DEFINE b == pdu[i]
           c == IF (b \div w) % 2 = 0 THEN b + w ELSE b - w
<1>3. bad = [pdu EXCEPT ![i] = c]
  BY SMT, <1>1
<1>4. c \in Byte /\ (c = b + w \/ c = b - w)
  BY SMT, <1>2, FlippedBit
<1> HIDE DEF c
<1>5. Damaged(bad, pdu, i, w, c)
  BY SMT, <1>2, <1>3, <1>4 DEF Damaged
<1>6. QED
  BY SMT, <1>5

LEMMA ByteRange == \A b : b \in Byte <=> b \in Nat /\ b <= 255
  BY SMT DEF Byte

LEMMA FlipChangesSum ==
  ASSUME NEW pdu \in Seq(Byte), NEW bad, NEW i, NEW w, NEW c,
         Damaged(bad, pdu, i, w, c)
  PROVE  /\ bad \in Seq(Byte) /\ Len(bad) = Len(pdu)
         /\ \A j \in 1..Len(pdu) : bad[j] = IF j = i THEN c ELSE pdu[j]
         /\ \/ WordSum(bad) = WordSum(pdu) + w \/ WordSum(bad) = WordSum(pdu) - w
            \/ WordSum(bad) = WordSum(pdu) + 256 * w
            \/ WordSum(bad) = WordSum(pdu) - 256 * w
<1>1. /\ i \in 1..Len(pdu) /\ c \in Byte /\ bad = [pdu EXCEPT ![i] = c]
      /\ w \in {1, 2, 4, 8, 16, 32, 64, 128} /\ (c = pdu[i] + w \/ c = pdu[i] - w)
  BY SMT DEF Damaged
<1>2. /\ bad \in Seq(Byte) /\ Len(bad) = Len(pdu)
      /\ \A j \in 1..Len(pdu) : bad[j] = IF j = i THEN c ELSE pdu[j]
  BY SMT, <1>1, ExceptSeq
<1>3. WordSum(bad) = WordSum(pdu) + (Weight(i) * c - Weight(i) * pdu[i])
  <2>1. i \in 1..Len(pdu) /\ c \in Byte
    BY SMT, <1>1
  <2>2. WordSum([pdu EXCEPT ![i] = c])
          = WordSum(pdu) + (Weight(i) * c - Weight(i) * pdu[i])
    BY SMT, <2>1, WordSumUpdate
  <2>3. bad = [pdu EXCEPT ![i] = c]
    BY SMT, <1>1
  <2>4. QED
    BY Zenon, <2>2, <2>3
<1>4. Weight(i) = 1 \/ Weight(i) = 256
  BY SMT DEF Weight
<1> DEFINE old == pdu[i]
           S == WordSum(pdu)
<1>5. old \in Int /\ c \in Int /\ w \in Int /\ S \in Int
  <2>1. old \in Byte
    BY SMT, <1>1, ElementOfSeq
  <2> HIDE DEF old
  <2>2. QED
    BY SMT, <1>1, <2>1, ByteRange, WordSumBounds
<1>6. WordSum(bad) = S + (Weight(i) * c - Weight(i) * old) /\ (c = old + w \/ c = old - w)
  BY SMT, <1>1, <1>3
<1> HIDE DEF old, S
<1>7. \/ WordSum(bad) = S + w \/ WordSum(bad) = S - w
      \/ WordSum(bad) = S + 256 * w \/ WordSum(bad) = S - 256 * w
  <2>1. CASE Weight(i) = 1
    BY SMT, <1>5, <1>6, <2>1
  <2>2. CASE Weight(i) = 256
    BY SMT, <1>5, <1>6, <2>2
  <2>3. QED
    BY SMT, <1>4, <2>1, <2>2
<1>8. QED
  BY SMT, <1>2, <1>7 DEF S

\* Of a PDU that fits a datagram the sum is a positive multiple of 65535, and
\* one flipped bit does not make it another.
LEMMA ChecksumOfPdu ==
  ASSUME NEW n \in Nat, NEW flag \in Byte, flag > 0, NEW p \in Seq(Byte),
         7 + Len(p) < 65536
  PROVE  /\ ChecksumIsZero(createPDU(n, flag, p))
         /\ \A bad \in OneBitFlips(createPDU(n, flag, p)) : ~ChecksumIsZero(bad)
<1> DEFINE pdu == createPDU(n, flag, p)
           z   == Zeroed(n, flag, p)
           c   == Checksum(n, flag, p)
<1>1. z \in Seq(Byte) /\ Len(z) = 7 + Len(p) /\ pdu \in Seq(Byte) /\ Len(pdu) = 7 + Len(p)
  <2>1. Laid(z, n, flag, p) /\ Filled(pdu, z, c)
    BY SMT, ZeroedLayout, PduLayout
  <2> HIDE DEF z, pdu, c
  <2>2. z \in Seq(Byte) /\ Len(z) = 7 + Len(p)
    BY SMT, <2>1 DEF Laid
  <2>3. pdu \in Seq(Byte) /\ Len(pdu) = Len(z)
    BY SMT, <2>1 DEF Filled
  <2>4. QED
    BY SMT, <2>2, <2>3
<1>2. WordSum(pdu) = WordSum(z) + c /\ WordSum(z) >= flag
  BY SMT, SumOfPdu
<1>3. c = Complement(WordSum(z))
  BY SMT DEF Checksum, in_cksum
<1> HIDE DEF z, c, pdu
<1>4. \A s \in Seq(Byte) : Len(s) = 7 + Len(p) =>
        WordSum(s) \in Nat /\ WordSum(s) < 65536 * 65536
  <2> SUFFICES ASSUME NEW s \in Seq(Byte), Len(s) = 7 + Len(p)
               PROVE  WordSum(s) \in Nat /\ WordSum(s) < 65536 * 65536
    BY SMT
  <2>1. Len(s) \in Nat /\ Len(s) < 65536
    BY SMT, LenProperties
  <2>2. WordSum(s) \in Nat /\ WordSum(s) <= 65280 * Len(s)
    BY SMT, WordSumBounds
  <2>3. QED
    BY SMT, <2>1, <2>2
<1>5. WordSum(z) \in Nat /\ WordSum(z) < 65536 * 65536 /\ WordSum(z) > 0
  <2>1. flag \in Int
    BY SMT DEF Byte
  <2>2. QED
    BY SMT, <1>1, <1>2, <1>4, <2>1
<1>6. PICK q \in Nat : WordSum(z) = 65535 * q + (65535 - c)
  <2>1. Folded(WordSum(z), c)
    BY SMT, <1>3, <1>5, ComplementOfSum
  <2>2. QED
    BY SMT, <2>1 DEF Folded
<1>7. c \in Nat
  BY SMT, <1>3, <1>5, ComplementIsWord
<1>8. q + 1 \in Nat /\ WordSum(pdu) = 65535 * (q + 1)
  BY SMT, <1>2, <1>6, <1>7
<1>9. ChecksumIsZero(pdu)
  <2>1. WordSum(pdu) \in Nat /\ 0 < WordSum(pdu) /\ WordSum(pdu) < 65536 * 65536
    BY SMT, <1>1, <1>4, <1>8
  <2>2. Multiple(WordSum(pdu))
    BY SMT, <1>8 DEF Multiple
  <2>3. Complement(WordSum(pdu)) = 0
    BY SMT, <2>1, <2>2, ZeroComplement
  <2>4. QED
    BY SMT, <2>3 DEF ChecksumIsZero, in_cksum
<1>10. ASSUME NEW bad \in OneBitFlips(pdu) PROVE ~ChecksumIsZero(bad)
  <2>1. PICK i, w, b : Damaged(bad, pdu, i, w, b)
    BY SMT, <1>1, FlipIsDamage
  <2>2. w \in {1, 2, 4, 8, 16, 32, 64, 128}
    BY SMT, <2>1 DEF Damaged
  <2>3. /\ bad \in Seq(Byte) /\ Len(bad) = Len(pdu)
        /\ \/ WordSum(bad) = WordSum(pdu) + w \/ WordSum(bad) = WordSum(pdu) - w
           \/ WordSum(bad) = WordSum(pdu) + 256 * w
           \/ WordSum(bad) = WordSum(pdu) - 256 * w
    BY SMT, <1>1, <2>1, FlipChangesSum
  <2>4. WordSum(bad) \in Nat /\ WordSum(bad) < 65536 * 65536
    BY SMT, <1>1, <1>4, <2>3
  <2>5. w \in Int /\ 0 < w /\ 256 * w < 65535
    BY SMT, <2>2
  <2>6. 0 < WordSum(bad)
    BY SMT, <1>8, <2>3, <2>5
  <2>7. ~Multiple(WordSum(bad))
    <3> SUFFICES ASSUME NEW m \in Nat, WordSum(bad) = 65535 * m PROVE FALSE
      BY SMT DEF Multiple
    <3>1. 65535 * m = 65535 * (q + 1) + w \/ 65535 * m = 65535 * (q + 1) - w
            \/ 65535 * m = 65535 * (q + 1) + 256 * w
            \/ 65535 * m = 65535 * (q + 1) - 256 * w
      BY SMT, <1>8, <2>3
    <3>2. QED
      BY SMT, <2>5, <3>1
  <2>8. Complement(WordSum(bad)) # 0
    BY SMT, <2>4, <2>6, <2>7, ZeroComplement
  <2>9. QED
    BY SMT, <2>8 DEF ChecksumIsZero, in_cksum
<1>11. QED
  BY SMT, <1>9, <1>10 DEF pdu

(***************************************************************************)
(* The EOF acknowledgement and the child's test of it.                     *)
(***************************************************************************)
\* The copy whose checksum field is zero.
LEMMA ZeroField ==
  ASSUME NEW x \in Seq(Byte), Len(x) >= 7
  PROVE  /\ WithChecksum(x, 0) \in Seq(Byte) /\ Len(WithChecksum(x, 0)) = Len(x)
         /\ \A j \in 1..Len(x) :
              WithChecksum(x, 0)[j] = IF j = 5 \/ j = 6 THEN 0 ELSE x[j]
<1> DEFINE a == [x EXCEPT ![5] = 0]
           b == [a EXCEPT ![6] = 0]
<1>1. 0 % 256 = 0 /\ 0 \div 256 = 0 /\ 0 \in Byte
  BY SMT, ByteRange
<1>2. WithChecksum(x, 0) = b
  BY SMT, <1>1 DEF WithChecksum
<1>3. Len(x) \in Nat /\ 5 \in 1..Len(x) /\ 6 \in 1..Len(x)
  BY SMT, LenProperties
<1>4. /\ a \in Seq(Byte) /\ Len(a) = Len(x)
      /\ \A j \in 1..Len(x) : a[j] = IF j = 5 THEN 0 ELSE x[j]
  BY SMT, <1>1, <1>3, ExceptSeq
<1> HIDE DEF a
<1>5. /\ b \in Seq(Byte) /\ Len(b) = Len(a)
      /\ \A j \in 1..Len(a) : b[j] = IF j = 6 THEN 0 ELSE a[j]
  BY SMT, <1>1, <1>3, <1>4, ExceptSeq
<1> HIDE DEF b
<1>6. \A j \in 1..Len(x) : b[j] = IF j = 5 \/ j = 6 THEN 0 ELSE x[j]
  BY SMT, <1>4, <1>5
<1>7. QED
  BY SMT, <1>2, <1>4, <1>5, <1>6

Ack(n)       == createPDU(n, EOF_ACK, <<>>)
AckZeroed(n) == Zeroed(n, EOF_ACK, <<>>)
AckWord(n)   == Checksum(n, EOF_ACK, <<>>)

LEMMA AckLayout ==
  ASSUME NEW n \in Nat
  PROVE  /\ AckZeroed(n) \in Seq(Byte) /\ Len(AckZeroed(n)) = 7
         /\ \A i \in 1..4 : AckZeroed(n)[i] = Htonl(n)[i]
         /\ AckZeroed(n)[5] = 0 /\ AckZeroed(n)[6] = 0 /\ AckZeroed(n)[7] = 35
         /\ Ack(n) \in Seq(Byte) /\ Len(Ack(n)) = 7
         /\ Ack(n)[5] = AckWord(n) % 256 /\ Ack(n)[6] = AckWord(n) \div 256
         /\ \A i \in 1..7 : i # 5 /\ i # 6 => Ack(n)[i] = AckZeroed(n)[i]
         /\ AckWord(n) \in Nat /\ AckWord(n) <= 65535
<1> DEFINE z == AckZeroed(n)
           pdu == Ack(n)
           c == AckWord(n)
<1>1. EOF_ACK \in Byte /\ <<>> \in Seq(Byte) /\ Len(<<>>) = 0 /\ EOF_ACK = 35
  BY SMT, ByteRange, EmptySeq DEF EOF_ACK
<1>2. Laid(z, n, EOF_ACK, <<>>)
  <2>1. Laid(Zeroed(n, EOF_ACK, <<>>), n, EOF_ACK, <<>>)
    BY Zenon, <1>1, ZeroedLayout
  <2>2. QED
    BY Zenon, <2>1 DEF AckZeroed
<1>3. Filled(pdu, z, c)
  <2>1. Filled(createPDU(n, EOF_ACK, <<>>), Zeroed(n, EOF_ACK, <<>>),
               Checksum(n, EOF_ACK, <<>>))
    BY Zenon, <1>1, PduLayout
  <2>2. QED
    BY Zenon, <2>1 DEF AckZeroed, Ack, AckWord
<1> HIDE DEF z, pdu, c
<1>4. /\ z \in Seq(Byte) /\ Len(z) = 7
      /\ \A i \in 1..4 : z[i] = Htonl(n)[i]
      /\ z[5] = 0 /\ z[6] = 0 /\ z[7] = 35
  BY SMT, <1>1, <1>2 DEF Laid
<1>5. /\ pdu \in Seq(Byte) /\ Len(pdu) = Len(z) /\ c \in Nat /\ c <= 65535
      /\ \A i \in 1..Len(z) : pdu[i] = IF i = 6 THEN c \div 256
                                       ELSE IF i = 5 THEN c % 256 ELSE z[i]
  BY SMT, <1>3 DEF Filled
<1>6. /\ pdu[5] = c % 256 /\ pdu[6] = c \div 256
      /\ \A i \in 1..7 : i # 5 /\ i # 6 => pdu[i] = z[i]
  BY SMT, <1>4, <1>5
<1>7. QED
  BY SMT, <1>4, <1>5, <1>6 DEF z, pdu, c

LEMMA AckSum ==
  ASSUME NEW n \in Nat
  PROVE  /\ WordSum(AckZeroed(n)) = Htonl(n)[1] + 256 * Htonl(n)[2] + Htonl(n)[3]
                                      + 256 * Htonl(n)[4] + 35
         /\ WordSum(AckZeroed(n)) \in Nat /\ WordSum(AckZeroed(n)) < 65536 * 65536
<1> DEFINE z == AckZeroed(n)
<1>1. /\ z \in Seq(Byte) /\ Len(z) = 7
      /\ \A i \in 1..4 : z[i] = Htonl(n)[i]
      /\ z[5] = 0 /\ z[6] = 0 /\ z[7] = 35
  BY SMT, AckLayout
<1> HIDE DEF z
<1>a. z \in Seq(Byte)
  BY SMT, <1>1
<1>b. Len(z) = 7
  BY SMT, <1>1
<1>2. PICK f : PartialSums(f, z) /\ WordSum(z) = f[Len(z)]
  BY SMT, <1>a, WordSumIsSum
<1>3. f[0] = 0 /\ \A k \in 1..7 : f[k] = f[k - 1] + Weight(k) * z[k]
  BY SMT, <1>1, <1>2 DEF PartialSums
<1>4. /\ Weight(1) = 1 /\ Weight(2) = 256 /\ Weight(3) = 1 /\ Weight(4) = 256
      /\ Weight(5) = 1 /\ Weight(6) = 256 /\ Weight(7) = 1
  BY SMT DEF Weight
<1>5. \A i \in 1..7 : z[i] \in Nat
  <2>1. \A i \in 1..Len(z) : z[i] \in Byte
    BY SMT, <1>a, ElementOfSeq
  <2>2. QED
    BY SMT, <1>b, <2>1, ByteRange
<1>6. f[1] = z[1] /\ f[2] = z[1] + 256 * z[2]
  <2>1. f[1] = f[0] + Weight(1) * z[1] /\ f[2] = f[1] + Weight(2) * z[2]
    BY SMT, <1>3
  <2>2. QED
    BY SMT, <1>3, <1>4, <1>5, <2>1
<1>7. f[4] = z[1] + 256 * z[2] + z[3] + 256 * z[4]
  <2>1. f[3] = f[2] + Weight(3) * z[3] /\ f[4] = f[3] + Weight(4) * z[4]
    BY SMT, <1>3
  <2>2. QED
    BY SMT, <1>4, <1>5, <1>6, <2>1
<1>8. f[7] = f[4] + 35
  <2>1. /\ f[5] = f[4] + Weight(5) * z[5] /\ f[6] = f[5] + Weight(6) * z[6]
        /\ f[7] = f[6] + Weight(7) * z[7]
    BY SMT, <1>3
  <2>2. f[4] \in Int
    BY SMT, <1>5, <1>7
  <2>3. QED
    BY SMT, <1>1, <1>4, <2>1, <2>2
<1>9. WordSum(z) = z[1] + 256 * z[2] + z[3] + 256 * z[4] + 35
  BY SMT, <1>1, <1>2, <1>7, <1>8
<1>10. WordSum(z) \in Nat /\ WordSum(z) <= 65280 * Len(z)
  BY SMT, <1>a, WordSumBounds
<1>11. WordSum(z) \in Nat /\ WordSum(z) < 65536 * 65536
  BY SMT, <1>b, <1>10
<1>12. QED
  BY SMT, <1>1, <1>9, <1>11 DEF z

\* The child's test: the checksum reads the same from either end.
Swapped(w) == (w % 256) * 256 + (w \div 256)

LEMMA AckTest ==
  ASSUME NEW n \in Nat
  PROVE  EofAckChecksumValid(Ack(n)) <=> Swapped(AckWord(n)) = AckWord(n)
<1> DEFINE z == AckZeroed(n)
           pdu == Ack(n)
           c == AckWord(n)
           x == WithChecksum(pdu, 0)
<1>1. /\ z \in Seq(Byte) /\ Len(z) = 7 /\ z[5] = 0 /\ z[6] = 0
      /\ pdu \in Seq(Byte) /\ Len(pdu) = 7 /\ pdu[5] = c % 256 /\ pdu[6] = c \div 256
      /\ \A i \in 1..7 : i # 5 /\ i # 6 => pdu[i] = z[i]
      /\ c \in Nat /\ c <= 65535
  BY SMT, AckLayout
<1>2. c = in_cksum(z)
  BY SMT DEF AckWord, AckZeroed, Checksum
<1> HIDE DEF z, pdu, c
<1>3. x = z
  <2>a. pdu \in Seq(Byte) /\ Len(pdu) >= 7
    BY SMT, <1>1
  <2>0. Len(pdu) = 7 /\ Len(z) = 7
    BY SMT, <1>1
  <2>1. /\ x \in Seq(Byte) /\ Len(x) = Len(pdu)
        /\ \A j \in 1..Len(pdu) : x[j] = IF j = 5 \/ j = 6 THEN 0 ELSE pdu[j]
    BY SMT, <2>a, ZeroField
  <2> HIDE DEF x
  <2>2. \A j \in 1..Len(x) : x[j] = z[j]
    BY SMT, <1>1, <2>0, <2>1
  <2>3. Len(x) = Len(z) /\ x \in Seq(Byte) /\ z \in Seq(Byte)
    BY SMT, <1>1, <2>0, <2>1
  <2>4. QED
    BY Zenon, <2>2, <2>3, SeqEqual
<1>4. EofAckChecksumValid(pdu) <=> 256 * (c % 256) + (c \div 256) = c
  BY SMT, <1>1, <1>2, <1>3 DEF EofAckChecksumValid
<1>5. 256 * (c % 256) = (c % 256) * 256
  BY SMT, <1>1
<1>6. QED
  BY SMT, <1>4, <1>5 DEF Swapped, c, pdu

\* The test accepts one number in 257: 65535 is 255 * 257, and 256 is -1.
LEMMA AckResidue ==
  ASSUME NEW n \in Nat, n < 65536 * 65536
  PROVE  Swapped(AckWord(n)) = AckWord(n) <=> n % 257 = 35
<1> DEFINE h1 == Htonl(n)[1]
           h2 == Htonl(n)[2]
           h3 == Htonl(n)[3]
           h4 == Htonl(n)[4]
           c  == AckWord(n)
           S  == WordSum(AckZeroed(n))
           lo == c % 256
           hi == c \div 256
<1>1. /\ h1 \in Nat /\ h2 \in Nat /\ h3 \in Nat /\ h4 \in Nat
      /\ n = 16777216 * h1 + 65536 * h2 + 256 * h3 + h4
  <2>1. Htonl(n) \in Seq(Byte)
    BY SMT, NtohlHtonl
  <2>a. Len(Htonl(n)) = 4
    BY SMT, NtohlHtonl
  <2>2. \A i \in 1..Len(Htonl(n)) : Htonl(n)[i] \in Byte
    BY SMT, <2>1, ElementOfSeq
  <2>3. \A i \in 1..4 : Htonl(n)[i] \in Nat
    BY SMT, <2>a, <2>2, ByteRange
  <2>4. QED
    BY SMT, <2>3, NtohlHtonl
<1>2. S = h1 + 256 * h2 + h3 + 256 * h4 + 35 /\ S \in Nat /\ S < 65536 * 65536
  BY SMT, AckSum
<1>3. c = Complement(S)
  BY SMT DEF AckWord, AckZeroed, Checksum, in_cksum
<1>4. c \in Nat /\ c <= 65535
  BY SMT, AckLayout
<1> HIDE DEF h1, h2, h3, h4, S, c
<1>5. PICK q \in Nat : S = 65535 * q + (65535 - c)
  <2>1. Folded(S, c)
    BY SMT, <1>2, <1>3, ComplementOfSum
  <2>2. QED
    BY SMT, <2>1 DEF Folded
<1>6. lo \in Nat /\ lo <= 255 /\ hi \in Nat /\ hi <= 255 /\ c = lo + 256 * hi
  BY SMT, <1>4, FieldBytes
<1>7. Swapped(c) = lo * 256 + hi
  BY SMT DEF Swapped
<1> HIDE DEF lo, hi
<1>8. Swapped(c) = c <=> lo = hi
  BY SMT, <1>6, <1>7
<1> DEFINE K == 65281 * h1 + 256 * h2 + h3 + h4 - 255 * (q + 1) + hi
<1>9. K \in Int
  BY SMT, <1>1, <1>6
<1>10. n = 257 * K + 35 + (lo - hi)
  BY SMT, <1>1, <1>2, <1>5, <1>6
<1> HIDE DEF K
<1>11. lo = hi => n % 257 = 35
  BY SMT, <1>6, <1>9, <1>10
<1>12. ASSUME n % 257 = 35 PROVE lo = hi
  <2>1. PICK m \in Int : n = 257 * m + 35
    <3>1. n = 257 * (n \div 257) + (n % 257) /\ n \div 257 \in Int
      BY SMT
    <3>2. QED
      BY SMT, <1>12, <3>1
  <2>2. QED
    BY SMT, <1>6, <1>9, <1>10, <2>1
<1>13. QED
  BY SMT, <1>8, <1>11, <1>12 DEF c

\* Module WireFormat's summary of the same test.
LEMMA AckAbstract ==
  ASSUME NEW n \in Nat
  PROVE  Abstract!ChecksumAccepted(Abstract!createPDU(n, EOF_ACK, Abstract!NULL))
           <=> Swapped(AckWord(n)) = AckWord(n)
<1> DEFINE S == WordSum(AckZeroed(n))
           T == ((n \div 16777216) % 256) + 256 * ((n \div 65536) % 256)
                  + ((n \div 256) % 256) + 256 * ((n \div 1) % 256) + 35
           word == Abstract!in_cksum(n, EOF_ACK)
           m == Abstract!createPDU(n, EOF_ACK, Abstract!NULL)
<1>1. S = Htonl(n)[1] + 256 * Htonl(n)[2] + Htonl(n)[3] + 256 * Htonl(n)[4] + 35
  BY SMT, AckSum
<1>2. n \div 1 = n
  BY SMT
<1>3. S = T
  BY SMT, <1>1, <1>2 DEF Htonl
<1>4. word = Complement(T)
  BY SMT DEF Complement, Abstract!in_cksum, Abstract!SeqByte, EOF_ACK
<1>5. AckWord(n) = Complement(S)
  BY SMT DEF AckWord, AckZeroed, Checksum, in_cksum
<1>6. m.seq = n /\ m.flag = EOF_ACK /\ m.intact = TRUE
  BY SMT DEF Abstract!createPDU
<1> HIDE DEF S, T, m, word
<1>7. word = AckWord(n)
  BY SMT, <1>3, <1>4, <1>5
<1>8. Abstract!ChecksumAccepted(m) <=> Abstract!SwapBytes(word) = word
  BY SMT, <1>6 DEF Abstract!ChecksumAccepted, word
<1>9. Abstract!SwapBytes(word) = Swapped(word)
  BY SMT DEF Abstract!SwapBytes, Swapped
<1>10. QED
  BY SMT, <1>7, <1>8, <1>9 DEF m

\* A power of two below 256 is not a multiple of 255.
LEMMA NoMultipleOf255 ==
  ASSUME NEW w \in {1, 2, 4, 8, 16, 32, 64, 128}, NEW k \in Int
  PROVE  w # 255 * k /\ w # -(255 * k)
  BY SMT

\* No flipped bit makes an acknowledgement acceptable, be it in the field or in
\* what the field is compared with.
LEMMA AckFlips ==
  ASSUME NEW n \in Nat, NEW bad \in OneBitFlips(Ack(n))
  PROVE  ~EofAckChecksumValid(bad)
<1> DEFINE z == AckZeroed(n)
           pdu == Ack(n)
           c == AckWord(n)
           lo == c % 256
           hi == c \div 256
           x == WithChecksum(bad, 0)
<1>1. /\ z \in Seq(Byte) /\ Len(z) = 7 /\ z[5] = 0 /\ z[6] = 0
      /\ pdu \in Seq(Byte) /\ Len(pdu) = 7 /\ pdu[5] = lo /\ pdu[6] = hi
      /\ \A i \in 1..7 : i # 5 /\ i # 6 => pdu[i] = z[i]
      /\ c \in Nat /\ c <= 65535
  BY SMT, AckLayout
<1>2. c = Complement(WordSum(z)) /\ c = in_cksum(z)
  BY SMT DEF AckWord, AckZeroed, Checksum, in_cksum
<1>3. WordSum(z) \in Nat /\ WordSum(z) < 65536 * 65536
  BY SMT, AckSum
<1>4. lo \in Nat /\ lo <= 255 /\ hi \in Nat /\ hi <= 255 /\ c = lo + 256 * hi
  BY SMT, <1>1, FieldBytes
<1> HIDE DEF z, pdu, c, lo, hi
<1>5. PICK i, w, b : Damaged(bad, pdu, i, w, b)
  <2>1. pdu \in Seq(Byte) /\ bad \in OneBitFlips(pdu)
    BY SMT, <1>1 DEF pdu
  <2>2. QED
    BY SMT, <2>1, FlipIsDamage
<1>6. /\ i \in 1..Len(pdu) /\ b \in Byte
      /\ w \in {1, 2, 4, 8, 16, 32, 64, 128} /\ (b = pdu[i] + w \/ b = pdu[i] - w)
  BY SMT, <1>5 DEF Damaged
<1>7. /\ bad \in Seq(Byte) /\ Len(bad) = Len(pdu)
      /\ \A j \in 1..Len(pdu) : bad[j] = IF j = i THEN b ELSE pdu[j]
  <2>1. pdu \in Seq(Byte)
    BY SMT, <1>1
  <2>2. QED
    BY SMT, <1>5, <2>1, FlipChangesSum
<1>8. Len(pdu) = 7 /\ Len(z) = 7 /\ Len(bad) = 7
  BY SMT, <1>1, <1>7
<1>9. /\ x \in Seq(Byte) /\ Len(x) = Len(bad)
      /\ \A j \in 1..Len(bad) : x[j] = IF j = 5 \/ j = 6 THEN 0 ELSE bad[j]
  <2>1. bad \in Seq(Byte) /\ Len(bad) >= 7
    BY SMT, <1>7, <1>8
  <2>2. QED
    BY SMT, <2>1, ZeroField
<1>10. EofAckChecksumValid(bad) <=> 256 * bad[5] + bad[6] = Complement(WordSum(x))
  BY SMT DEF EofAckChecksumValid, in_cksum
<1> HIDE DEF x
<1>11. CASE i = 5 \/ i = 6
  <2>1. x = z
    <3>1. \A j \in 1..Len(x) : x[j] = z[j]
      BY SMT, <1>1, <1>7, <1>8, <1>9, <1>11
    <3>2. x \in Seq(Byte) /\ z \in Seq(Byte) /\ Len(x) = Len(z)
      BY SMT, <1>1, <1>8, <1>9
    <3>3. QED
      BY Zenon, <3>1, <3>2, SeqEqual
  <2>2. bad[5] = (IF i = 5 THEN b ELSE lo) /\ bad[6] = (IF i = 6 THEN b ELSE hi)
    BY SMT, <1>1, <1>7, <1>8, <1>11
  <2>3. IF i = 5 THEN b = lo + w \/ b = lo - w ELSE b = hi + w \/ b = hi - w
    BY SMT, <1>1, <1>6, <1>11
  <2>4. w \in Int
    BY SMT, <1>6
  <2> SUFFICES ASSUME EofAckChecksumValid(bad) PROVE FALSE
    BY SMT
  <2>5. 256 * bad[5] + bad[6] = lo + 256 * hi
    <3>1. 256 * bad[5] + bad[6] = Complement(WordSum(x))
      BY SMT, <1>10
    <3>2. Complement(WordSum(x)) = c
      BY Zenon, <1>2, <2>1
    <3>3. QED
      BY SMT, <1>4, <3>1, <3>2
  <2>6. CASE i = 5
    <3>1. 256 * w = 255 * (hi - lo) \/ 256 * w = -(255 * (hi - lo))
      BY SMT, <1>4, <2>2, <2>3, <2>4, <2>5, <2>6
    <3>2. w = 255 * (hi - lo - w) \/ w = -(255 * (hi - lo + w))
      BY SMT, <1>4, <2>4, <3>1
    <3>3. hi - lo - w \in Int /\ hi - lo + w \in Int
      BY SMT, <1>4, <2>4
    <3>4. QED
      BY SMT, <1>6, <3>2, <3>3, NoMultipleOf255
  <2>7. CASE i = 6
    <3>1. w = 255 * (hi - lo) \/ w = -(255 * (hi - lo))
      BY SMT, <1>4, <2>2, <2>3, <2>4, <2>5, <2>7
    <3>2. hi - lo \in Int
      BY SMT, <1>4
    <3>3. QED
      BY SMT, <1>6, <3>1, <3>2, NoMultipleOf255
  <2>8. QED
    BY SMT, <1>11, <2>6, <2>7
<1>12. CASE i # 5 /\ i # 6
  <2>1. i \in 1..7 /\ bad[5] = lo /\ bad[6] = hi /\ pdu[i] = z[i]
    BY SMT, <1>1, <1>6, <1>7, <1>8, <1>12
  <2>2. Damaged(x, z, i, w, b)
    <3>1. i \in 1..Len(z) /\ b \in Byte
      BY SMT, <1>6, <1>8
    <3>2. z \in Seq(Byte)
      BY SMT, <1>1
    <3> DEFINE y == [z EXCEPT ![i] = b]
    <3>3. /\ y \in Seq(Byte) /\ Len(y) = Len(z)
          /\ \A j \in 1..Len(z) : y[j] = IF j = i THEN b ELSE z[j]
      BY SMT, <3>1, <3>2, ExceptSeq
    <3> HIDE DEF y
    <3>4. \A j \in 1..Len(x) : x[j] = y[j]
      BY SMT, <1>1, <1>7, <1>8, <1>9, <1>12, <3>3
    <3>5. x \in Seq(Byte) /\ Len(x) = Len(y)
      BY SMT, <1>8, <1>9, <3>3
    <3>6. x = y
      BY Zenon, <3>3, <3>4, <3>5, SeqEqual
    <3>7. QED
      BY SMT, <1>6, <2>1, <3>1, <3>6 DEF Damaged, y
  <2>3. /\ \/ WordSum(x) = WordSum(z) + w \/ WordSum(x) = WordSum(z) - w
           \/ WordSum(x) = WordSum(z) + 256 * w
           \/ WordSum(x) = WordSum(z) - 256 * w
    <3>1. z \in Seq(Byte)
      BY SMT, <1>1
    <3>2. QED
      BY SMT, <2>2, <3>1, FlipChangesSum
  <2>4. WordSum(x) \in Nat /\ WordSum(x) < 65536 * 65536
    <3>1. x \in Seq(Byte)
      BY SMT, <1>9
    <3>2. WordSum(x) \in Nat /\ WordSum(x) <= 65280 * Len(x)
      BY SMT, <3>1, WordSumBounds
    <3>3. Len(x) = 7
      BY SMT, <1>8, <1>9
    <3>4. QED
      BY SMT, <3>2, <3>3
  <2> SUFFICES ASSUME EofAckChecksumValid(bad) PROVE FALSE
    BY SMT
  <2>5. Complement(WordSum(x)) = 256 * lo + hi
    BY SMT, <1>10, <2>1
  <2>6. PICK q \in Nat : WordSum(x) = 65535 * q + (65535 - Complement(WordSum(x)))
    <3>1. Folded(WordSum(x), Complement(WordSum(x)))
      BY SMT, <2>4, ComplementOfSum
    <3>2. QED
      BY SMT, <3>1 DEF Folded
  <2>7. PICK r \in Nat : WordSum(z) = 65535 * r + (65535 - c)
    <3>0. Folded(WordSum(z), Complement(WordSum(z)))
      BY SMT, <1>3, ComplementOfSum
    <3>1. Folded(WordSum(z), c)
      BY SMT, <1>2, <3>0
    <3>2. QED
      BY SMT, <3>1 DEF Folded
  <2> DEFINE k == 257 * (q - r) - (lo - hi)
  <2>8. k \in Int /\ w \in Int
    BY SMT, <1>4, <1>6
  <2>9. WordSum(x) - WordSum(z) = 255 * k
    BY SMT, <1>3, <1>4, <2>4, <2>5, <2>6, <2>7
  <2> HIDE DEF k
  <2>10. w = 255 * k \/ w = -(255 * k) \/ w = 255 * (k - w) \/ w = -(255 * (k + w))
    BY SMT, <1>3, <2>3, <2>4, <2>8, <2>9
  <2>11. k - w \in Int /\ k + w \in Int
    BY SMT, <2>8
  <2>12. QED
    BY SMT, <1>6, <2>8, <2>10, <2>11, NoMultipleOf255
<1>13. QED
  BY SMT, <1>11, <1>12

(***************************************************************************)
(* The chunks of a file.                                                   *)
(***************************************************************************)
Least(a, b) == IF a <= b THEN a ELSE b

LEMMA MinOfPair ==
  ASSUME NEW a \in Int, NEW b \in Int
  PROVE  Min({a, b}) = Least(a, b)
<1>1. Least(a, b) \in {a, b} /\ \A y \in {a, b} : Least(a, b) <= y
  BY SMT DEF Least
<1>2. \A x \in {a, b} : (\A y \in {a, b} : x <= y) => x = Least(a, b)
  BY SMT DEF Least
<1>3. QED
  BY SMT, <1>1, <1>2 DEF Min

\* Where chunk k of a file begins, and chunk k.
Position(file, size, k) == Least((k - 1) * size, Len(file))
Chunk(file, size, k) ==
  SubSeq(file, (k - 1) * size + 1, Least(k * size, Len(file)))

\* What fread() finds at the position of chunk k.
ReadAt(payload, file, size, k, off) ==
  /\ off \in Nat /\ off <= Len(file)
  /\ payload \in Seq(Byte)
  /\ payload # <<>> =>
       /\ payload = Chunk(file, size, k) /\ Len(payload) > 0
       /\ (k - 1) * size < Len(file)
       /\ off + Len(payload) = Position(file, size, k + 1)
  /\ payload = <<>> => size = 0 \/ off = Len(file)

LEMMA ChunkAtPosition ==
  ASSUME NEW file \in Seq(Byte), NEW size \in Nat, NEW k \in Nat \ {0},
         NEW off, off = Position(file, size, k)
  PROVE  ReadAt(SubSeq(file, off + 1, Min({off + size, Len(file)})), file, size, k, off)
<1> DEFINE L == Len(file)
           a == (k - 1) * size
           e == Least(off + size, L)
           payload == SubSeq(file, off + 1, e)
<1>1. L \in Nat /\ a \in Nat
  BY SMT, LenProperties
<1>2. k * size = a + size /\ ((k + 1) - 1) * size = a + size
  BY SMT
<1>3. off = Least(a, L)
  BY SMT DEF Position
<1>4. /\ Chunk(file, size, k) = SubSeq(file, a + 1, Least(a + size, L))
      /\ Position(file, size, k + 1) = Least(a + size, L)
  BY Zenon, <1>2 DEF Chunk, Position
<1>5. \A i \in 1..L : file[i] \in Byte
  BY SMT, ElementOfSeq
<1> HIDE DEF L, a
<1>6. off \in Nat /\ off <= L
  BY SMT, <1>1, <1>3 DEF Least
<1>7. Min({off + size, L}) = e
  BY SMT, <1>1, <1>6, MinOfPair
<1>8. e \in Nat /\ e <= L /\ e >= off
  BY SMT, <1>1, <1>6 DEF Least
<1>9. payload \in Seq(Byte) /\ Len(payload) = IF off + 1 <= e THEN e - (off + 1) + 1 ELSE 0
  <2>1. off + 1 \in Int /\ e \in Int /\ \A i \in (off + 1)..e : file[i] \in Byte
    BY SMT, <1>1, <1>5, <1>6, <1>8
  <2> HIDE DEF e
  <2>2. QED
    BY SMT, <2>1, SubSeqProperties
<1>10. Len(payload) = e - off
  <2> HIDE DEF e, payload
  <2>1. QED
    BY SMT, <1>6, <1>8, <1>9
<1>11. payload = <<>> <=> e = off
  <2>1. payload = <<>> <=> Len(payload) = 0
    <3> HIDE DEF payload
    <3>1. QED
      BY SMT, <1>9, EmptySeq
  <2> HIDE DEF payload, e
  <2>2. QED
    BY SMT, <1>6, <1>8, <1>10, <2>1
<1>12. e > off => off = a /\ a < L
  BY SMT, <1>1, <1>3, <1>6 DEF Least
<1>13. e = off => size = 0 \/ off = L
  BY SMT, <1>1, <1>6 DEF Least
<1>14. ASSUME payload # <<>>
       PROVE  /\ payload = Chunk(file, size, k) /\ Len(payload) > 0 /\ a < L
              /\ off + Len(payload) = Position(file, size, k + 1)
  <2>1. e > off
    BY SMT, <1>6, <1>8, <1>11, <1>14
  <2>2. off = a /\ a < L
    BY SMT, <1>12, <2>1
  <2>3. payload = Chunk(file, size, k)
    BY SMT, <1>4, <2>2
  <2> HIDE DEF payload
  <2>4. Position(file, size, k + 1) = e
    BY SMT, <1>4, <2>2
  <2> HIDE DEF e
  <2>5. QED
    BY SMT, <1>6, <1>8, <1>10, <2>1, <2>2, <2>3, <2>4
<1> HIDE DEF e
<1>15. SubSeq(file, off + 1, Min({off + size, L})) = payload
  BY Zenon, <1>7
<1> HIDE DEF payload
<1>16. ReadAt(payload, file, size, k, off)
  BY SMT, <1>6, <1>9, <1>11, <1>13, <1>14 DEF ReadAt, L, a
<1>17. QED
  BY Zenon, <1>15, <1>16 DEF L

\* The chunks before chunk k and chunk k are the chunks before chunk k + 1.
LEMMA NextPrefix ==
  ASSUME NEW file \in Seq(Byte), NEW size \in Nat, NEW k \in Nat \ {0},
         (k - 1) * size < Len(file)
  PROVE  SubSeq(file, 1, Position(file, size, k)) \o Chunk(file, size, k)
           = SubSeq(file, 1, Position(file, size, k + 1))
<1> DEFINE L == Len(file)
           a == (k - 1) * size
           e == Least(a + size, L)
<1>1. L \in Nat /\ a \in Nat /\ a < L
  BY SMT, LenProperties
<1>2. k * size = a + size /\ ((k + 1) - 1) * size = a + size
  BY SMT
<1>3. /\ Chunk(file, size, k) = SubSeq(file, a + 1, e)
      /\ Position(file, size, k + 1) = e
  BY Zenon, <1>2 DEF Chunk, Position
<1>4. Position(file, size, k) = a
  BY SMT, <1>1 DEF Position, Least
<1> HIDE DEF a
<1>5. e \in Nat /\ a <= e /\ e <= L
  BY SMT, <1>1 DEF Least
<1> HIDE DEF e
<1>6. 1 \in 1..(L + 1) /\ a \in (1 - 1)..L /\ e \in a..L
  BY SMT, <1>1, <1>5
<1>7. SubSeq(file, 1, a) \o SubSeq(file, a + 1, e) = SubSeq(file, 1, e)
  BY SMT, <1>6, ConcatAdjacentSubSeq DEF L
<1>8. QED
  BY Zenon, <1>3, <1>4, <1>7

(***************************************************************************)
(* The inductive invariant.                                                *)
(***************************************************************************)
\* The sequence numbers of a file fit their 32 bits, the PDUs a datagram.
NumberLimit == 65536 * 65536
NumbersFit   == \A f \in Files : Len(f) + 1 < NumberLimit
DatagramsFit == MAXBUF + 7 < 65536 /\ FILENAME_SIZE + 11 < 65536

DataFlags == {DATA, SREJ_DATA, TIMEOUT_DATA}
Number    == server.sequenceNum
Size      == server.bufferSize

Types ==
  /\ args \in [window : Nat, buffer : Nat, name : Seq(Byte), file : Seq(Byte)]
  /\ Len(Name) <= FILENAME_SIZE
  /\ Len(File) + 1 < NumberLimit
  /\ wire \in Seq(Byte)
  /\ flips \in Nat
  /\ server \in [state : {"FILENAME", "SEND_DATA", "WAIT_ON_EOF_ACK", "DONE", "UNDEFINED"},
                 windowSize : Nat, bufferSize : Nat, offset : Nat,
                 sequenceNum : Nat \ {0}, packet : Seq(Byte)]
  /\ rcopy \in [state : {"WAIT_ON_FILE_OK", "PROCESS_TRANSFER", "DONE"},
                expected : Nat, outFile : Seq(Byte)]

\* The request, and what one flipped bit leaves of it.
RequestPayload == Htons(args.window) \o Htons(args.buffer) \o Name

Requesting ==
  server.state = "FILENAME" =>
    /\ Number = 1 /\ server.offset = 0 /\ server.packet = <<>>
    /\ rcopy = [state |-> "WAIT_ON_FILE_OK", expected |-> 1, outFile |-> <<>>]
    /\ wire # <<>> =>
         /\ Len(wire) = 11 + Len(Name)
         /\ Flag(wire) \notin DataFlags \cup {EOF_ACK}
         /\ flips = 0 => wire = createPDU(0, FILENAME, RequestPayload)

Stopped == server.state = "UNDEFINED" => wire = <<>> /\ rcopy.state # "DONE"

Transferring == server.state \in {"SEND_DATA", "WAIT_ON_EOF_ACK", "DONE"}

\* The child's file position and the last packet it put into its window.
LastPacket ==
  /\ Number > 1 /\ (Number - 2) * Size < Len(File)
  /\ server.packet = createPDU(Number - 1, DATA, Chunk(File, Size, Number - 1))
  /\ Len(server.packet) <= MAXBUF + 7

Reading ==
  Transferring =>
    /\ server.offset = Position(File, Size, Number)
    /\ Number - 1 <= server.offset
    /\ server.packet # <<>> => LastPacket
    /\ flips = 0 => server.windowSize = Word(Htons(args.window))
    /\ server.state # "SEND_DATA" => Size = 0 \/ server.offset = Len(File)

\* What is on its way during the transfer.
DataOnWire ==
  /\ server.state = "SEND_DATA" /\ server.packet # <<>>
  /\ \E flag \in DataFlags : wire = createPDU(Number - 1, flag, Chunk(File, Size, Number - 1))

InFlight ==
  Transferring =>
    \/ wire = <<>>
    \/ DataOnWire
    \/ server.state = "WAIT_ON_EOF_ACK" /\ wire = createPDU(Number, EOF, <<>>)
    \/ server.state = "WAIT_ON_EOF_ACK" /\ wire = createPDU(Number, EOF_ACK, <<>>)

\* rcopy has every packet but perhaps the one on its way to it for the first
\* time, and has written them.
Receiving ==
  Transferring =>
    /\ rcopy.state \in {"PROCESS_TRANSFER", "DONE"}
    /\ \/ rcopy.expected = Number
       \/ rcopy.expected = Number - 1 /\ server.packet # <<>> /\ wire = server.packet
    /\ rcopy.outFile = SubSeq(File, 1, Position(File, Size, rcopy.expected))
    /\ rcopy.state = "DONE" => server.state # "SEND_DATA"

BytesInv == Types /\ Requesting /\ Stopped /\ Reading /\ InFlight /\ Receiving

-------------------------------------------------------------------------------
LEMMA FlagsAreBytes ==
  /\ DATA \in Byte /\ SREJ_DATA \in Byte /\ TIMEOUT_DATA \in Byte
  /\ EOF \in Byte /\ EOF_ACK \in Byte /\ FILENAME \in Byte
  BY ByteRange DEF DATA, SREJ_DATA, TIMEOUT_DATA, EOF, EOF_ACK, FILENAME

LEMMA FlagsDiffer ==
  /\ EOF \notin DataFlags /\ EOF_ACK \notin DataFlags /\ EOF # EOF_ACK
  /\ FILENAME \notin DataFlags /\ FILENAME # EOF /\ FILENAME # EOF_ACK
  /\ DATA \in DataFlags /\ SREJ_DATA \in DataFlags /\ TIMEOUT_DATA \in DataFlags
  BY DEF DataFlags, DATA, SREJ_DATA, TIMEOUT_DATA, EOF, EOF_ACK, FILENAME

LEMMA PduPartsUnder ==
  ASSUME NEW n \in Nat, n < NumberLimit, NEW flag \in Byte, NEW p \in Seq(Byte)
  PROVE  Parts(createPDU(n, flag, p), n, flag, p)
  BY PduParts DEF NumberLimit

\* The chunks are byte sequences.
LEMMA ChunkType ==
  ASSUME NEW file \in Seq(Byte), NEW size \in Nat, NEW k \in Nat \ {0}
  PROVE  Chunk(file, size, k) \in Seq(Byte)
<1> DEFINE a == (k - 1) * size
           e == Least(k * size, Len(file))
<1>1. a \in Nat /\ k * size \in Nat /\ Len(file) \in Nat
  BY LenProperties
<1>2. e \in Nat /\ e <= Len(file)
  BY <1>1 DEF Least
<1>3. \A i \in 1..Len(file) : file[i] \in Byte
  BY ElementOfSeq
<1> HIDE DEF a, e
<1>4. a + 1 \in Int /\ e \in Int /\ \A i \in (a + 1)..e : file[i] \in Byte
  BY <1>1, <1>2, <1>3
<1>5. SubSeq(file, a + 1, e) \in Seq(Byte)
  BY <1>4, SubSeqProperties
<1>6. QED
  BY Zenon, <1>5 DEF Chunk, a, e

\* What the invariant says of the datagram on its way in a transfer.
LEMMA Arriving ==
  ASSUME BytesInv, Transferring
  PROVE  /\ wire = <<>> \/ Flag(wire) \in DataFlags \/ Flag(wire) = EOF \/ Flag(wire) = EOF_ACK
         /\ wire # <<>> /\ Flag(wire) \in DataFlags => DataOnWire
         /\ wire # <<>> /\ Flag(wire) = EOF =>
              server.state = "WAIT_ON_EOF_ACK" /\ wire = createPDU(Number, EOF, <<>>)
         /\ wire # <<>> /\ Flag(wire) = EOF_ACK =>
              server.state = "WAIT_ON_EOF_ACK" /\ wire = createPDU(Number, EOF_ACK, <<>>)
         /\ Number \in Nat /\ Number < NumberLimit
         /\ server.packet # <<>> => Parts(server.packet, Number - 1, DATA, Chunk(File, Size, Number - 1))
         /\ DataOnWire => /\ wire # <<>> /\ SeqNum(wire) = Number - 1
                          /\ Payload(wire) = Chunk(File, Size, Number - 1)
                          /\ Flag(wire) \in DataFlags
<1>1. /\ File \in Seq(Byte) /\ Size \in Nat /\ Number \in Nat \ {0}
      /\ Len(File) + 1 < NumberLimit /\ server.offset \in Nat
  BY DEF BytesInv, Types, File, Size, Number
<1>2. server.offset <= Len(File)
  <2>1. server.offset = Position(File, Size, Number)
    BY DEF BytesInv, Reading
  <2>2. ReadAt(SubSeq(File, server.offset + 1, Min({server.offset + Size, Len(File)})),
               File, Size, Number, server.offset)
    BY <1>1, <2>1, ChunkAtPosition
  <2>3. QED
    BY <2>2 DEF ReadAt
<1>3. Number < NumberLimit
  <2>1. Number - 1 <= server.offset
    BY DEF BytesInv, Reading
  <2>2. Len(File) \in Nat /\ NumberLimit \in Int
    BY <1>1, LenProperties DEF NumberLimit
  <2>3. QED
    BY <1>1, <1>2, <2>1, <2>2
<1>4. Parts(createPDU(Number, EOF, <<>>), Number, EOF, <<>>)
  BY <1>1, <1>3, FlagsAreBytes, EmptySeq, PduPartsUnder
<1>5. Parts(createPDU(Number, EOF_ACK, <<>>), Number, EOF_ACK, <<>>)
  BY <1>1, <1>3, FlagsAreBytes, EmptySeq, PduPartsUnder
<1>6. ASSUME server.packet # <<>>, NEW flag \in DataFlags
      PROVE  Parts(createPDU(Number - 1, flag, Chunk(File, Size, Number - 1)),
                   Number - 1, flag, Chunk(File, Size, Number - 1))
  <2>1. Number > 1
    BY <1>6 DEF BytesInv, Reading, LastPacket
  <2>2. Number - 1 \in Nat \ {0} /\ Number - 1 < NumberLimit
    BY <1>1, <1>3, <2>1 DEF NumberLimit
  <2>3. Chunk(File, Size, Number - 1) \in Seq(Byte)
    BY <1>1, <2>2, ChunkType
  <2>4. flag \in Byte
    BY FlagsAreBytes DEF DataFlags
  <2>5. QED
    BY <2>2, <2>3, <2>4, PduPartsUnder
<1>7. server.packet # <<>> => Parts(server.packet, Number - 1, DATA, Chunk(File, Size, Number - 1))
  <2> SUFFICES ASSUME server.packet # <<>>
               PROVE  Parts(server.packet, Number - 1, DATA, Chunk(File, Size, Number - 1))
    BY SMT
  <2>1. server.packet = createPDU(Number - 1, DATA, Chunk(File, Size, Number - 1))
    BY DEF BytesInv, Reading, LastPacket
  <2>2. QED
    BY <1>6, <2>1, FlagsDiffer
<1>8. ASSUME DataOnWire
      PROVE  /\ wire # <<>> /\ SeqNum(wire) = Number - 1
             /\ Payload(wire) = Chunk(File, Size, Number - 1)
             /\ Flag(wire) \in DataFlags
  <2>1. PICK flag \in DataFlags : wire = createPDU(Number - 1, flag, Chunk(File, Size, Number - 1))
    BY <1>8 DEF DataOnWire
  <2>2. server.packet # <<>>
    BY <1>8 DEF DataOnWire
  <2>3. Parts(wire, Number - 1, flag, Chunk(File, Size, Number - 1))
    BY <1>6, <2>1, <2>2
  <2>4. QED
    BY <2>3 DEF Parts
<1>9. Flag(createPDU(Number, EOF, <<>>)) = EOF /\ Flag(createPDU(Number, EOF_ACK, <<>>)) = EOF_ACK
  BY <1>4, <1>5 DEF Parts
<1>10. \/ wire = <<>> \/ DataOnWire
       \/ server.state = "WAIT_ON_EOF_ACK" /\ wire = createPDU(Number, EOF, <<>>)
       \/ server.state = "WAIT_ON_EOF_ACK" /\ wire = createPDU(Number, EOF_ACK, <<>>)
  BY DEF BytesInv, InFlight
<1>11. QED
  BY <1>1, <1>3, <1>7, <1>8, <1>9, <1>10, FlagsDiffer

LEMMA InitBytesInv ==
  ASSUME NumbersFit, Init
  PROVE  BytesInv
<1>1. /\ args \in [window : Nat, buffer : Nat, name : Seq(Byte), file : Seq(Byte)]
      /\ args.file \in Files /\ Len(args.name) <= FILENAME_SIZE
  BY DataPathAssumption DEF Init, checkArgs
<1>2. <<>> \in Seq(Byte)
  BY EmptySeq
<1>3. Types
  BY <1>1, <1>2 DEF Init, Types, NumbersFit, File, Name
<1>4. QED
  BY <1>3 DEF BytesInv, Init, Requesting, Stopped, Reading, InFlight, Receiving,
              Transferring, Number

\* The payload of the request.
LEMMA RequestType ==
  ASSUME Types
  PROVE  /\ RequestPayload \in Seq(Byte) /\ Len(RequestPayload) = 4 + Len(Name)
         /\ RequestPayload[1] = Htons(args.window)[1]
         /\ RequestPayload[2] = Htons(args.window)[2]
<1> DEFINE a == Htons(args.window)
           b == Htons(args.buffer)
           c == a \o b
<1>1. a \in Seq(Byte) /\ Len(a) = 2 /\ b \in Seq(Byte) /\ Len(b) = 2
  <2>1. args.window \in Nat /\ args.buffer \in Nat
    BY DEF Types
  <2>2. QED
    BY Zenon, <2>1, HtonsIsTwoBytes
<1>2. Name \in Seq(Byte) /\ Len(Name) \in Nat
  BY LenProperties DEF Types, Name
<1> HIDE DEF a, b
<1>3. /\ a \o b \in Seq(Byte) /\ Len(a \o b) = Len(a) + Len(b)
      /\ \A i \in 1..(Len(a) + Len(b)) : (a \o b)[i] = IF i <= Len(a) THEN a[i] ELSE b[i - Len(a)]
  BY <1>1, ConcatProperties
<1>4. c \in Seq(Byte) /\ Len(c) = 4 /\ c[1] = a[1] /\ c[2] = a[2]
  BY <1>1, <1>3
<1> HIDE DEF c
<1>5. /\ c \o Name \in Seq(Byte) /\ Len(c \o Name) = Len(c) + Len(Name)
      /\ \A i \in 1..(Len(c) + Len(Name)) :
           (c \o Name)[i] = IF i <= Len(c) THEN c[i] ELSE Name[i - Len(c)]
  BY <1>2, <1>4, ConcatProperties
<1> DEFINE r == c \o Name
<1>6. r \in Seq(Byte) /\ Len(r) = 4 + Len(Name) /\ r[1] = c[1] /\ r[2] = c[2]
  BY <1>2, <1>4, <1>5
<1>7. RequestPayload = r
  BY DEF RequestPayload, a, b, c
<1> HIDE DEF r
<1>8. QED
  BY <1>4, <1>6, <1>7 DEF a

LEMMA RequestParts ==
  ASSUME Types
  PROVE  Parts(createPDU(0, FILENAME, RequestPayload), 0, FILENAME, RequestPayload)
<1>1. 0 \in Nat /\ 0 < NumberLimit
  BY SMT DEF NumberLimit
<1>2. QED
  BY <1>1, RequestType, FlagsAreBytes, PduPartsUnder

LEMMA SendRequestStep ==
  ASSUME BytesInv, SendRequest
  PROVE  BytesInv'
<1> DEFINE pdu == createPDU(0, FILENAME, RequestPayload)
<1>1. /\ wire' = pdu /\ server.state = "FILENAME"
      /\ args' = args /\ flips' = flips /\ server' = server /\ rcopy' = rcopy
  BY DEF SendRequest, RequestPayload
<1>2. Types /\ Requesting
  BY DEF BytesInv
<1>3. Parts(pdu, 0, FILENAME, RequestPayload)
  BY <1>2, RequestParts
<1> HIDE DEF pdu
<1>4. pdu \in Seq(Byte) /\ Len(pdu) = 7 + Len(RequestPayload) /\ Flag(pdu) = FILENAME
  BY <1>3 DEF Parts
<1>5. Len(pdu) = 11 + Len(Name)
  <2>1. Len(RequestPayload) = 4 + Len(Name) /\ Len(Name) \in Nat
    BY <1>2, RequestType, LenProperties DEF Types, Name
  <2>2. QED
    BY <1>4, <2>1
<1>6. Types'
  BY <1>1, <1>2, <1>4 DEF Types, File, Name
<1>7. Requesting'
  <2>1. Number' = Number /\ Name' = Name /\ RequestPayload' = RequestPayload
    BY <1>1 DEF Number, Name, RequestPayload
  <2>2. Flag(wire') \notin DataFlags \cup {EOF_ACK}
    BY <1>1, <1>4, FlagsDiffer
  <2>3. Len(wire') = 11 + Len(Name') /\ wire' = createPDU(0, FILENAME, RequestPayload')
    BY <1>1, <1>5, <2>1 DEF pdu
  <2>4. QED
    BY <1>1, <1>2, <2>1, <2>2, <2>3 DEF Requesting
<1>8. QED
  BY <1>1, <1>6, <1>7 DEF BytesInv, Stopped, Reading, InFlight, Receiving, Transferring

\* A bit flipped in a request never makes it a data packet or an EOF
\* acknowledgement.
LEMMA FlippedFlag ==
  ASSUME NEW pdu \in Seq(Byte), Len(pdu) >= 7, pdu[7] = FILENAME,
         NEW bad \in OneBitFlips(pdu)
  PROVE  bad \in Seq(Byte) /\ Len(bad) = Len(pdu) /\ bad[7] \notin DataFlags \cup {EOF_ACK}
<1>1. PICK i \in DOMAIN pdu, w \in {1, 2, 4, 8, 16, 32, 64, 128} :
        bad = [pdu EXCEPT ![i] = IF (@ \div w) % 2 = 0 THEN @ + w ELSE @ - w]
  BY DEF OneBitFlips
<1>2. i \in 1..Len(pdu) /\ pdu[i] \in Byte
  BY LenProperties, ElementOfSeq
<1> DEFINE b == pdu[i]
           c == IF (b \div w) % 2 = 0 THEN b + w ELSE b - w
<1>3. bad = [pdu EXCEPT ![i] = c]
  BY <1>1
<1>4. c \in Byte
  BY <1>2, FlippedBit
<1>5. b = 8 => c \notin {16, 17, 18, 35}
  BY SMT
<1> HIDE DEF c, b
<1>6. /\ bad \in Seq(Byte) /\ Len(bad) = Len(pdu)
      /\ \A j \in 1..Len(pdu) : bad[j] = IF j = i THEN c ELSE pdu[j]
  BY <1>2, <1>3, <1>4, ExceptSeq
<1>7. bad[7] = IF i = 7 THEN c ELSE FILENAME
  <2>1. 7 \in 1..Len(pdu)
    BY LenProperties
  <2>2. QED
    BY <1>6, <2>1
<1>8. DataFlags \cup {EOF_ACK} = {16, 17, 18, 35} /\ FILENAME = 8
  BY DEF DataFlags, DATA, SREJ_DATA, TIMEOUT_DATA, EOF_ACK, FILENAME
<1>9. i = 7 => b = 8
  BY <1>8 DEF b
<1>10. bad[7] \notin {16, 17, 18, 35}
  BY <1>5, <1>7, <1>8, <1>9
<1>11. QED
  BY <1>6, <1>8, <1>10

LEMMA FlipRequestStep ==
  ASSUME BytesInv, FlipRequest
  PROVE  BytesInv'
<1>1. /\ wire # <<>> /\ Flag(wire) = FILENAME /\ flips' = flips + 1
      /\ wire' \in OneBitFlips(wire)
      /\ args' = args /\ server' = server /\ rcopy' = rcopy
  BY DEF FlipRequest
<1>2. Types /\ Requesting /\ Stopped
  BY DEF BytesInv
<1>3. server.state = "FILENAME"
  <2>1. server.state # "UNDEFINED"
    BY <1>1, <1>2 DEF Stopped
  <2>2. ~Transferring
    BY <1>1, Arriving, FlagsDiffer
  <2>3. QED
    BY <1>2, <2>1, <2>2 DEF Types, Transferring
<1>4. Len(wire) = 11 + Len(Name) /\ Len(Name) \in Nat /\ wire \in Seq(Byte) /\ flips \in Nat
  BY <1>1, <1>2, <1>3, LenProperties DEF Requesting, Types, Name
<1>5. /\ wire' \in Seq(Byte) /\ Len(wire') = Len(wire)
      /\ Flag(wire') \notin DataFlags \cup {EOF_ACK}
  <2>1. wire[7] = FILENAME /\ Len(wire) >= 7
    BY <1>1, <1>4 DEF Flag
  <2>2. QED
    BY <1>1, <1>4, <2>1, FlippedFlag DEF Flag
<1>6. flips' \in Nat /\ flips' # 0
  BY <1>1, <1>4
<1>7. Types'
  BY <1>1, <1>2, <1>5, <1>6 DEF Types, File, Name
<1>8. Requesting'
  BY <1>1, <1>2, <1>3, <1>4, <1>5, <1>6 DEF Requesting, Number, Name
<1>9. QED
  BY <1>1, <1>3, <1>7, <1>8 DEF BytesInv, Stopped, Reading, InFlight, Receiving, Transferring

\* A 16-bit field of a payload, used as it came.
LEMMA FieldWord ==
  ASSUME NEW p \in Seq(Byte), NEW i \in Nat \ {0}, NEW j, j = i + 1, j <= Len(p)
  PROVE  Word(SubSeq(p, i, j)) \in Nat /\ Word(SubSeq(p, i, j)) = p[i] + 256 * p[j]
<1> DEFINE s == SubSeq(p, i, j)
<1>1. \A k \in 1..Len(p) : p[k] \in Byte
  BY ElementOfSeq
<1>2. Len(p) \in Nat /\ i \in 1..Len(p) /\ j \in 1..Len(p)
  BY LenProperties
<1>3. i \in Int /\ j \in Int /\ \A k \in i..j : p[k] \in Byte
  BY <1>1, <1>2
<1>4. \A k \in 1..(j - i + 1) : s[k] = p[i + k - 1]
  BY <1>3, SubSeqProperties
<1> HIDE DEF s
<1>5. s[1] = p[i] /\ s[2] = p[j]
  BY <1>2, <1>4
<1>6. p[i] \in Nat /\ p[j] \in Nat
  BY <1>1, <1>2, ByteRange
<1>7. Word(s) = p[i] + 256 * p[j]
  BY <1>5 DEF Word
<1>8. p[i] + 256 * p[j] \in Nat
  BY <1>6
<1>9. QED
  BY <1>7, <1>8 DEF s

LEMMA FilenameStep ==
  ASSUME BytesInv, filename_state
  PROVE  BytesInv'
<1> DEFINE payload == Payload(wire)
           w1 == Word(SubSeq(payload, 1, 2))
           w2 == Word(SubSeq(payload, 3, 4))
<1>1. /\ server.state = "FILENAME" /\ wire # <<>> /\ wire' = <<>>
      /\ args' = args /\ flips' = flips
      /\ \/ /\ server' = [server EXCEPT !.state = "SEND_DATA",
                                        !.windowSize = w1, !.bufferSize = w2]
            /\ rcopy' = [rcopy EXCEPT !.state = "PROCESS_TRANSFER"]
         \/ server' = [server EXCEPT !.state = "UNDEFINED"] /\ rcopy' = rcopy
         \/ server' = server /\ rcopy' = rcopy
  BY DEF filename_state
<1>2. Types /\ Requesting
  BY DEF BytesInv
<1>3. /\ wire \in Seq(Byte) /\ Len(wire) = 11 + Len(Name) /\ Len(Name) \in Nat
      /\ flips = 0 => wire = createPDU(0, FILENAME, RequestPayload)
  BY <1>1, <1>2, LenProperties DEF Types, Requesting, Name
<1>4. payload \in Seq(Byte) /\ Len(payload) = 4 + Len(Name)
  <2>1. \A i \in 1..Len(wire) : wire[i] \in Byte
    BY <1>3, ElementOfSeq
  <2>2. 8 \in Int /\ Len(wire) \in Int /\ \A i \in 8..Len(wire) : wire[i] \in Byte
    BY <1>3, <2>1
  <2>3. /\ payload \in Seq(Byte)
        /\ Len(payload) = IF 8 <= Len(wire) THEN Len(wire) - 8 + 1 ELSE 0
    BY <2>2, SubSeqProperties DEF Payload
  <2> HIDE DEF payload
  <2>4. QED
    BY <1>3, <2>3
<1>5. flips = 0 => payload = RequestPayload
  BY <1>2, <1>3, RequestParts DEF Parts
<1>6. <<>> \in Seq(Byte)
  BY EmptySeq
<1> HIDE DEF payload
<1>7. w1 \in Nat /\ w2 \in Nat /\ w1 = payload[1] + 256 * payload[2]
  <2>1. Len(payload) \in Nat /\ Len(payload) >= 4
    BY <1>3, <1>4
  <2>2. 2 <= Len(payload) /\ 4 <= Len(payload) /\ 2 = 1 + 1 /\ 4 = 3 + 1
    BY <2>1
  <2>3. QED
    BY <1>4, <2>2, FieldWord
<1>8. flips = 0 => w1 = Word(Htons(args.window))
  BY <1>2, <1>5, <1>7, RequestType DEF Word
<1> HIDE DEF w1, w2
<1>9. /\ Number = 1 /\ server.offset = 0 /\ server.packet = <<>>
      /\ rcopy = [state |-> "WAIT_ON_FILE_OK", expected |-> 1, outFile |-> <<>>]
  BY <1>1, <1>2 DEF Requesting
<1>10. CASE /\ server' = [server EXCEPT !.state = "SEND_DATA",
                                        !.windowSize = w1, !.bufferSize = w2]
            /\ rcopy' = [rcopy EXCEPT !.state = "PROCESS_TRANSFER"]
  <2>0. w1 \in Nat /\ w2 \in Nat /\ wire' = <<>> /\ args' = args /\ flips' = flips
    BY <1>1, <1>7
  <2>1. Types'
    BY <1>2, <1>6, <1>10, <2>0 DEF Types, File, Name
  <2>2. /\ server'.state = "SEND_DATA" /\ Number' = 1 /\ server'.offset = 0
        /\ server'.packet = <<>> /\ Size' = w2 /\ server'.windowSize = w1
        /\ rcopy'.state = "PROCESS_TRANSFER" /\ rcopy'.expected = 1
        /\ rcopy'.outFile = <<>> /\ File' = File
    BY <1>1, <1>2, <1>9, <1>10 DEF Types, Number, Size, File
  <2>3. Position(File, w2, 1) = 0
    <3>1. Len(File) \in Nat
      BY <1>2, LenProperties DEF Types, File
    <3>2. (1 - 1) * w2 = 0
      BY <1>7
    <3>3. QED
      BY <3>1, <3>2 DEF Position, Least
  <2>4. Reading'
    BY <1>1, <1>8, <2>2, <2>3 DEF Reading
  <2>5. SubSeq(File, 1, 0) = <<>>
    BY SubSeqEmpty
  <2>6. Receiving'
    BY <2>2, <2>3, <2>5 DEF Receiving
  <2>7. QED
    BY <1>1, <2>1, <2>2, <2>4, <2>6 DEF BytesInv, Requesting, Stopped, InFlight
<1>11. CASE server' = [server EXCEPT !.state = "UNDEFINED"] /\ rcopy' = rcopy
  <2>1. Types'
    BY <1>1, <1>2, <1>6, <1>11 DEF Types, File, Name
  <2>2. server'.state = "UNDEFINED" /\ rcopy'.state # "DONE"
    BY <1>2, <1>9, <1>11 DEF Types
  <2>3. QED
    BY <1>1, <2>1, <2>2 DEF BytesInv, Requesting, Stopped, Reading, InFlight,
                            Receiving, Transferring
<1>12. CASE server' = server /\ rcopy' = rcopy
  <2>1. Types'
    BY <1>1, <1>2, <1>6, <1>12 DEF Types, File, Name
  <2>2. QED
    BY <1>1, <1>9, <1>12, <2>1 DEF BytesInv, Requesting, Stopped, Reading, InFlight,
                                   Receiving, Transferring, Number
<1>13. QED
  BY <1>1, <1>10, <1>11, <1>12

LEMMA SendChunkStep ==
  ASSUME BytesInv, SendChunk
  PROVE  BytesInv'
<1> DEFINE payload == fread(Size)
           pdu == createPDU(Number, DATA, payload)
           eof == createPDU(Number, EOF, <<>>)
<1>1. /\ server.state = "SEND_DATA" /\ wire = <<>>
      /\ args' = args /\ flips' = flips /\ rcopy' = rcopy
      /\ \/ /\ payload # <<>> /\ Len(payload) <= MAXBUF /\ wire' = pdu
            /\ server' = [server EXCEPT !.offset = @ + Len(payload),
                                        !.sequenceNum = @ + 1, !.packet = pdu]
         \/ wire' = <<>> /\ server' = [server EXCEPT !.state = "UNDEFINED"]
         \/ /\ payload = <<>> /\ wire' = eof
            /\ server' = [server EXCEPT !.state = "WAIT_ON_EOF_ACK"]
  BY DEF SendChunk, Size, Number
<1>2. Types /\ Reading /\ Receiving /\ Transferring
  BY <1>1 DEF BytesInv, Transferring
<1>3. /\ File \in Seq(Byte) /\ Size \in Nat /\ Number \in Nat \ {0}
      /\ server.offset = Position(File, Size, Number) /\ Number - 1 <= server.offset
      /\ flips = 0 => server.windowSize = Word(Htons(args.window))
  BY <1>2 DEF Types, Reading, File, Size, Number
<1>4. ReadAt(payload, File, Size, Number, server.offset)
  BY <1>3, ChunkAtPosition DEF fread
<1>5. Number < NumberLimit
  BY <1>2, Arriving
<1> HIDE DEF payload
<1>6. payload \in Seq(Byte) /\ server.offset \in Nat /\ server.offset <= Len(File)
  BY <1>4 DEF ReadAt
<1>7. Parts(pdu, Number, DATA, payload) /\ Parts(eof, Number, EOF, <<>>)
  BY <1>3, <1>5, <1>6, FlagsAreBytes, EmptySeq, PduPartsUnder
<1> HIDE DEF pdu, eof
<1>8. /\ pdu \in Seq(Byte) /\ eof \in Seq(Byte) /\ <<>> \in Seq(Byte) /\ pdu # <<>>
      /\ Len(pdu) = 7 + Len(payload)
  BY <1>7, EmptySeq DEF Parts
<1>9. /\ rcopy.state \in {"PROCESS_TRANSFER", "DONE"} /\ rcopy.state # "DONE"
      /\ rcopy.expected = Number
      /\ rcopy.outFile = SubSeq(File, 1, Position(File, Size, rcopy.expected))
  BY <1>1, <1>2 DEF Receiving
<1>10. CASE /\ payload # <<>> /\ Len(payload) <= MAXBUF /\ wire' = pdu
            /\ server' = [server EXCEPT !.offset = @ + Len(payload),
                                        !.sequenceNum = @ + 1, !.packet = pdu]
  <2>1. /\ payload = Chunk(File, Size, Number) /\ Len(payload) > 0
        /\ (Number - 1) * Size < Len(File)
        /\ server.offset + Len(payload) = Position(File, Size, Number + 1)
        /\ Len(payload) \in Nat
    BY <1>4, <1>6, <1>10, LenProperties DEF ReadAt
  <2>2. Number + 1 \in Nat \ {0} /\ server.offset + Len(payload) \in Nat
    BY <1>3, <1>6, <2>1
  <2>3. Types'
    BY <1>1, <1>2, <1>8, <1>10, <2>2 DEF Types, File, Name, Number
  <2>4. /\ server'.state = "SEND_DATA" /\ Number' = Number + 1
        /\ server'.offset = server.offset + Len(payload)
        /\ server'.packet = pdu /\ Size' = Size /\ File' = File
        /\ server'.windowSize = server.windowSize
    BY <1>1, <1>2, <1>10 DEF Types, Number, Size, File
  <2>5. (Number + 1) - 1 = Number /\ (Number + 1) - 2 = Number - 1 /\ Number + 1 > 1
    BY <1>3
  <2>6. pdu = createPDU(Number, DATA, Chunk(File, Size, Number))
    BY <2>1 DEF pdu
  <2>7. Len(pdu) <= MAXBUF + 7
    BY <1>8, <1>10, <2>1, DataPathAssumption
  <2>8. LastPacket'
    BY <2>1, <2>4, <2>5, <2>6, <2>7 DEF LastPacket
  <2>9. Number <= server.offset + Len(payload)
    BY <1>3, <1>6, <2>1
  <2>10. Reading'
    BY <1>1, <1>3, <2>1, <2>4, <2>5, <2>8, <2>9 DEF Reading
  <2>11. DataOnWire'
    BY <1>8, <1>10, <2>4, <2>5, <2>6, FlagsDiffer DEF DataOnWire
  <2>12. InFlight'
    BY <2>11 DEF InFlight
  <2>13. Receiving'
    BY <1>1, <1>8, <1>9, <1>10, <2>4, <2>5 DEF Receiving
  <2>14. QED
    BY <2>3, <2>4, <2>10, <2>12, <2>13 DEF BytesInv, Requesting, Stopped
<1>11. CASE wire' = <<>> /\ server' = [server EXCEPT !.state = "UNDEFINED"]
  <2>1. Types'
    BY <1>1, <1>2, <1>8, <1>11 DEF Types, File, Name
  <2>2. server'.state = "UNDEFINED" /\ rcopy'.state # "DONE"
    BY <1>1, <1>2, <1>9, <1>11 DEF Types
  <2>3. QED
    BY <1>11, <2>1, <2>2 DEF BytesInv, Requesting, Stopped, Reading, InFlight,
                             Receiving, Transferring
<1>12. CASE /\ payload = <<>> /\ wire' = eof
            /\ server' = [server EXCEPT !.state = "WAIT_ON_EOF_ACK"]
  <2>1. Types'
    BY <1>1, <1>2, <1>8, <1>12 DEF Types, File, Name
  <2>2. /\ server'.state = "WAIT_ON_EOF_ACK" /\ Number' = Number
        /\ server'.offset = server.offset /\ server'.packet = server.packet
        /\ Size' = Size /\ File' = File /\ server'.windowSize = server.windowSize
    BY <1>1, <1>2, <1>12 DEF Types, Number, Size, File
  <2>3. Size = 0 \/ server.offset = Len(File)
    BY <1>4, <1>12 DEF ReadAt
  <2>4. LastPacket' <=> LastPacket
    BY <2>2 DEF LastPacket
  <2>5. Reading'
    BY <1>1, <1>2, <2>2, <2>3, <2>4 DEF Reading
  <2>6. InFlight'
    BY <1>12, <2>2 DEF InFlight, eof
  <2>7. Receiving'
    BY <1>1, <1>9, <2>2 DEF Receiving
  <2>8. QED
    BY <2>1, <2>2, <2>5, <2>6, <2>7 DEF BytesInv, Requesting, Stopped
<1>13. QED
  BY <1>1, <1>10, <1>11, <1>12

LEMMA ResendChunkStep ==
  ASSUME BytesInv, ResendChunk
  PROVE  BytesInv'
<1>1. /\ server.state = "SEND_DATA" /\ wire = <<>> /\ server.packet # <<>>
      /\ args' = args /\ flips' = flips /\ server' = server /\ rcopy' = rcopy
  BY DEF ResendChunk
<1>2. PICK flag \in {SREJ_DATA, TIMEOUT_DATA} : wire' = Resent(server.packet, flag)
  BY DEF ResendChunk
<1>3. Types /\ Reading /\ Receiving /\ Transferring
  BY <1>1 DEF BytesInv, Transferring
<1> DEFINE n == Number - 1
           p == Chunk(File, Size, n)
<1>4. Parts(server.packet, n, DATA, p) /\ Number \in Nat /\ Number < NumberLimit
  BY <1>1, <1>3, Arriving
<1>5. wire' = createPDU(n, flag, p)
  BY <1>2, <1>4 DEF Resent, Parts
<1>6. n \in Nat \ {0} /\ n < NumberLimit /\ p \in Seq(Byte)
  <2>1. Number > 1
    BY <1>1, <1>3 DEF Reading, LastPacket
  <2>2. n \in Nat \ {0} /\ n < NumberLimit
    BY <1>4, <2>1 DEF NumberLimit
  <2>3. QED
    BY <1>3, <2>2, ChunkType DEF Types, File, Size
<1>7. flag \in DataFlags /\ flag \in Byte
  BY FlagsAreBytes, FlagsDiffer
<1>8. wire' \in Seq(Byte)
  <2> HIDE DEF n, p
  <2>1. Parts(createPDU(n, flag, p), n, flag, p)
    BY <1>6, <1>7, PduPartsUnder
  <2>2. QED
    BY <1>5, <2>1 DEF Parts
<1>9. Types'
  BY <1>1, <1>3, <1>8 DEF Types, File, Name
<1>10. Number' = Number /\ Size' = Size /\ File' = File
  BY <1>1 DEF Number, Size, File
<1>11. Reading'
  <2>1. LastPacket' <=> LastPacket
    BY <1>1, <1>10 DEF LastPacket
  <2>2. QED
    BY <1>1, <1>3, <1>10, <2>1 DEF Reading, Transferring
<1>12. DataOnWire'
  BY <1>1, <1>5, <1>7, <1>10 DEF DataOnWire
<1>13. Receiving'
  BY <1>1, <1>3, <1>10 DEF Receiving
<1>14. QED
  BY <1>1, <1>9, <1>11, <1>12, <1>13 DEF BytesInv, Requesting, Stopped, InFlight

LEMMA RecvDataStep ==
  ASSUME BytesInv, RecvData
  PROVE  BytesInv'
<1>1. /\ rcopy.state = "PROCESS_TRANSFER" /\ wire # <<>> /\ Flag(wire) \in DataFlags
      /\ wire' = <<>> /\ args' = args /\ flips' = flips /\ server' = server
      /\ rcopy' = IF SeqNum(wire) = rcopy.expected
                  THEN [rcopy EXCEPT !.expected = @ + 1, !.outFile = @ \o Payload(wire)]
                  ELSE rcopy
  BY DEF RecvData, DataFlags
<1>2. Types /\ Requesting /\ Stopped /\ Reading /\ Receiving
  BY DEF BytesInv
<1>3. Transferring
  BY <1>1, <1>2 DEF Types, Requesting, Stopped, Transferring
<1>4. /\ DataOnWire /\ SeqNum(wire) = Number - 1
      /\ Payload(wire) = Chunk(File, Size, Number - 1)
  BY <1>1, <1>3, Arriving
<1>5. /\ Number > 1 /\ (Number - 2) * Size < Len(File) /\ Number \in Nat
      /\ File \in Seq(Byte) /\ Size \in Nat
  BY <1>2, <1>3, <1>4 DEF DataOnWire, Reading, LastPacket, Types, File, Size, Number
<1>6. Number' = Number /\ Size' = Size /\ File' = File
  BY <1>1 DEF Number, Size, File
<1>7. /\ rcopy'.state = rcopy.state /\ rcopy'.expected = Number
      /\ rcopy'.outFile = SubSeq(File, 1, Position(File, Size, Number))
      /\ rcopy' \in [state : {"WAIT_ON_FILE_OK", "PROCESS_TRANSFER", "DONE"},
                     expected : Nat, outFile : Seq(Byte)]
  <2>1. CASE SeqNum(wire) = rcopy.expected
    <3>1. rcopy.expected = Number - 1
      BY <1>4, <2>1
    <3>2. rcopy.outFile = SubSeq(File, 1, Position(File, Size, Number - 1))
      BY <1>2, <1>3, <3>1 DEF Receiving
    <3>3. Number - 1 \in Nat \ {0} /\ ((Number - 1) - 1) = Number - 2
            /\ (Number - 1) + 1 = Number
      BY <1>5
    <3>4. SubSeq(File, 1, Position(File, Size, Number - 1)) \o Chunk(File, Size, Number - 1)
            = SubSeq(File, 1, Position(File, Size, Number))
      <4>1. ((Number - 1) - 1) * Size < Len(File)
        BY <1>5, <3>3
      <4>2. SubSeq(File, 1, Position(File, Size, Number - 1)) \o Chunk(File, Size, Number - 1)
              = SubSeq(File, 1, Position(File, Size, (Number - 1) + 1))
        BY <1>5, <3>3, <4>1, NextPrefix
      <4>3. QED
        BY <3>3, <4>2
    <3>5. Chunk(File, Size, Number - 1) \in Seq(Byte)
      BY <1>5, <3>3, ChunkType
    <3>6. rcopy.outFile \o Chunk(File, Size, Number - 1) \in Seq(Byte)
      BY <1>2, <3>5, ConcatProperties DEF Types
    <3>7. rcopy' = [rcopy EXCEPT !.expected = @ + 1,
                                 !.outFile = @ \o Chunk(File, Size, Number - 1)]
      BY <1>1, <1>4, <2>1
    <3> DEFINE new == rcopy.outFile \o Chunk(File, Size, Number - 1)
    <3>8. new = SubSeq(File, 1, Position(File, Size, Number)) /\ new \in Seq(Byte)
      BY <3>2, <3>4, <3>6
    <3>9. rcopy' = [rcopy EXCEPT !.expected = @ + 1, !.outFile = new]
      BY <3>7
    <3> HIDE DEF new
    <3>10. QED
      BY <1>2, <1>5, <3>1, <3>3, <3>8, <3>9 DEF Types
  <2>2. CASE SeqNum(wire) # rcopy.expected
    <3>1. rcopy.expected = Number
      BY <1>2, <1>3, <1>4, <2>2 DEF Receiving
    <3>2. QED
      BY <1>1, <1>2, <1>3, <2>2, <3>1 DEF Receiving, Types
  <2>3. QED
    BY <2>1, <2>2
<1>8. Types'
  BY <1>1, <1>2, <1>7, EmptySeq DEF Types, File, Name
<1>9. Reading'
  <2>1. LastPacket' <=> LastPacket
    BY <1>1, <1>6 DEF LastPacket
  <2>2. QED
    BY <1>1, <1>2, <1>6, <2>1 DEF Reading, Transferring
<1>10. Receiving'
  BY <1>1, <1>6, <1>7 DEF Receiving
<1>11. server'.state # "FILENAME" /\ server'.state # "UNDEFINED"
  BY <1>1, <1>3 DEF Transferring
<1>12. QED
  BY <1>1, <1>8, <1>9, <1>10, <1>11 DEF BytesInv, Requesting, Stopped, InFlight

LEMMA RecvEofStep ==
  ASSUME BytesInv, RecvEof
  PROVE  BytesInv'
<1>1. /\ rcopy.state = "PROCESS_TRANSFER" /\ wire # <<>> /\ Flag(wire) = EOF
      /\ wire' = createPDU(SeqNum(wire), EOF_ACK, <<>>)
      /\ rcopy' = [rcopy EXCEPT !.state = "DONE"]
      /\ args' = args /\ flips' = flips /\ server' = server
  BY DEF RecvEof
<1>2. Types /\ Requesting /\ Stopped /\ Reading /\ Receiving
  BY DEF BytesInv
<1>3. Transferring
  BY <1>1, <1>2 DEF Types, Requesting, Stopped, Transferring
<1>4. /\ server.state = "WAIT_ON_EOF_ACK" /\ wire = createPDU(Number, EOF, <<>>)
      /\ Number \in Nat /\ Number < NumberLimit
      /\ server.packet # <<>> => Parts(server.packet, Number - 1, DATA, Chunk(File, Size, Number - 1))
  BY <1>1, <1>3, Arriving
<1>5. SeqNum(wire) = Number
  <2>1. Parts(createPDU(Number, EOF, <<>>), Number, EOF, <<>>)
    BY <1>4, FlagsAreBytes, EmptySeq, PduPartsUnder
  <2>2. QED
    BY <1>4, <2>1 DEF Parts
<1>6. wire' = createPDU(Number, EOF_ACK, <<>>) /\ wire' \in Seq(Byte)
  <2>1. Parts(createPDU(Number, EOF_ACK, <<>>), Number, EOF_ACK, <<>>)
    BY <1>4, FlagsAreBytes, EmptySeq, PduPartsUnder
  <2>2. QED
    BY <1>1, <1>5, <2>1 DEF Parts
<1>7. rcopy.expected = Number
  <2>1. ~(server.packet # <<>> /\ wire = server.packet)
    BY <1>1, <1>4, FlagsDiffer DEF Parts
  <2>2. QED
    BY <1>2, <1>3, <2>1 DEF Receiving
<1>8. Types'
  BY <1>1, <1>2, <1>6 DEF Types, File, Name
<1>9. Number' = Number /\ Size' = Size /\ File' = File
  BY <1>1 DEF Number, Size, File
<1>10. Reading'
  <2>1. LastPacket' <=> LastPacket
    BY <1>1, <1>9 DEF LastPacket
  <2>2. QED
    BY <1>1, <1>2, <1>9, <2>1 DEF Reading, Transferring
<1>11. /\ rcopy'.state = "DONE" /\ rcopy'.expected = rcopy.expected
       /\ rcopy'.outFile = rcopy.outFile
  BY <1>1, <1>2 DEF Types
<1>12. Receiving'
  BY <1>1, <1>2, <1>3, <1>4, <1>7, <1>9, <1>11 DEF Receiving
<1>13. QED
  BY <1>1, <1>4, <1>6, <1>8, <1>9, <1>10, <1>12 DEF BytesInv, Requesting, Stopped, InFlight

LEMMA RecvEofAckStep ==
  ASSUME BytesInv, RecvEofAck
  PROVE  BytesInv'
<1>1. /\ server.state = "WAIT_ON_EOF_ACK" /\ wire # <<>> /\ Flag(wire) = EOF_ACK
      /\ wire' = <<>> /\ args' = args /\ flips' = flips /\ rcopy' = rcopy
      /\ server' = [server EXCEPT !.state = "DONE"] \/ server' = [server EXCEPT !.state = @]
  BY DEF RecvEofAck
<1>2. Types /\ Reading /\ Receiving /\ Transferring
  BY <1>1 DEF BytesInv, Transferring
<1>3. server.packet # <<>> => Parts(server.packet, Number - 1, DATA, Chunk(File, Size, Number - 1))
  BY <1>2, Arriving
<1>4. rcopy.expected = Number
  <2>1. ~(server.packet # <<>> /\ wire = server.packet)
    BY <1>1, <1>3, FlagsDiffer DEF Parts
  <2>2. QED
    BY <1>2, <2>1 DEF Receiving
<1>5. /\ server'.state \in {"DONE", "WAIT_ON_EOF_ACK"} /\ Number' = Number /\ Size' = Size
      /\ File' = File /\ server'.offset = server.offset
      /\ server'.packet = server.packet /\ server'.windowSize = server.windowSize
  BY <1>1, <1>2 DEF Types, Number, Size, File
<1>6. Types'
  BY <1>1, <1>2, EmptySeq DEF Types, File, Name
<1>7. Reading'
  <2>1. LastPacket' <=> LastPacket
    BY <1>5 DEF LastPacket
  <2>2. QED
    BY <1>1, <1>2, <1>5, <2>1 DEF Reading
<1>8. Receiving'
  BY <1>1, <1>2, <1>4, <1>5 DEF Receiving
<1>9. QED
  BY <1>1, <1>5, <1>6, <1>7, <1>8 DEF BytesInv, Requesting, Stopped, InFlight

LEMMA BytesInvInductive ==
  ASSUME BytesInv, [Next]_vars
  PROVE  BytesInv'
<1>1. CASE Next
  BY <1>1, SendRequestStep, FlipRequestStep, FilenameStep, SendChunkStep, ResendChunkStep,
     RecvDataStep, RecvEofStep, RecvEofAckStep DEF Next
<1>2. CASE UNCHANGED vars
  BY <1>2 DEF vars, BytesInv, Types, Requesting, Stopped, Reading, InFlight, Receiving,
     Transferring, LastPacket, DataOnWire, RequestPayload, Number, Size, File, Name
<1>3. QED
  BY <1>1, <1>2

-------------------------------------------------------------------------------
(***************************************************************************)
(* The theorems.                                                           *)
(***************************************************************************)
LEMMA AlwaysBytesInv ==
  ASSUME NumbersFit
  PROVE  Spec => []BytesInv
<1>1. Init => BytesInv
  BY InitBytesInv
<1>2. BytesInv /\ [Next]_vars => BytesInv'
  BY BytesInvInductive
<1>3. QED
  BY <1>1, <1>2, PTL DEF Spec

\* Of every file whose packets can be numbered, and with every chunk size,
\* send_data_state and its resends put the bytes of a packet's number into it.
THEOREM ChunksHaveTheirNumber ==
  ASSUME NumbersFit
  PROVE  Spec => []ChunkOfItsNumber
<1>1. BytesInv => ChunkOfItsNumber
  <2> SUFFICES ASSUME BytesInv, wire # <<>>, Flag(wire) \in DataFlags
               PROVE  Payload(wire) =
                        SubSeq(File, (SeqNum(wire) - 1) * Size + 1,
                               Min({SeqNum(wire) * Size, Len(File)}))
    BY DEF ChunkOfItsNumber, DataFlags, Size
  <2>1. Transferring
    BY DEF BytesInv, Types, Requesting, Stopped, Transferring
  <2>2. /\ DataOnWire /\ SeqNum(wire) = Number - 1 /\ Number \in Nat
        /\ Payload(wire) = Chunk(File, Size, Number - 1)
    BY <2>1, Arriving
  <2>3. Size \in Nat /\ Len(File) \in Int
    BY LenProperties DEF BytesInv, Types, Size, File
  <2>4. Min({(Number - 1) * Size, Len(File)}) = Least((Number - 1) * Size, Len(File))
    <3>1. (Number - 1) * Size \in Int
      BY <2>2, <2>3
    <3>2. QED
      BY <2>3, <3>1, MinOfPair
  <2>5. QED
    BY Zenon, <2>2, <2>4 DEF Chunk
<1>2. QED
  BY <1>1, AlwaysBytesInv, PTL

\* When rcopy has received the end of file (send_eof_ack_state), what
\* process_transfer_state wrote is the file, unless the chunk size is zero.
THEOREM FileIsWhole ==
  ASSUME NumbersFit
  PROVE  Spec => []WholeFileCopied
<1>1. BytesInv => WholeFileCopied
  <2> SUFFICES ASSUME BytesInv, rcopy.state = "DONE"
               PROVE  rcopy.outFile = IF Size = 0 THEN <<>> ELSE File
    BY DEF WholeFileCopied, Size
  <2>1. Transferring
    BY DEF BytesInv, Types, Requesting, Stopped, Transferring
  <2>2. server.state # "SEND_DATA"
    BY <2>1 DEF BytesInv, Receiving
  <2>3. File \in Seq(Byte) /\ Len(File) \in Nat /\ Number \in Nat /\ Size \in Nat
    BY LenProperties DEF BytesInv, Types, File, Size, Number
  <2>4. rcopy.expected = Number
    <3> SUFFICES ASSUME server.packet # <<>>, wire = server.packet PROVE FALSE
      BY <2>1 DEF BytesInv, Receiving
    <3>1. Parts(server.packet, Number - 1, DATA, Chunk(File, Size, Number - 1))
      BY <2>1, Arriving
    <3>2. DataOnWire
      BY <2>1, <3>1, Arriving, FlagsDiffer DEF Parts
    <3>3. QED
      BY <2>2, <3>2 DEF DataOnWire
  <2>5. /\ rcopy.outFile = SubSeq(File, 1, server.offset)
        /\ Size = 0 \/ server.offset = Len(File)
        /\ server.offset = Position(File, Size, Number)
    BY <2>1, <2>2, <2>4 DEF BytesInv, Receiving, Reading
  <2>6. CASE Size = 0
    <3>1. (Number - 1) * Size = 0
      BY <2>3, <2>6
    <3>2. server.offset = 0
      BY <2>3, <2>5, <3>1 DEF Position, Least
    <3>3. SubSeq(File, 1, 0) = <<>>
      BY SubSeqEmpty
    <3>4. QED
      BY <2>5, <2>6, <3>2, <3>3
  <2>7. CASE Size # 0
    BY <2>3, <2>5, <2>7, SubSeqFull
  <2>8. QED
    BY <2>6, <2>7
<1>2. QED
  BY <1>1, AlwaysBytesInv, PTL

\* The checksum of a PDU that fits a datagram is right, and one flipped bit makes
\* it wrong.
FitsDatagram(p) == 7 + Len(p) < 65536
Protected(pdu)  == /\ ChecksumIsZero(pdu)
                   /\ \A bad \in OneBitFlips(pdu) : ~ChecksumIsZero(bad)

LEMMA PduIsProtected ==
  ASSUME NEW n \in Nat, NEW flag \in DataFlags \cup {FILENAME, EOF, EOF_ACK},
         NEW p \in Seq(Byte), FitsDatagram(p)
  PROVE  Protected(createPDU(n, flag, p))
<1>1. flag \in Byte /\ flag > 0
  BY SMT, FlagsAreBytes
  DEF DataFlags, DATA, SREJ_DATA, TIMEOUT_DATA, EOF, EOF_ACK, FILENAME
<1>2. 7 + Len(p) < 65536
  BY SMT DEF FitsDatagram
<1>3. QED
  BY SMT, <1>1, <1>2, ChecksumOfPdu DEF Protected

\* createPDU()'s checksum verifies, and verifies for no PDU in which sendtoErr()
\* flipped a bit: for every request, data packet, EOF and acknowledgement.
THEOREM FlipsAreFound ==
  ASSUME NumbersFit, DatagramsFit
  PROVE  Spec => []ChecksumFindsFlip
<1>1. BytesInv => ChecksumFindsFlip
  <2> SUFFICES ASSUME BytesInv, wire # <<>>, flips = 0
               PROVE  Protected(wire)
    BY DEF ChecksumFindsFlip, Protected
  <2>2. CASE server.state = "FILENAME"
    <3>1. wire = createPDU(0, FILENAME, RequestPayload)
      BY SMT, <2>2 DEF BytesInv, Requesting
    <3>2. Types
      BY DEF BytesInv
    <3>3. RequestPayload \in Seq(Byte) /\ Len(RequestPayload) = 4 + Len(Name)
      BY SMT, <3>2, RequestType
    <3>4. Len(Name) \in Nat /\ Len(Name) <= FILENAME_SIZE
      BY SMT, <3>2, LenProperties DEF Types, Name
    <3>5. FitsDatagram(RequestPayload)
      BY SMT, <3>3, <3>4, DataPathAssumption DEF DatagramsFit, FitsDatagram
    <3>6. QED
      BY <3>1, <3>3, <3>5, PduIsProtected
  <2>3. CASE Transferring
    <3>1. Number \in Nat /\ <<>> \in Seq(Byte) /\ FitsDatagram(<<>>)
      BY SMT, <2>3, Arriving, EmptySeq DEF FitsDatagram
    <3>2. CASE DataOnWire
      <4>1. PICK flag \in DataFlags : wire = createPDU(Number - 1, flag, Chunk(File, Size, Number - 1))
        BY SMT, <3>2 DEF DataOnWire
      <4>2. Parts(server.packet, Number - 1, DATA, Chunk(File, Size, Number - 1))
        BY SMT, <2>3, <3>2, Arriving DEF DataOnWire
      <4>3. /\ Number > 1 /\ Len(server.packet) <= MAXBUF + 7
            /\ File \in Seq(Byte) /\ Size \in Nat
        BY SMT, <2>3, <3>2 DEF BytesInv, Reading, LastPacket, DataOnWire, Types, File, Size
      <4>4. Number - 1 \in Nat \ {0}
        BY SMT, <3>1, <4>3
      <4>5. Chunk(File, Size, Number - 1) \in Seq(Byte)
        BY <4>3, <4>4, ChunkType
      <4>6. FitsDatagram(Chunk(File, Size, Number - 1))
        <5>1. Len(server.packet) = 7 + Len(Chunk(File, Size, Number - 1))
          BY SMT, <4>2 DEF Parts
        <5>2. Len(Chunk(File, Size, Number - 1)) \in Nat
          BY SMT, <4>5, LenProperties
        <5>3. QED
          BY SMT, <4>3, <5>1, <5>2, DataPathAssumption DEF DatagramsFit, FitsDatagram
      <4>7. QED
        BY <4>1, <4>4, <4>5, <4>6, PduIsProtected
    <3>3. CASE wire = createPDU(Number, EOF, <<>>)
      BY <3>1, <3>3, PduIsProtected
    <3>4. CASE wire = createPDU(Number, EOF_ACK, <<>>)
      BY <3>1, <3>4, PduIsProtected
    <3>5. QED
      BY SMT, <2>3, <3>2, <3>3, <3>4 DEF BytesInv, InFlight
  <2>4. QED
    BY SMT, <2>2, <2>3 DEF BytesInv, Types, Stopped, Transferring
<1>2. QED
  BY <1>1, AlwaysBytesInv, PTL

\* filename_state's window and wait_on_eof_ack_state's test are what module
\* WireFormat says, for every window argument and every sequence number.
THEOREM WireFormatHolds ==
  ASSUME NumbersFit
  PROVE  Spec => []WireFormatIsExact
<1>1. ASSUME BytesInv, flips = 0, server.state = "SEND_DATA"
      PROVE  server.windowSize = Abstract!htons(args.window)
  <2>1. server.windowSize = Word(Htons(args.window)) /\ args.window \in Nat
    BY <1>1 DEF BytesInv, Reading, Transferring, Types
  <2>2. /\ Htons(args.window)[1] = (args.window \div 256) % 256
        /\ Htons(args.window)[2] = args.window % 256
    BY SMT DEF Htons
  <2>3. \A a, b \in Nat : a + 256 * b = (b * 256) + a
    BY SMT
  <2>4. (args.window \div 256) % 256 \in Nat /\ args.window % 256 \in Nat
    BY SMT, <2>1
  <2>5. Word(Htons(args.window))
          = ((args.window % 256) * 256) + ((args.window \div 256) % 256)
    BY SMT, <2>2, <2>3, <2>4 DEF Word
  <2>6. QED
    BY SMT, <2>1, <2>5 DEF Abstract!htons
<1>2. ASSUME BytesInv, wire # <<>>, Flag(wire) = EOF_ACK
      PROVE  /\ EofAckChecksumValid(wire) <=> Abstract!ChecksumAccepted(
                  Abstract!createPDU(SeqNum(wire), EOF_ACK, Abstract!NULL))
             /\ EofAckChecksumValid(wire) <=> SeqNum(wire) % 257 = 35
             /\ \A bad \in OneBitFlips(wire) : ~EofAckChecksumValid(bad)
  <2>1. Transferring
    BY <1>2 DEF BytesInv, Types, Requesting, Stopped, Transferring
  <2>2. wire = Ack(Number) /\ Number \in Nat /\ Number < NumberLimit
    BY <1>2, <2>1, Arriving DEF Ack
  <2>3. SeqNum(wire) = Number
    <3>1. Parts(createPDU(Number, EOF_ACK, <<>>), Number, EOF_ACK, <<>>)
      BY <2>2, FlagsAreBytes, EmptySeq, PduPartsUnder
    <3>2. QED
      BY <2>2, <3>1 DEF Parts, Ack
  <2>4. Number < 65536 * 65536
    BY SMT, <2>2 DEF NumberLimit
  <2>5. EofAckChecksumValid(Ack(Number)) <=> Swapped(AckWord(Number)) = AckWord(Number)
    BY SMT, <2>2, AckTest
  <2>6. Swapped(AckWord(Number)) = AckWord(Number) <=> Number % 257 = 35
    BY SMT, <2>2, <2>4, AckResidue
  <2>7. Abstract!ChecksumAccepted(Abstract!createPDU(Number, EOF_ACK, Abstract!NULL))
          <=> Swapped(AckWord(Number)) = AckWord(Number)
    BY SMT, <2>2, AckAbstract
  <2>8. \A bad \in OneBitFlips(Ack(Number)) : ~EofAckChecksumValid(bad)
    BY SMT, <2>2, AckFlips
  <2>9. QED
    BY SMT, <2>2, <2>3, <2>5, <2>6, <2>7, <2>8
<1>3. BytesInv => WireFormatIsExact
  BY SMT, <1>1, <1>2 DEF WireFormatIsExact
<1>4. QED
  BY <1>3, AlwaysBytesInv, PTL
===============================================================================
