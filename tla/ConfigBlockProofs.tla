------------------------- MODULE ConfigBlockProofs -------------------------
(***************************************************************************)
(* The configuration block, for every size of the bytes, sectors and       *)
(* blocks and every dump: what patch_ibm_lock.py writes is sealed, differs *)
(* in the descriptor and the checksum only, and is not changed by a second *)
(* run; the comparisons by blocks show exactly the bytes that changed, and *)
(* that by records shows the record of the descriptor and no other.        *)
(***************************************************************************)
EXTENDS ConfigBlock, CommonFacts, SequenceTheorems, FiniteSetTheorems

-----------------------------------------------------------------------------
(***************************************************************************)
(* Numbers and sums.                                                       *)
(***************************************************************************)
LEMMA WordPositive == Base \in Nat \ {0} /\ Word \in Nat \ {0} /\ Base <= Word
<1>1. Base \in Nat /\ Base > 8
  BY ConfigAssumption
<1> QED
  BY <1>1, PositiveMultiple DEF Word

\* Two bytes are a number of 16 bits.
LEMMA Le16Number ==
  ASSUME NEW a \in Bytes, NEW b \in Bytes
  PROVE  a + Base * b \in 0..(Word - 1)
<1>1. Base \in Nat \ {0} /\ Word \in Nat
  BY WordPositive
<1>2. Base * b + a < Base * Base
  BY <1>1, BelowMultiple DEF Bytes
<1>3. Base * b \in Nat
  BY <1>1 DEF Bytes
<1> QED
  BY <1>1, <1>2, <1>3 DEF Word, Bytes

\* The sums that summ_le16 comes to, one after another.
LEMMA SumLoop ==
  ASSUME NEW seg \in Seq(Bytes)
  PROVE  \E f :
           /\ f[0] = 0 /\ summ_le16(seg) = f[Len(seg) \div 2]
           /\ \A k \in 1..(Len(seg) \div 2) : f[k] = (f[k - 1] + le16(seg, 2 * k - 1)) % Word
           /\ \A k \in 0..(Len(seg) \div 2) : f[k] \in 0..(Word - 1)
<1> DEFINE n == Len(seg) \div 2
           S == 0..(Word - 1)
           step == [x \in S \X (1..n) |-> (x[1] + le16(seg, 2 * x[2] - 1)) % Word]
           Sums(f) == f = [k \in 0..n |->
              IF k = 0 THEN 0 ELSE (f[k - 1] + le16(seg, 2 * k - 1)) % Word]
<1>1. Word \in Nat \ {0} /\ Len(seg) \in Nat /\ n \in Nat /\ 2 * n <= Len(seg)
  BY WordPositive, LenProperties
<1>2. ASSUME NEW k \in 1..n, NEW s \in S
      PROVE  (s + le16(seg, 2 * k - 1)) % Word \in S
  <2>1. 2 * k - 1 \in 1..Len(seg) /\ 2 * k \in 1..Len(seg) /\ (2 * k - 1) + 1 = 2 * k
    BY <1>1
  <2>2. seg[2 * k - 1] \in Bytes /\ seg[2 * k] \in Bytes
    BY <2>1, ElementOfSeq
  <2>3. le16(seg, 2 * k - 1) \in 0..(Word - 1)
    BY <2>1, <2>2, Le16Number DEF le16
  <2>4. s + le16(seg, 2 * k - 1) \in Nat
    BY <1>1, <2>3
  <2> QED
    BY <1>1, <2>4, Quotient
<1>3. \E f : Sums(f)
  <2>1. step \in [S \X (1..n) -> S]
    BY <1>2
  <2>2. 0 \in S
    BY <1>1
  <2> HIDE DEF n, S, step, Sums
  <2>3. PICK f \in [0..n -> S] : IsRun(f, 0, n, step)
    BY <1>1, <2>1, <2>2, Iteration
  <2>4. ASSUME NEW k \in 1..n
        PROVE  f[k] = (f[k - 1] + le16(seg, 2 * k - 1)) % Word
    <3>1. k - 1 \in 0..n
      BY <1>1
    <3>2. f[k - 1] \in S
      BY <3>1
    <3> QED
      BY <2>3, <3>2 DEF IsRun, step, S
  <2>5. \A k \in 0..n : f[k] = IF k = 0 THEN 0 ELSE (f[k - 1] + le16(seg, 2 * k - 1)) % Word
    BY <1>1, <2>3, <2>4 DEF IsRun
  <2> QED
    BY <2>5 DEF Sums
<1> DEFINE f == CHOOSE g : Sums(g)
<1>4. Sums(f)
  BY <1>3, Zenon
<1>5. summ_le16(seg) = f[n]
  BY DEF summ_le16
<1> HIDE DEF f
<1>6. f[0] = 0 /\ \A k \in 1..n : f[k] = (f[k - 1] + le16(seg, 2 * k - 1)) % Word
  BY <1>1, <1>4
<1> DEFINE T == {k \in Nat : k <= n => f[k] \in S}
<1>7. 0 \in T
  BY <1>1, <1>6
<1>8. ASSUME NEW k \in Nat, k \in T
      PROVE  k + 1 \in T
  <2> SUFFICES ASSUME k + 1 <= n PROVE f[k + 1] \in S
    OBVIOUS
  <2>1. f[k] \in S /\ k + 1 \in 1..n /\ (k + 1) - 1 = k
    BY <1>1, <1>8
  <2> HIDE DEF S
  <2> QED
    BY <1>2, <1>6, <2>1
<1>9. Nat \subseteq T
  <2> HIDE DEF T
  <2> QED
    BY <1>7, <1>8, NatSetInduction
<1>10. \A k \in 0..n : f[k] \in S
  <2>1. \A k \in 0..n : k \in Nat /\ k <= n
    BY <1>1
  <2> QED
    BY <1>9, <2>1
<1> QED
  BY <1>5, <1>6, <1>10

\* summ_le16 returns a number of 16 bits, whatever it sums.
LEMMA SumNumber ==
  ASSUME NEW seg \in Seq(Bytes)
  PROVE  summ_le16(seg) \in 0..(Word - 1)
<1>1. Len(seg) \in Nat
  BY LenProperties
<1>2. PICK n \in Nat : n = Len(seg) \div 2
  BY <1>1
<1>3. n \in 0..n
  OBVIOUS
<1> QED
  BY <1>2, <1>3, SumLoop

\* It does not matter where a sum is reduced.
LEMMA ReducedSum ==
  ASSUME NEW a \in Nat, NEW b \in Nat
  PROVE  ((a % Word) + b) % Word = (a + b) % Word
<1>1. Word \in Nat \ {0}
  BY WordPositive
<1>2. PICK q \in Nat, c \in 0..(Word - 1) : a % Word = c /\ a = Word * q + c
  <2>1. /\ a \div Word \in Nat /\ a % Word \in 0..(Word - 1)
        /\ a = Word * (a \div Word) + (a % Word)
    BY <1>1, Quotient
  <2> QED
    BY <2>1
<1>3. PICK x \in Nat : x = c + b
  BY <1>1
<1>4. PICK p \in Nat, e \in 0..(Word - 1) : x % Word = e /\ x = Word * p + e
  <2>1. /\ x \div Word \in Nat /\ x % Word \in 0..(Word - 1)
        /\ x = Word * (x \div Word) + (x % Word)
    BY <1>1, Quotient
  <2> QED
    BY <2>1
<1>5. PICK y \in Nat, r \in Nat : y = a + b /\ r = q + p
  OBVIOUS
<1>6. y = Word * r + e
  BY <1>1, <1>2, <1>3, <1>4, <1>5
<1>7. y % Word = e
  BY <1>1, <1>6, QuotientUnique
<1> QED
  BY <1>2, <1>3, <1>4, <1>5, <1>7

\* The bytes of a number below Word make this number again.
LEMMA Be16Bytes ==
  ASSUME NEW n \in 0..(Word - 1)
  PROVE  /\ be16_bytes(n) \in Seq(Bytes) /\ Len(be16_bytes(n)) = 2
         /\ Base * be16_bytes(n)[1] + be16_bytes(n)[2] = n
<1>1. Base \in Nat \ {0} /\ Word \in Nat /\ n \in Nat /\ n < Word
  BY WordPositive
<1>2. PICK q \in Nat : n \div Base = q
  BY <1>1, Quotient
<1>3. PICK c \in 0..(Base - 1) : n % Base = c
  BY <1>1, Quotient
<1>4. n = Base * q + c
  BY <1>1, <1>2, <1>3, Quotient
<1>5. q < Base
  BY <1>1, <1>4, BelowMultiple DEF Word
<1>6. be16_bytes(n) = <<q, c>>
  BY <1>2, <1>3 DEF be16_bytes
<1>7. q \in Bytes /\ c \in Bytes
  BY <1>1, <1>5 DEF Bytes
<1>8. <<q, c>> \in Seq(Bytes) /\ Len(<<q, c>>) = 2 /\ <<q, c>>[1] = q /\ <<q, c>>[2] = c
  BY <1>7
<1> QED
  BY <1>4, <1>6, <1>8

\* The same for four bytes.
LEMMA Be32Bytes ==
  ASSUME NEW n \in 0..(Word * Word - 1)
  PROVE  /\ be32_bytes(n) \in Seq(Bytes) /\ Len(be32_bytes(n)) = 4
         /\ be32(be32_bytes(n), 1) = n
<1>1. Word \in Nat \ {0} /\ Word * Word \in Nat /\ n \in Nat /\ n < Word * Word
  BY WordPositive
<1>2. PICK q \in Nat : n \div Word = q
  BY <1>1, Quotient
<1>3. PICK c \in 0..(Word - 1) : n % Word = c
  BY <1>1, Quotient
<1>4. n = Word * q + c
  BY <1>1, <1>2, <1>3, Quotient
<1>5. q \in 0..(Word - 1)
  BY <1>1, <1>4, BelowMultiple
<1> DEFINE h == be16_bytes(q)
           l == be16_bytes(c)
<1>6. /\ h \in Seq(Bytes) /\ Len(h) = 2 /\ Base * h[1] + h[2] = q
      /\ l \in Seq(Bytes) /\ Len(l) = 2 /\ Base * l[1] + l[2] = c
  BY <1>5, Be16Bytes
<1>7. be32_bytes(n) = h \o l
  BY <1>2, <1>3 DEF be32_bytes
<1> HIDE DEF h, l
<1>8. /\ h \o l \in Seq(Bytes) /\ Len(h \o l) = 4
      /\ (h \o l)[1] = h[1] /\ (h \o l)[2] = h[2]
      /\ (h \o l)[3] = l[1] /\ (h \o l)[4] = l[2]
  <2> DEFINE t == h \o l
  <2>1. /\ t \in Seq(Bytes) /\ Len(t) = Len(h) + Len(l)
        /\ \A i \in 1..Len(h) + Len(l) :
             t[i] = IF i <= Len(h) THEN h[i] ELSE l[i - Len(h)]
    BY <1>6, ConcatProperties, Zenon
  <2> HIDE DEF t
  <2>2. \A i \in 1..4 : t[i] = IF i <= 2 THEN h[i] ELSE l[i - 2]
    BY <1>6, <2>1
  <2>3. Len(t) = 4 /\ t[1] = h[1] /\ t[2] = h[2] /\ t[3] = l[1] /\ t[4] = l[2]
    BY <1>6, <2>1, <2>2
  <2> QED
    BY <2>1, <2>3 DEF t
<1> DEFINE t == h \o l
<1>9. be32(t, 1) = Word * (Base * t[1] + t[2]) + (Base * t[3] + t[4])
  BY DEF be32, be16
<1> HIDE DEF t
<1>10. be32(t, 1) = n
  BY <1>4, <1>6, <1>8, <1>9 DEF t
<1> QED
  BY <1>7, <1>8, <1>10 DEF t

\* Four bytes that are those of n are read as n, wherever they are.
LEMMA Be32Placed ==
  ASSUME NEW d, NEW p \in Nat, NEW n \in 0..(Word * Word - 1),
         \A k \in 1..4 : d[p + k - 1] = be32_bytes(n)[k]
  PROVE  be32(d, p) = n
<1> DEFINE b == be32_bytes(n)
<1> HIDE DEF b
<1>1. d[p] = b[1] /\ d[p + 1] = b[2] /\ d[p + 2] = b[3] /\ d[p + 2 + 1] = b[4]
  <2>1. d[p + 1 - 1] = b[1] /\ d[p + 2 - 1] = b[2] /\ d[p + 3 - 1] = b[3] /\ d[p + 4 - 1] = b[4]
    BY DEF b
  <2>2. /\ p + 1 - 1 = p /\ p + 2 - 1 = p + 1 /\ p + 3 - 1 = p + 2
        /\ p + 4 - 1 = p + 2 + 1
    OBVIOUS
  <2> QED
    BY <2>1, <2>2
<1>2. be32(b, 1) = n
  BY Be32Bytes DEF b
<1> QED
  BY <1>1, <1>2 DEF be32, be16

\* What four bytes make is a natural number.
LEMMA Be32Number ==
  ASSUME NEW d, NEW p \in Nat, \A k \in p..(p + 3) : d[k] \in Bytes
  PROVE  be32(d, p) \in Nat
<1>1. Base \in Nat /\ Word \in Nat
  BY WordPositive
<1>2. d[p] \in Nat /\ d[p + 1] \in Nat /\ d[p + 2] \in Nat /\ d[p + 2 + 1] \in Nat
  <2>1. {p, p + 1, p + 2, p + 2 + 1} \subseteq p..(p + 3)
    OBVIOUS
  <2> QED
    BY <2>1, <1>1 DEF Bytes
<1>3. be16(d, p) \in Nat /\ be16(d, p + 2) \in Nat
  BY <1>1, <1>2 DEF be16
<1> QED
  BY <1>1, <1>3 DEF be32

-----------------------------------------------------------------------------
(***************************************************************************)
(* Slices.                                                                 *)
(***************************************************************************)
LEMMA PieceFacts ==
  ASSUME NEW d \in Seq(Bytes), NEW m \in Int, NEW n \in Int, 1 <= m, n <= Len(d)
  PROVE  /\ SubSeq(d, m, n) \in Seq(Bytes)
         /\ Len(SubSeq(d, m, n)) = IF m <= n THEN n - m + 1 ELSE 0
         /\ \A i \in 1..(n - m + 1) : SubSeq(d, m, n)[i] = d[m + i - 1]
<1>1. \A i \in m..n : d[i] \in Bytes
  <2>1. Len(d) \in Nat
    BY LenProperties
  <2> QED
    BY <2>1, ElementOfSeq
<1> QED
  BY <1>1, SubSeqProperties

\* What s followed by t is.
LEMMA JoinFacts ==
  ASSUME NEW s \in Seq(Bytes), NEW t \in Seq(Bytes)
  PROVE  /\ s \o t \in Seq(Bytes)
         /\ Len(s \o t) = Len(s) + Len(t)
         /\ \A i \in 1..Len(s) : (s \o t)[i] = s[i]
         /\ \A i \in 1..Len(t) : (s \o t)[Len(s) + i] = t[i]
  BY ConcatProperties, LenProperties

\* A slice has the bytes from p, n of them or as many as there are.
LEMMA SliceFacts ==
  ASSUME NEW d \in Seq(Bytes), NEW p \in 1..(Len(d) + 1), NEW n \in Nat
  PROVE  /\ slice(d, p, n) \in Seq(Bytes)
         /\ Len(slice(d, p, n)) \in Nat
         /\ p + n - 1 <= Len(d) => Len(slice(d, p, n)) = n
         /\ p + n - 1 > Len(d) => Len(slice(d, p, n)) = Len(d) - p + 1
         /\ \A i \in 1..Len(slice(d, p, n)) :
              slice(d, p, n)[i] = d[p + i - 1] /\ p + i - 1 \in 1..Len(d)
<1> DEFINE e == IF p + n - 1 > Len(d) THEN Len(d) ELSE p + n - 1
           s == SubSeq(d, p, e)
<1>1. Len(d) \in Nat
  BY LenProperties
<1>2. /\ p \in Int /\ e \in Int /\ 1 <= p /\ e <= Len(d) /\ p <= e + 1
      /\ p + n - 1 <= Len(d) => e - p + 1 = n
      /\ p + n - 1 > Len(d) => e - p + 1 = Len(d) - p + 1
  BY <1>1
<1>3. slice(d, p, n) = s
  BY DEF slice
<1> HIDE DEF e
<1>4. /\ s \in Seq(Bytes)
      /\ Len(s) = IF p <= e THEN e - p + 1 ELSE 0
      /\ \A i \in 1..(e - p + 1) : s[i] = d[p + i - 1]
  BY <1>2, PieceFacts
<1> HIDE DEF s
<1>5. Len(s) = e - p + 1
  BY <1>2, <1>4
<1>6. \A i \in 1..Len(s) : s[i] = d[p + i - 1] /\ p + i - 1 \in 1..Len(d)
  BY <1>1, <1>2, <1>4, <1>5
<1>7. Len(s) \in Nat
  BY <1>2, <1>5
<1> QED
  BY <1>2, <1>3, <1>4, <1>5, <1>6, <1>7

\* What an assignment to a slice leaves: the bytes before it, s, and those behind.
LEMMA PutPieces ==
  ASSUME NEW d \in Seq(Bytes), NEW p \in 1..(Len(d) + 1), NEW n \in Nat,
         NEW s \in Seq(Bytes)
  PROVE  /\ put(d, p, n, s) \in Seq(Bytes)
         /\ Len(put(d, p, n, s)) = Len(d) - Len(slice(d, p, n)) + Len(s)
         /\ \A i \in 1..(p - 1) : put(d, p, n, s)[i] = d[i]
         /\ \A i \in 1..Len(s) : put(d, p, n, s)[p + i - 1] = s[i]
         /\ \A i \in (p + n)..Len(d) : put(d, p, n, s)[i - n + Len(s)] = d[i]
<1> DEFINE a == SubSeq(d, 1, p - 1)
           c == SubSeq(d, p + n, Len(d))
           as == a \o s
           t == as \o c
<1>1. Len(d) \in Nat /\ Len(s) \in Nat
  BY LenProperties
<1>2. a \in Seq(Bytes) /\ Len(a) = p - 1 /\ \A i \in 1..(p - 1) : a[i] = d[i]
  <2>1. 1 \in Int /\ p - 1 \in Int /\ p - 1 <= Len(d) /\ p - 1 - 1 + 1 = p - 1
    BY <1>1
  <2>2. /\ a \in Seq(Bytes) /\ Len(a) = IF 1 <= p - 1 THEN p - 1 - 1 + 1 ELSE 0
        /\ \A i \in 1..(p - 1 - 1 + 1) : a[i] = d[1 + i - 1]
    BY <2>1, PieceFacts
  <2> HIDE DEF a
  <2> QED
    BY <2>1, <2>2
<1>3. /\ c \in Seq(Bytes)
      /\ Len(c) = IF p + n <= Len(d) THEN Len(d) - p - n + 1 ELSE 0
      /\ \A i \in 1..Len(c) : c[i] = d[p + n + i - 1]
  <2>1. p + n \in Int /\ 1 <= p + n /\ Len(d) \in Int
    BY <1>1
  <2>2. /\ c \in Seq(Bytes)
        /\ Len(c) = IF p + n <= Len(d) THEN Len(d) - (p + n) + 1 ELSE 0
        /\ \A i \in 1..(Len(d) - (p + n) + 1) : c[i] = d[p + n + i - 1]
    BY <2>1, PieceFacts
  <2> HIDE DEF c
  <2> QED
    BY <1>1, <2>2
<1> HIDE DEF a, c
<1>4. /\ as \in Seq(Bytes) /\ Len(as) = Len(a) + Len(s)
      /\ \A i \in 1..Len(a) : as[i] = a[i]
      /\ \A i \in 1..Len(s) : as[Len(a) + i] = s[i]
  BY <1>2, JoinFacts
<1> HIDE DEF as
<1>5. /\ t \in Seq(Bytes) /\ Len(t) = Len(as) + Len(c)
      /\ \A i \in 1..Len(as) : t[i] = as[i]
      /\ \A i \in 1..Len(c) : t[Len(as) + i] = c[i]
  BY <1>3, <1>4, JoinFacts
<1>6. put(d, p, n, s) = t
  BY DEF put, as, a, c
<1> HIDE DEF t
<1>7. /\ Len(a) = p - 1 /\ Len(as) = p - 1 + Len(s)
      /\ Len(c) = IF p + n <= Len(d) THEN Len(d) - p - n + 1 ELSE 0
      /\ Len(t) = p - 1 + Len(s) + Len(c)
  BY <1>2, <1>3, <1>4, <1>5
<1>8. Len(t) = Len(d) - Len(slice(d, p, n)) + Len(s)
  <2>1. /\ Len(slice(d, p, n)) \in Nat
        /\ p + n - 1 <= Len(d) => Len(slice(d, p, n)) = n
        /\ p + n - 1 > Len(d) => Len(slice(d, p, n)) = Len(d) - p + 1
    BY SliceFacts
  <2>2. Len(slice(d, p, n)) \in Nat /\ Len(c) \in Nat
    BY <1>1, <1>7, <2>1
  <2>3. PICK l \in Nat : Len(slice(d, p, n)) = l
    BY <2>2
  <2>4. PICK m \in Nat : Len(c) = m
    BY <2>2
  <2>5. p \in Nat /\ p + m = Len(d) + 1 - l
    BY <1>1, <1>7, <2>1, <2>3, <2>4
  <2>6. Len(t) = p - 1 + Len(s) + m
    BY <1>7, <2>4
  <2> QED
    BY <1>1, <2>3, <2>5, <2>6
<1>9. ASSUME NEW i \in 1..(p - 1)
      PROVE  t[i] = d[i]
  <2>1. i \in 1..Len(as) /\ i \in 1..Len(a)
    BY <1>1, <1>7
  <2> QED
    BY <1>2, <1>4, <1>5, <2>1
<1>10. ASSUME NEW i \in 1..Len(s)
       PROVE  t[p + i - 1] = s[i]
  <2>1. p + i - 1 = Len(a) + i /\ Len(a) + i \in 1..Len(as)
    BY <1>1, <1>7
  <2> QED
    BY <1>4, <1>5, <2>1
<1>11. ASSUME NEW i \in (p + n)..Len(d)
       PROVE  t[i - n + Len(s)] = d[i]
  <2> DEFINE k == i - p - n + 1
  <2>1. k \in 1..Len(c) /\ i - n + Len(s) = Len(as) + k /\ p + n + k - 1 = i
    BY <1>1, <1>7
  <2> HIDE DEF k
  <2> QED
    BY <1>3, <1>5, <2>1
<1> QED
  BY <1>5, <1>6, <1>8, <1>9, <1>10, <1>11

\* An assignment of as many bytes as there were changes these in place.
LEMMA PutInPlace ==
  ASSUME NEW d \in Seq(Bytes), NEW p \in 1..(Len(d) + 1), NEW n \in Nat,
         NEW s \in Seq(Bytes), Len(s) = Len(slice(d, p, n))
  PROVE  /\ put(d, p, n, s) \in Seq(Bytes)
         /\ Len(put(d, p, n, s)) = Len(d)
         /\ \A i \in 1..Len(d) :
              put(d, p, n, s)[i] =
                IF i \in p..(p + Len(s) - 1) THEN s[i - p + 1] ELSE d[i]
<1> DEFINE t == put(d, p, n, s)
<1>1. Len(d) \in Nat /\ Len(s) \in Nat
  BY LenProperties
<1>2. /\ t \in Seq(Bytes) /\ Len(t) = Len(d) - Len(slice(d, p, n)) + Len(s)
      /\ \A i \in 1..(p - 1) : t[i] = d[i]
      /\ \A i \in 1..Len(s) : t[p + i - 1] = s[i]
      /\ \A i \in (p + n)..Len(d) : t[i - n + Len(s)] = d[i]
  BY PutPieces
<1>3. /\ p + n - 1 <= Len(d) => Len(s) = n
      /\ p + n - 1 > Len(d) => Len(s) = Len(d) - p + 1
  BY SliceFacts
<1> HIDE DEF t
<1>4. ASSUME NEW i \in 1..Len(d)
      PROVE  t[i] = IF i \in p..(p + Len(s) - 1) THEN s[i - p + 1] ELSE d[i]
  <2>1. CASE i < p
    <3>1. i \in 1..(p - 1) /\ ~(i \in p..(p + Len(s) - 1))
      BY <1>1, <2>1
    <3> QED
      BY <1>2, <3>1
  <2>2. CASE i \in p..(p + Len(s) - 1)
    <3>1. i - p + 1 \in 1..Len(s) /\ p + (i - p + 1) - 1 = i
      BY <1>1, <2>2
    <3>2. t[p + (i - p + 1) - 1] = s[i - p + 1]
      BY <1>2, <3>1
    <3> QED
      BY <2>2, <3>1, <3>2
  <2>3. CASE i > p + Len(s) - 1
    <3>1. Len(s) = n /\ i \in (p + n)..Len(d) /\ i - n + Len(s) = i
      BY <1>1, <1>3, <2>3
    <3>2. t[i - n + Len(s)] = d[i]
      BY <1>2, <3>1
    <3> QED
      BY <2>3, <3>1, <3>2
  <2>4. i < p \/ i \in p..(p + Len(s) - 1) \/ i > p + Len(s) - 1
    BY <1>1
  <2> QED
    BY <2>1, <2>2, <2>3, <2>4
<1>5. Len(t) = Len(d)
  BY <1>1, <1>2
<1> QED
  BY <1>2, <1>4, <1>5 DEF t

-----------------------------------------------------------------------------
(***************************************************************************)
(* The checksum.                                                           *)
(***************************************************************************)
\* The checksum makes up for the sum.
LEMMA NegatedNumber ==
  ASSUME NEW n \in 0..(Word - 1)
  PROVE  (-n) % Word \in 0..(Word - 1) /\ (n + ((-n) % Word)) % Word = 0
<1>1. Word \in Nat \ {0} /\ -n \in Int /\ n \in Nat /\ n < Word
  BY WordPositive
<1>2. PICK x \in 0..(Word - 1) : (-n) % Word = x
  BY <1>1
<1>3. n + x = 0 \/ n + x = Word
  <2>1. n = 0 => x = 0
    BY <1>1, <1>2
  <2>2. n # 0 => x = Word - n
    BY <1>1, <1>2
  <2> QED
    BY <1>1, <2>1, <2>2
<1>4. 0 % Word = 0 /\ Word % Word = 0
  BY <1>1
<1> QED
  BY <1>2, <1>3, <1>4

\* The two bytes of a checksum.
LEMMA ChecksumBytes ==
  ASSUME NEW x \in 0..(Word - 1)
  PROVE  /\ <<x % Base, x \div Base>> \in Seq(Bytes)
         /\ Len(<<x % Base, x \div Base>>) = 2
<1>1. Base \in Nat \ {0} /\ Word \in Nat /\ x \in Nat /\ x < Word
  BY WordPositive
<1>2. PICK q \in Nat : x \div Base = q
  BY <1>1, Quotient
<1>3. PICK c \in 0..(Base - 1) : x % Base = c
  BY <1>1, Quotient
<1>4. x = Base * q + c
  BY <1>1, <1>2, <1>3, Quotient
<1>5. q < Base
  BY <1>1, <1>4, BelowMultiple DEF Word
<1>6. q \in Bytes /\ c \in Bytes
  BY <1>1, <1>5 DEF Bytes
<1> QED
  BY <1>2, <1>3, <1>6

\* A block with a header gets its checksum in place, a shorter one grows.
LEMMA PutChecksum ==
  ASSUME NEW blk \in Seq(Bytes), NEW x \in 0..(Word - 1)
  PROVE  /\ put_checksum(blk, x) \in Seq(Bytes)
         /\ Len(blk) >= 8 =>
              /\ Len(put_checksum(blk, x)) = Len(blk)
              /\ put_checksum(blk, x)[7] = x % Base
              /\ put_checksum(blk, x)[8] = x \div Base
              /\ \A i \in 1..Len(blk) : i \notin {7, 8} => put_checksum(blk, x)[i] = blk[i]
         /\ Len(blk) < 8 => Len(put_checksum(blk, x)) > Len(blk)
<1> DEFINE s == <<x % Base, x \div Base>>
           t == put_checksum(blk, x)
           p == IF Len(blk) < 6 THEN Len(blk) + 1 ELSE 7
<1>1. s \in Seq(Bytes) /\ Len(s) = 2 /\ s[1] = x % Base /\ s[2] = x \div Base
  BY ChecksumBytes
<1>2. Len(blk) \in Nat /\ p \in 1..(Len(blk) + 1)
  BY LenProperties
<1>3. PICK n \in Nat : n = 2
  OBVIOUS
<1>4. t = put(blk, p, n, s)
  BY <1>3 DEF put_checksum
<1>5. (Len(blk) < 6 => p = Len(blk) + 1) /\ (Len(blk) >= 6 => p = 7)
  BY <1>2
<1> HIDE DEF s, t, p
<1>6. /\ Len(slice(blk, p, n)) \in Nat
      /\ p + n - 1 <= Len(blk) => Len(slice(blk, p, n)) = n
      /\ p + n - 1 > Len(blk) => Len(slice(blk, p, n)) = Len(blk) - p + 1
  BY <1>2, SliceFacts
<1>7. t \in Seq(Bytes) /\ Len(t) = Len(blk) - Len(slice(blk, p, n)) + Len(s)
  <2>1. p \in 1..(Len(blk) + 1) /\ s \in Seq(Bytes)
    BY <1>1, <1>2
  <2> QED
    BY <1>4, <2>1, PutPieces
<1>8. ASSUME Len(blk) >= 8
      PROVE  /\ Len(t) = Len(blk) /\ t[7] = s[1] /\ t[8] = s[2]
             /\ \A i \in 1..Len(blk) : i \notin {7, 8} => t[i] = blk[i]
  <2>1. p = 7 /\ Len(s) = Len(slice(blk, p, n))
    BY <1>1, <1>2, <1>3, <1>5, <1>6, <1>8
  <2>2. /\ Len(t) = Len(blk)
        /\ \A i \in 1..Len(blk) :
             t[i] = IF i \in p..(p + Len(s) - 1) THEN s[i - p + 1] ELSE blk[i]
    <3>1. p \in 1..(Len(blk) + 1) /\ s \in Seq(Bytes) /\ Len(s) = Len(slice(blk, p, n))
      BY <1>1, <1>2, <2>1
    <3> QED
      BY <1>4, <3>1, PutInPlace
  <2>3. \A i \in 1..Len(blk) : t[i] = IF i \in 7..8 THEN s[i - 6] ELSE blk[i]
    BY <1>1, <2>1, <2>2
  <2>4. t[7] = s[1] /\ t[8] = s[2]
    BY <1>2, <1>8, <2>3
  <2> QED
    BY <1>2, <2>2, <2>3, <2>4
<1>9. ASSUME Len(blk) < 8
      PROVE  Len(t) > Len(blk)
  <2>1. PICK l \in Nat : Len(slice(blk, p, n)) = l
    BY <1>6
  <2>2. l <= 1
    BY <1>2, <1>3, <1>5, <1>6, <1>9, <2>1
  <2> QED
    BY <1>1, <1>2, <1>7, <2>1, <2>2
<1> QED
  BY <1>1, <1>7, <1>8, <1>9 DEF t

\* The checksum that was there does not matter.
LEMMA ClearedAgain ==
  ASSUME NEW blk \in Seq(Bytes), NEW x \in 0..(Word - 1), NEW y \in 0..(Word - 1),
         Len(blk) >= 8
  PROVE  put_checksum(put_checksum(blk, x), y) = put_checksum(blk, y)
<1> DEFINE a == put_checksum(blk, x)
           t == put_checksum(a, y)
           u == put_checksum(blk, y)
<1>1. /\ a \in Seq(Bytes) /\ Len(a) = Len(blk)
      /\ \A i \in 1..Len(blk) : i \notin {7, 8} => a[i] = blk[i]
  BY PutChecksum
<1>2. /\ u \in Seq(Bytes) /\ Len(u) = Len(blk) /\ u[7] = y % Base /\ u[8] = y \div Base
      /\ \A i \in 1..Len(blk) : i \notin {7, 8} => u[i] = blk[i]
  BY PutChecksum
<1> HIDE DEF a, u
<1>3. /\ t \in Seq(Bytes) /\ Len(t) = Len(a) /\ t[7] = y % Base /\ t[8] = y \div Base
      /\ \A i \in 1..Len(a) : i \notin {7, 8} => t[i] = a[i]
  BY <1>1, PutChecksum
<1> HIDE DEF t
<1>4. \A i \in 1..Len(t) : t[i] = u[i]
  <2> SUFFICES ASSUME NEW i \in 1..Len(t) PROVE t[i] = u[i]
    OBVIOUS
  <2>1. CASE i \in {7, 8}
    BY <1>2, <1>3, <2>1
  <2>2. CASE i \notin {7, 8}
    BY <1>1, <1>2, <1>3, <2>2
  <2> QED
    BY <2>1, <2>2
<1>5. t = u
  BY <1>1, <1>2, <1>3, <1>4, SeqEqual
<1> QED
  BY <1>5 DEF t, u, a

\* Sealing a block with a header changes its checksum only, and a shorter one
\* grows.  A block that was sealed is not changed by sealing it again.
LEMMA SealedFacts ==
  ASSUME NEW blk \in Seq(Bytes)
  PROVE  /\ sealed(blk) \in Seq(Bytes)
         /\ Len(blk) >= 8 =>
              /\ Len(sealed(blk)) = Len(blk)
              /\ \A i \in 1..Len(blk) : i \notin {7, 8} => sealed(blk)[i] = blk[i]
              /\ sealed(sealed(blk)) = sealed(blk)
         /\ Len(blk) < 8 => Len(sealed(blk)) > Len(blk)
<1> DEFINE c == put_checksum(blk, 0)
           x == cks(blk)
           t == put_checksum(c, x)
<1>1. sealed(blk) = t
  BY DEF sealed
<1>2. 0 \in 0..(Word - 1) /\ Len(blk) \in Nat
  BY WordPositive, LenProperties
<1>3. c \in Seq(Bytes) /\ Len(c) \in Nat
  BY <1>2, PutChecksum, LenProperties
<1>4. x \in 0..(Word - 1)
  BY <1>3, SumNumber, NegatedNumber DEF cks
<1> HIDE DEF x
<1>5. t \in Seq(Bytes) /\ Len(t) \in Nat
  BY <1>3, <1>4, PutChecksum, LenProperties
<1>6. ASSUME Len(blk) >= 8
      PROVE  /\ Len(t) = Len(blk)
             /\ \A i \in 1..Len(blk) : i \notin {7, 8} => t[i] = blk[i]
             /\ sealed(t) = t
  <2>1. t = put_checksum(blk, x)
    BY <1>2, <1>4, <1>6, ClearedAgain
  <2>2. /\ Len(t) = Len(blk)
        /\ \A i \in 1..Len(blk) : i \notin {7, 8} => t[i] = blk[i]
    BY <1>4, <1>6, <2>1, PutChecksum
  <2>3. put_checksum(t, 0) = c
    BY <1>2, <1>4, <1>6, <2>1, ClearedAgain
  <2>4. cks(t) = x
    BY <2>3 DEF cks, x
  <2>5. sealed(t) = t
    BY <2>3, <2>4 DEF sealed
  <2> QED
    BY <2>2, <2>5
<1>7. ASSUME Len(blk) < 8
      PROVE  Len(t) > Len(blk)
  <2>1. Len(c) > Len(blk)
    BY <1>2, <1>7, PutChecksum
  <2>2. Len(t) >= Len(c)
    <3>1. Len(c) >= 8 => Len(t) = Len(c)
      BY <1>3, <1>4, PutChecksum
    <3>2. Len(c) < 8 => Len(t) > Len(c)
      BY <1>3, <1>4, PutChecksum
    <3> QED
      BY <1>3, <1>5, <3>1, <3>2
  <2> QED
    BY <1>2, <1>3, <1>5, <2>1, <2>2
<1> QED
  BY <1>1, <1>5, <1>6, <1>7

\* A number of 16 bits is its own remainder.
LEMMA SmallNumber ==
  ASSUME NEW n \in 0..(Word - 1)
  PROVE  n % Word = n
<1>1. Word \in Nat \ {0} /\ n \in Nat
  BY WordPositive
<1>2. PICK q \in Nat : q = 0
  OBVIOUS
<1>3. n = Word * q + n
  BY <1>1, <1>2
<1> QED
  BY <1>1, <1>3, QuotientUnique

\* Where two blocks differ in the word of the checksum only, which is 0 in one
\* and x in the other, so do their sums.
LEMMA SumsDiffer ==
  ASSUME NEW c \in Seq(Bytes), NEW t \in Seq(Bytes), Len(t) = Len(c), Len(c) >= 8,
         NEW x \in 0..(Word - 1), le16(c, 7) = 0, le16(t, 7) = x,
         \A i \in 1..Len(c) : i \notin {7, 8} => t[i] = c[i]
  PROVE  summ_le16(t) = (summ_le16(c) + x) % Word
<1>1. Len(c) \in Nat /\ Word \in Nat \ {0}
  BY WordPositive, LenProperties
<1>2. PICK n \in Nat : n = Len(c) \div 2
  BY <1>1
<1>3. 4 <= n /\ 2 * n <= Len(c)
  BY <1>1, <1>2
<1>4. PICK f :
        /\ f[0] = 0 /\ summ_le16(c) = f[n]
        /\ \A k \in 1..n : f[k] = (f[k - 1] + le16(c, 2 * k - 1)) % Word
        /\ \A k \in 0..n : f[k] \in 0..(Word - 1)
  BY <1>2, SumLoop
<1>5. PICK g :
        /\ g[0] = 0 /\ summ_le16(t) = g[n]
        /\ \A k \in 1..n : g[k] = (g[k - 1] + le16(t, 2 * k - 1)) % Word
        /\ \A k \in 0..n : g[k] \in 0..(Word - 1)
  BY <1>2, SumLoop
<1>6. ASSUME NEW k \in 1..n
      PROVE  /\ le16(c, 2 * k - 1) \in Nat
             /\ k # 4 => le16(t, 2 * k - 1) = le16(c, 2 * k - 1)
  <2>1. PICK j \in 1..Len(c) : j = 2 * k - 1 /\ j + 1 \in 1..Len(c)
    BY <1>1, <1>3
  <2>2. c[j] \in Bytes /\ c[j + 1] \in Bytes
    BY <2>1, ElementOfSeq
  <2>3. le16(c, j) \in Nat
    <3>1. c[j] + Base * c[j + 1] \in 0..(Word - 1)
      BY <2>2, Le16Number
    <3> QED
      BY <1>1, <3>1 DEF le16
  <2>4. ASSUME k # 4
        PROVE  t[j] = c[j] /\ t[j + 1] = c[j + 1]
    <3>1. j \notin {7, 8} /\ j + 1 \notin {7, 8}
      BY <2>1, <2>4
    <3> QED
      BY <2>1, <3>1
  <2> QED
    BY <2>1, <2>3, <2>4 DEF le16
<1> DEFINE T == {k \in Nat : k <= n => IF k < 4 THEN g[k] = f[k]
                                      ELSE g[k] = (f[k] + x) % Word}
<1>7. 0 \in T
  BY <1>4, <1>5
<1>8. ASSUME NEW k \in Nat, k \in T
      PROVE  k + 1 \in T
  <2> SUFFICES ASSUME k + 1 <= n
               PROVE  /\ k + 1 < 4 => g[k + 1] = f[k + 1]
                      /\ k + 1 >= 4 => g[k + 1] = (f[k + 1] + x) % Word
    OBVIOUS
  <2>1. (k < 4 => g[k] = f[k]) /\ (k >= 4 => g[k] = (f[k] + x) % Word)
    BY <1>8
  <2>2. PICK m \in 1..n : m = k + 1 /\ m - 1 = k
    OBVIOUS
  <2>3. PICK w, v : w \in Nat /\ w = le16(c, 2 * m - 1) /\ v = le16(t, 2 * m - 1)
    BY <1>6
  <2>4. f[k] \in Nat /\ x \in Nat /\ f[m] = (f[k] + w) % Word /\ g[m] = (g[k] + v) % Word
    <3>1. k \in 0..n
      BY <2>2
    <3> QED
      BY <1>1, <1>4, <1>5, <2>2, <2>3, <3>1
  <2>5. CASE m < 4
    <3>1. v = w
      BY <1>6, <2>3, <2>5
    <3>2. g[k] = f[k]
      BY <2>1, <2>2, <2>5
    <3>3. g[m] = f[m]
      BY <2>4, <3>1, <3>2
    <3> QED
      BY <2>2, <2>5, <3>3
  <2>6. CASE m = 4
    <3>1. 2 * m - 1 = 7
      BY <2>6
    <3>2. w = 0 /\ v = x
      BY <2>3, <3>1
    <3>3. g[k] = f[k]
      BY <2>1, <2>2, <2>6
    <3>4. f[m] = f[k]
      <4>1. f[k] \in 0..(Word - 1)
        BY <1>4, <2>2
      <4>2. f[k] % Word = f[k]
        BY <1>1, <4>1, SmallNumber
      <4>3. f[k] \in Nat /\ f[m] = (f[k] + 0) % Word
        BY <2>4, <3>2
      <4>4. f[k] + 0 = f[k]
        BY <4>3
      <4> QED
        BY <4>2, <4>3, <4>4
    <3> QED
      BY <2>2, <2>4, <2>6, <3>2, <3>3, <3>4
  <2>7. CASE m > 4
    <3>1. v = w
      BY <1>6, <2>3, <2>7
    <3>2. g[k] = (f[k] + x) % Word
      BY <2>1, <2>2, <2>7
    <3>3. PICK a \in Nat, b \in Nat : a = f[k] + x /\ b = f[k] + w
      <4>1. f[k] \in Nat /\ x \in Nat /\ w \in Nat
        BY <2>3, <2>4
      <4> QED
        BY <4>1
    <3>4. ((a % Word) + w) % Word = (a + w) % Word
      BY <2>3, ReducedSum
    <3>5. ((b % Word) + x) % Word = (b + x) % Word
      BY <2>4, ReducedSum
    <3>6. a + w = b + x
      <4>1. f[k] \in Nat /\ x \in Nat /\ w \in Nat
        BY <2>3, <2>4
      <4>2. \A q, y, z \in Nat : (q + y) + z = (q + z) + y
        OBVIOUS
      <4>3. (f[k] + x) + w = (f[k] + w) + x
        BY <4>1, <4>2
      <4> QED
        BY <3>3, <4>3
    <3>7. g[m] = ((a % Word) + w) % Word
      BY <2>4, <3>1, <3>2, <3>3
    <3>8. f[m] = b % Word
      BY <2>4, <3>3
    <3>9. g[m] = (f[m] + x) % Word
      BY <3>4, <3>5, <3>6, <3>7, <3>8
    <3> QED
      BY <2>2, <2>7, <3>9
  <2> QED
    BY <2>2, <2>5, <2>6, <2>7
<1>9. n \in T
  <2> HIDE DEF T
  <2> QED
    BY <1>7, <1>8, NatSetInduction
<1> QED
  BY <1>3, <1>4, <1>5, <1>9

(***************************************************************************)
(* A block that has its header is sealed when fix_checksum is done with    *)
(* it, whatever it holds and whether its length is odd or even: the        *)
(* assertion of fix_checksum can fail for a shorter block only.            *)
(***************************************************************************)
THEOREM SealedSumsToZero ==
  ASSUME NEW blk \in Seq(Bytes), Len(blk) >= 8
  PROVE  summ_le16(sealed(blk)) = 0
<1> DEFINE c == put_checksum(blk, 0)
           x == cks(blk)
           t == put_checksum(c, x)
<1>1. Base \in Nat \ {0} /\ Word \in Nat \ {0} /\ 0 \in 0..(Word - 1)
  BY WordPositive
<1>2. /\ c \in Seq(Bytes) /\ Len(c) = Len(blk)
      /\ c[7] = 0 % Base /\ c[8] = 0 \div Base
  BY <1>1, PutChecksum
<1>3. x = (-summ_le16(c)) % Word
  BY DEF cks
<1> HIDE DEF c, x
<1>4. summ_le16(c) \in 0..(Word - 1)
  BY <1>2, SumNumber
<1>5. x \in 0..(Word - 1) /\ (summ_le16(c) + x) % Word = 0
  BY <1>3, <1>4, NegatedNumber
<1>6. /\ t \in Seq(Bytes) /\ Len(t) = Len(c)
      /\ t[7] = x % Base /\ t[8] = x \div Base
      /\ \A i \in 1..Len(c) : i \notin {7, 8} => t[i] = c[i]
  BY <1>2, <1>5, PutChecksum
<1>7. sealed(blk) = t
  BY DEF sealed, c, x
<1> HIDE DEF t
<1>8. le16(c, 7) = 0
  <2>1. c[7] = 0 /\ c[7 + 1] = 0
    BY <1>1, <1>2
  <2> QED
    BY <1>1, <2>1 DEF le16
<1>9. le16(t, 7) = x
  <2>1. t[7] = x % Base /\ t[7 + 1] = x \div Base
    BY <1>6
  <2>2. x = Base * (x \div Base) + (x % Base) /\ x \div Base \in Nat /\ x % Base \in Nat
    <3>1. PICK y \in Nat : y = x
      BY <1>1, <1>5
    <3>2. /\ y \div Base \in Nat /\ y % Base \in 0..(Base - 1)
          /\ y = Base * (y \div Base) + (y % Base)
      BY <1>1, Quotient
    <3> QED
      BY <1>1, <3>1, <3>2
  <2> QED
    BY <1>1, <2>1, <2>2 DEF le16
<1>10. summ_le16(t) = (summ_le16(c) + x) % Word
  BY <1>2, <1>5, <1>6, <1>8, <1>9, SumsDiffer
<1> QED
  BY <1>5, <1>7, <1>10

-----------------------------------------------------------------------------
(***************************************************************************)
(* What is found: the magic and the descriptor.                            *)
(***************************************************************************)
LEMMA LowestUnique ==
  ASSUME NEW S \in SUBSET Nat, NEW p \in lowest(S), NEW q \in lowest(S)
  PROVE  p = q
  BY DEF lowest

\* Where s is found, its elements are.
LEMMA FoundAt ==
  ASSUME NEW d \in Seq(Bytes), NEW s \in Seq(Bytes), Len(s) > 0, NEW p
  PROVE  p \in Finds(d, s) <=>
           /\ p \in Nat /\ 1 <= p /\ p + Len(s) - 1 <= Len(d)
           /\ \A i \in 1..Len(s) : d[p + i - 1] = s[i]
<1>1. Len(d) \in Nat /\ Len(s) \in Nat /\ DOMAIN d = 1..Len(d)
  BY LenProperties
<1> DEFINE t == slice(d, p, Len(s))
<1>2. ASSUME NEW q \in 1..Len(d), q = p
      PROVE  /\ t \in Seq(Bytes) /\ Len(t) \in Nat
             /\ p + Len(s) - 1 <= Len(d) => Len(t) = Len(s)
             /\ p + Len(s) - 1 > Len(d) => Len(t) = Len(d) - p + 1
             /\ \A i \in 1..Len(t) : t[i] = d[p + i - 1]
  <2>1. p \in 1..(Len(d) + 1)
    BY <1>1, <1>2
  <2> QED
    BY <1>1, <2>1, SliceFacts
<1>3. p \in Finds(d, s) <=> p \in 1..Len(d) /\ t = s
  BY <1>1 DEF Finds
<1> HIDE DEF t
<1>4. ASSUME p \in Finds(d, s)
      PROVE  /\ p \in Nat /\ 1 <= p /\ p + Len(s) - 1 <= Len(d)
             /\ \A i \in 1..Len(s) : d[p + i - 1] = s[i]
  <2>1. p \in 1..Len(d) /\ t = s
    BY <1>3, <1>4
  <2>2. /\ p + Len(s) - 1 > Len(d) => Len(t) = Len(d) - p + 1
        /\ \A i \in 1..Len(t) : t[i] = d[p + i - 1]
    BY <1>2, <2>1
  <2>3. p + Len(s) - 1 <= Len(d)
    BY <1>1, <2>1, <2>2
  <2> QED
    BY <1>1, <2>1, <2>2, <2>3
<1>5. ASSUME p \in Nat, 1 <= p, p + Len(s) - 1 <= Len(d),
             \A i \in 1..Len(s) : d[p + i - 1] = s[i]
      PROVE  p \in Finds(d, s)
  <2>1. p \in 1..Len(d)
    BY <1>1, <1>5
  <2>2. /\ t \in Seq(Bytes) /\ Len(t) = Len(s)
        /\ \A i \in 1..Len(t) : t[i] = d[p + i - 1]
    BY <1>2, <1>5, <2>1
  <2>3. \A i \in 1..Len(t) : t[i] = s[i]
    BY <1>5, <2>2
  <2>4. t = s
    BY <2>2, <2>3, SeqEqual
  <2> QED
    BY <1>3, <2>1, <2>4
<1> QED
  BY <1>4, <1>5

\* What is looked for: no byte of the magic is 0, the tag begins with one.
LEMMA PatternFacts ==
  /\ Magic \in Seq(Bytes) /\ Len(Magic) = 4 /\ Magic[4] # 0
  /\ Name \in Seq(Bytes) /\ Len(Name) = 3
  /\ Tag \in Seq(Bytes) /\ Len(Tag) = 4 /\ Tag[1] = 0
<1>1. Bytes \ {0} \subseteq Bytes /\ 0 \in Bytes /\ 8 \in Bytes
  BY ConfigAssumption DEF Bytes
<1>2. Magic \in Seq(Bytes \ {0}) /\ Len(Magic) = 4 /\ Name \in Seq(Bytes \ {0}) /\ Len(Name) = 3
  BY ConfigAssumption
<1>3. Magic \in Seq(Bytes) /\ Name \in Seq(Bytes)
  BY <1>1, <1>2, SeqMonotonic
<1>4. Magic[4] \in Bytes \ {0}
  <2>1. PICK n \in 1..Len(Magic) : n = 4
    BY <1>2
  <2>2. Magic[n] \in Bytes \ {0}
    BY <1>2, ElementOfSeq
  <2> QED
    BY <2>1, <2>2
<1>5. Tag \in Seq(Bytes) /\ Len(Tag) = 4 /\ Tag[1] = 0
  BY <1>1 DEF Tag
<1> QED
  BY <1>2, <1>3, <1>4, <1>5

\* A descriptor at q: the name nine bytes before it, and the tag.
IsDescriptor(d, q) ==
  /\ q \in Nat /\ 10 <= q /\ q + 3 <= Len(d)
  /\ \A i \in 1..3 : d[q - 10 + i] = Name[i]
  /\ \A i \in 1..4 : d[q + i - 1] = Tag[i]

\* Descriptors finds the descriptors.
LEMMA DescriptorAt ==
  ASSUME NEW d \in Seq(Bytes), NEW q
  PROVE  q \in Descriptors(d) <=> IsDescriptor(d, q)
<1>1. Len(d) \in Nat
  BY LenProperties
<1>2. ASSUME NEW n \in Nat
      PROVE  slice(d, n, 4) = Tag /\ 1 <= n <=>
               1 <= n /\ n + 3 <= Len(d) /\ \A i \in 1..4 : d[n + i - 1] = Tag[i]
  <2>1. CASE n > Len(d)
    <3>1. slice(d, n, 4) = SubSeq(d, n, Len(d))
      BY <1>1, <2>1 DEF slice
    <3>2. SubSeq(d, n, Len(d)) = << >>
      BY <1>1, <2>1, SubSeqEmpty
    <3>3. << >> # Tag
      BY DEF Tag
    <3> QED
      BY <1>1, <2>1, <3>1, <3>2, <3>3
  <2>2. CASE n = 0
    BY <2>2
  <2>3. CASE n \in 1..Len(d)
    <3>1. n \in Finds(d, Tag) <=> slice(d, n, 4) = Tag
      BY <2>3, PatternFacts, LenProperties DEF Finds
    <3>2. Len(Tag) = 4 /\ Len(Tag) > 0 /\ Tag \in Seq(Bytes)
      BY PatternFacts
    <3>3. n \in Finds(d, Tag) <=>
            /\ n \in Nat /\ 1 <= n /\ n + Len(Tag) - 1 <= Len(d)
            /\ \A i \in 1..Len(Tag) : d[n + i - 1] = Tag[i]
      BY <3>2, FoundAt
    <3>4. n + Len(Tag) - 1 = n + 3 /\ 1 <= n
      BY <2>3, <3>2
    <3> QED
      BY <3>1, <3>2, <3>3, <3>4
  <2> QED
    BY <1>1, <2>1, <2>2, <2>3
<1>3. ASSUME NEW p
      PROVE  p \in Finds(d, Name) <=>
               /\ p \in Nat /\ 1 <= p /\ p + 2 <= Len(d)
               /\ \A i \in 1..3 : d[p + i - 1] = Name[i]
  <2>1. Len(Name) = 3 /\ Len(Name) > 0 /\ Name \in Seq(Bytes)
    BY PatternFacts
  <2>2. p \in Finds(d, Name) <=>
          /\ p \in Nat /\ 1 <= p /\ p + Len(Name) - 1 <= Len(d)
          /\ \A i \in 1..Len(Name) : d[p + i - 1] = Name[i]
    BY <2>1, FoundAt
  <2>3. p \in Nat => p + Len(Name) - 1 = p + 2
    BY <2>1
  <2> QED
    BY <2>1, <2>2, <2>3
<1>4. ASSUME q \in Descriptors(d)
      PROVE  IsDescriptor(d, q)
  <2>1. PICK p \in Finds(d, Name) : q = p + 9 /\ slice(d, p + 9, 4) = Tag
    BY <1>4 DEF Descriptors
  <2>2. /\ p \in Nat /\ 1 <= p /\ p + 2 <= Len(d)
        /\ \A i \in 1..3 : d[p + i - 1] = Name[i]
    BY <1>3, <2>1
  <2>3. q \in Nat /\ 1 <= q /\ 10 <= q /\ \A i \in 1..3 : q - 10 + i = p + i - 1
    BY <2>1, <2>2
  <2>4. q + 3 <= Len(d) /\ \A i \in 1..4 : d[q + i - 1] = Tag[i]
    BY <1>2, <2>1, <2>3
  <2> QED
    BY <2>2, <2>3, <2>4 DEF IsDescriptor
<1>5. ASSUME IsDescriptor(d, q)
      PROVE  q \in Descriptors(d)
  <2> DEFINE p == q - 9
  <2>1. /\ q \in Nat /\ p \in Nat /\ 1 <= p /\ q = p + 9 /\ 1 <= q /\ p + 2 <= Len(d)
        /\ \A i \in 1..3 : q - 10 + i = p + i - 1
    BY <1>1, <1>5 DEF IsDescriptor
  <2> HIDE DEF p
  <2>2. \A i \in 1..3 : d[p + i - 1] = Name[i]
    BY <1>5, <2>1 DEF IsDescriptor
  <2>3. p \in Finds(d, Name)
    BY <1>3, <2>1, <2>2
  <2>4. slice(d, q, 4) = Tag
    BY <1>2, <1>5, <2>1 DEF IsDescriptor
  <2> QED
    BY <2>1, <2>3, <2>4 DEF Descriptors
<1> QED
  BY <1>4, <1>5

\* Where the magic is.
LEMMA MagicAt ==
  ASSUME NEW d \in Seq(Bytes), NEW b
  PROVE  b \in Finds(d, Magic) <=>
           b \in Nat /\ 1 <= b /\ b + 3 <= Len(d) /\ \A i \in 1..4 : d[b + i - 1] = Magic[i]
<1>1. Len(Magic) = 4 /\ Len(Magic) > 0 /\ Magic \in Seq(Bytes)
  BY PatternFacts
<1>2. b \in Finds(d, Magic) <=>
        /\ b \in Nat /\ 1 <= b /\ b + Len(Magic) - 1 <= Len(d)
        /\ \A i \in 1..Len(Magic) : d[b + i - 1] = Magic[i]
  BY <1>1, FoundAt
<1>3. b \in Nat => b + Len(Magic) - 1 = b + 3
  BY <1>1
<1> QED
  BY <1>1, <1>2, <1>3

\* At most one block is found, and it has a header.
LEMMA FoundFacts ==
  ASSUME NEW d \in Seq(Bytes), NEW b \in found(d)
  PROVE  /\ b \in Nat /\ 1 <= b /\ b + 7 <= Len(d)
         /\ b \in Finds(d, Magic)
         /\ \A c \in found(d) : c = b
         /\ le16(d, b + 4) \in 0..(Word - 1)
<1>1. b \in lowest(Finds(d, Magic)) /\ b + 7 <= Len(d)
  BY DEF found
<1>2. b \in Finds(d, Magic)
  BY <1>1 DEF lowest
<1>3. b \in Nat /\ 1 <= b
  BY <1>2, MagicAt
<1>4. \A c \in found(d) : c = b
  <2>1. Finds(d, Magic) \in SUBSET Nat
    BY MagicAt
  <2> QED
    BY <1>1, <2>1, LowestUnique DEF found
<1>5. le16(d, b + 4) \in 0..(Word - 1)
  <2>1. b + 4 \in 1..Len(d) /\ b + 4 + 1 \in 1..Len(d)
    BY <1>1, <1>3, LenProperties
  <2> QED
    BY <2>1, ElementOfSeq, Le16Number DEF le16
<1> QED
  BY <1>1, <1>2, <1>3, <1>4, <1>5

\* As long as the header but for the checksum stays as it is, and what is
\* before it, the block is found where it was and as long as it was.
LEMMA HeaderKept ==
  ASSUME NEW f \in Seq(Bytes), NEW d \in Seq(Bytes), Len(d) = Len(f),
         NEW b \in found(f), \A i \in 1..(b + 5) : d[i] = f[i]
  PROVE  b \in found(d) /\ le16(d, b + 4) = le16(f, b + 4)
<1>1. b \in Nat /\ 1 <= b /\ b + 7 <= Len(f) /\ b \in Finds(f, Magic)
  BY FoundFacts
<1>2. Len(f) \in Nat
  BY LenProperties
<1>3. ASSUME NEW c \in Nat, c <= b
      PROVE  c \in Finds(d, Magic) <=> c \in Finds(f, Magic)
  <2>1. 1 <= c => \A i \in 1..4 : c + i - 1 \in 1..(b + 5)
    BY <1>1, <1>3
  <2>2. 1 <= c => \A i \in 1..4 : d[c + i - 1] = f[c + i - 1]
    BY <2>1
  <2>3. c \in Finds(d, Magic) <=>
          1 <= c /\ c + 3 <= Len(f) /\ \A i \in 1..4 : d[c + i - 1] = Magic[i]
    BY MagicAt
  <2>4. c \in Finds(f, Magic) <=>
          1 <= c /\ c + 3 <= Len(f) /\ \A i \in 1..4 : f[c + i - 1] = Magic[i]
    BY MagicAt
  <2> QED
    BY <2>2, <2>3, <2>4
<1>4. b \in Finds(d, Magic)
  BY <1>1, <1>3
<1>5. ASSUME NEW c \in Finds(d, Magic), c < b
      PROVE  FALSE
  <2>1. c \in Nat /\ c <= b
    BY <1>1, <1>5, MagicAt
  <2>2. c \in Finds(f, Magic)
    BY <1>3, <2>1
  <2>3. b <= c
    BY <2>2 DEF found, lowest
  <2> QED
    BY <1>1, <1>5, <2>1, <2>3
<1>6. \A c \in Finds(d, Magic) : b <= c
  <2>1. \A c \in Finds(d, Magic) : c \in Nat
    BY MagicAt
  <2> QED
    BY <1>1, <1>5, <2>1
<1>7. b \in found(d)
  BY <1>1, <1>4, <1>6 DEF found, lowest
<1>8. d[b + 4] = f[b + 4] /\ d[b + 4 + 1] = f[b + 4 + 1]
  <2>1. b + 4 \in 1..(b + 5) /\ b + 4 + 1 \in 1..(b + 5)
    BY <1>1
  <2> QED
    BY <2>1
<1> QED
  BY <1>7, <1>8 DEF le16

\* A descriptor depends on its name and its tag.
LEMMA DescriptorDepends ==
  ASSUME NEW f \in Seq(Bytes), NEW d \in Seq(Bytes), Len(d) = Len(f), NEW q,
         q \in Descriptors(f), \A i \in (q - 9)..(q + 3) : d[i] = f[i]
  PROVE  q \in Descriptors(d)
<1>1. IsDescriptor(f, q)
  BY DescriptorAt
<1>2. q \in Nat
  BY <1>1 DEF IsDescriptor
<1>3. /\ \A i \in 1..3 : d[q - 10 + i] = f[q - 10 + i]
      /\ \A i \in 1..4 : d[q + i - 1] = f[q + i - 1]
  <2>1. /\ \A i \in 1..3 : q - 10 + i \in (q - 9)..(q + 3)
        /\ \A i \in 1..4 : q + i - 1 \in (q - 9)..(q + 3)
    BY <1>2
  <2> QED
    BY <2>1
<1>4. IsDescriptor(d, q)
  BY <1>1, <1>3 DEF IsDescriptor
<1> QED
  BY <1>4, DescriptorAt

\* When d and f agree up to the third byte behind p, p is the lowest
\* descriptor of both or of neither.
LEMMA LowestDepends ==
  ASSUME NEW f \in Seq(Bytes), NEW d \in Seq(Bytes), Len(d) = Len(f),
         NEW p \in lowest(Descriptors(f)), \A i \in 1..(p + 3) : d[i] = f[i]
  PROVE  p \in lowest(Descriptors(d))
<1>1. p \in Descriptors(f) /\ \A q \in Descriptors(f) : p <= q
  BY DEF lowest
<1>2. IsDescriptor(f, p)
  BY <1>1, DescriptorAt
<1>3. p \in Nat /\ 10 <= p
  BY <1>2 DEF IsDescriptor
<1>4. p \in Descriptors(d)
  <2>1. (p - 9)..(p + 3) \subseteq 1..(p + 3)
    BY <1>3
  <2> QED
    BY <1>1, <2>1, DescriptorDepends
<1>5. ASSUME NEW q \in Descriptors(d), q < p
      PROVE  FALSE
  <2>1. IsDescriptor(d, q)
    BY DescriptorAt
  <2>2. q \in Nat /\ 10 <= q
    BY <2>1 DEF IsDescriptor
  <2>3. \A i \in (q - 9)..(q + 3) : f[i] = d[i]
    <3>1. (q - 9)..(q + 3) \subseteq 1..(p + 3)
      BY <1>3, <1>5, <2>2
    <3> QED
      BY <3>1
  <2>4. q \in Descriptors(f)
    BY <2>3, DescriptorDepends
  <2> QED
    BY <1>1, <1>3, <1>5, <2>2, <2>4
<1>6. \A q \in Descriptors(d) : p <= q
  <2>1. \A q \in Descriptors(d) : q \in Nat
    BY DescriptorAt DEF IsDescriptor
  <2> QED
    BY <1>3, <1>5, <2>1
<1> QED
  BY <1>4, <1>6 DEF lowest

-----------------------------------------------------------------------------
(***************************************************************************)
(* One run of the tool.                                                    *)
(***************************************************************************)
\* The numbers of the descriptor are not in the header of the block.
BehindHeader(f) == \A b \in found(f), p \in lowest(Descriptors(f)) : b + 4 <= p

Counted(f, p) == new_count(be32(f, p + 4), be32(f, p + 8))

\* d is f with the new numbers in its descriptor at p.
Patched(d, f, p) ==
  /\ p \in lowest(Descriptors(f)) /\ p + 11 <= Len(f)
  /\ Counted(f, p) \in 0..(Word * Word - 1)
  /\ d \in Seq(Bytes) /\ Len(d) = Len(f)
  /\ \A i \in 1..Len(f) : i \notin (p + 4)..(p + 11) => d[i] = f[i]
  /\ \A k \in 1..4 : /\ d[p + 4 + k - 1] = be32_bytes(Counted(f, p))[k]
                     /\ d[p + 8 + k - 1] = be32_bytes(NewSize)[k]

\* d is g with its block of n bytes at b sealed.
Sealed(d, g, b, n) ==
  /\ d \in Seq(Bytes) /\ Len(d) = Len(g)
  /\ \A i \in 1..Len(g) : i \notin {b + 6, b + 7} => d[i] = g[i]
  /\ Len(slice(g, b, n)) >= 8
  /\ slice(d, b, n) = sealed(slice(g, b, n))
  /\ summ_le16(slice(d, b, n)) = 0

\* What patch_blocksize does to a dump.
LEMMA PatchesInPlace ==
  ASSUME NEW f \in Seq(Bytes), NEW p \in lowest(Descriptors(f)), p + 11 <= Len(f),
         Counted(f, p) \in 0..(Word * Word - 1)
  PROVE  Patched(put(put(f, p + 4, 4, be32_bytes(Counted(f, p))),
                     p + 8, 4, be32_bytes(NewSize)), f, p)
<1> DEFINE s == be32_bytes(Counted(f, p))
           t == be32_bytes(NewSize)
<1>1. s \in Seq(Bytes) /\ Len(s) = 4
  BY Be32Bytes
<1>2. t \in Seq(Bytes) /\ Len(t) = 4
  <2>1. NewSize \in 0..(Word * Word - 1)
    BY WordPositive, ConfigAssumption
  <2> QED
    BY <2>1, Be32Bytes
<1> HIDE DEF s, t
<1>3. p \in Nat /\ 10 <= p /\ Len(f) \in Nat
  <2>1. IsDescriptor(f, p)
    BY DescriptorAt DEF lowest
  <2> QED
    BY <2>1, LenProperties DEF IsDescriptor
<1>4. PICK n \in Nat, x \in Nat, y \in Nat : n = 4 /\ x = p + 4 /\ y = p + 8
  BY <1>3
<1> DEFINE e == put(f, x, n, s)
           d == put(e, y, n, t)
<1>5. /\ e \in Seq(Bytes) /\ Len(e) = Len(f)
      /\ \A i \in 1..Len(f) : e[i] = IF i \in x..(x + Len(s) - 1) THEN s[i - x + 1] ELSE f[i]
  <2>1. x \in 1..(Len(f) + 1) /\ x + n - 1 <= Len(f)
    BY <1>3, <1>4
  <2>2. Len(slice(f, x, n)) = n
    BY <2>1, SliceFacts
  <2>3. x \in 1..(Len(f) + 1) /\ s \in Seq(Bytes) /\ Len(s) = Len(slice(f, x, n))
    BY <1>1, <1>4, <2>1, <2>2
  <2> QED
    BY <2>3, PutInPlace
<1> HIDE DEF e
<1>6. /\ d \in Seq(Bytes) /\ Len(d) = Len(e)
      /\ \A i \in 1..Len(e) : d[i] = IF i \in y..(y + Len(t) - 1) THEN t[i - y + 1] ELSE e[i]
  <2>1. y \in 1..(Len(e) + 1) /\ y + n - 1 <= Len(e)
    BY <1>3, <1>4, <1>5
  <2>2. Len(slice(e, y, n)) = n
    BY <1>5, <2>1, SliceFacts
  <2>3. /\ e \in Seq(Bytes) /\ y \in 1..(Len(e) + 1)
        /\ t \in Seq(Bytes) /\ Len(t) = Len(slice(e, y, n))
    BY <1>2, <1>4, <1>5, <2>1, <2>2
  <2> QED
    BY <2>3, PutInPlace
<1>7. d = put(put(f, p + 4, 4, be32_bytes(Counted(f, p))), p + 8, 4, be32_bytes(NewSize))
  BY <1>4 DEF d, e, s, t
<1> HIDE DEF d
<1>8. ASSUME NEW i \in 1..Len(f), i \notin (p + 4)..(p + 11)
      PROVE  d[i] = f[i]
  <2>1. ~(i \in x..(x + Len(s) - 1)) /\ ~(i \in y..(y + Len(t) - 1)) /\ i \in 1..Len(e)
    BY <1>1, <1>2, <1>3, <1>4, <1>5, <1>8
  <2> QED
    BY <1>5, <1>6, <2>1
<1>9. ASSUME NEW k \in 1..4
      PROVE  d[p + 4 + k - 1] = s[k] /\ d[p + 8 + k - 1] = t[k]
  <2> DEFINE u == p + 4 + k - 1
             v == p + 8 + k - 1
  <2>1. /\ u \in 1..Len(f) /\ v \in 1..Len(f)
        /\ u \in x..(x + Len(s) - 1) /\ ~(u \in y..(y + Len(t) - 1))
        /\ v \in y..(y + Len(t) - 1)
        /\ u - x + 1 = k /\ v - y + 1 = k
    BY <1>1, <1>2, <1>3, <1>4
  <2> HIDE DEF u, v
  <2>2. e[u] = s[k]
    BY <1>5, <2>1
  <2>3. d[u] = s[k]
    BY <1>5, <1>6, <2>1, <2>2
  <2>4. d[v] = t[k]
    BY <1>5, <1>6, <2>1
  <2> QED
    BY <2>3, <2>4 DEF u, v
<1> QED
  BY <1>5, <1>6, <1>7, <1>8, <1>9 DEF Patched, s, t

\* What fix_checksum does to it, unless the dump grows.
LEMMA SealsInPlace ==
  ASSUME NEW g \in Seq(Bytes), NEW b \in Nat, 1 <= b, b + 7 <= Len(g), NEW n \in Nat,
         summ_le16(sealed(slice(g, b, n))) = 0
  PROVE  LET d == put(g, b, n, sealed(slice(g, b, n)))
         IN  d \in Seq(Bytes) /\ (Len(d) = Len(g) => Sealed(d, g, b, n))
<1> DEFINE s == slice(g, b, n)
           t == sealed(s)
           d == put(g, b, n, t)
<1>1. Len(g) \in Nat /\ b \in 1..(Len(g) + 1)
  BY LenProperties
<1>2. /\ s \in Seq(Bytes) /\ Len(s) \in Nat
      /\ b + n - 1 <= Len(g) => Len(s) = n
      /\ b + n - 1 > Len(g) => Len(s) = Len(g) - b + 1
      /\ \A i \in 1..Len(s) : s[i] = g[b + i - 1] /\ b + i - 1 \in 1..Len(g)
  BY <1>1, SliceFacts
<1>3. /\ t \in Seq(Bytes) /\ Len(t) \in Nat
      /\ Len(s) >= 8 =>
           /\ Len(t) = Len(s)
           /\ \A i \in 1..Len(s) : i \notin {7, 8} => t[i] = s[i]
      /\ Len(s) < 8 => Len(t) > Len(s)
  <2> HIDE DEF s
  <2> QED
    BY <1>2, SealedFacts, LenProperties
<1>4. d \in Seq(Bytes) /\ Len(d) = Len(g) - Len(s) + Len(t)
  <2>1. t \in Seq(Bytes)
    BY <1>3
  <2> HIDE DEF t
  <2> QED
    BY <1>1, <2>1, PutPieces
<1>5. ASSUME Len(d) = Len(g)
      PROVE  Sealed(d, g, b, n)
  <2>1. Len(t) = Len(s) /\ Len(s) >= 8
    <3> HIDE DEF d, t, s
    <3>1. Len(t) = Len(s)
      BY <1>1, <1>2, <1>3, <1>4, <1>5
    <3> QED
      BY <1>2, <1>3, <3>1
  <2>2. \A i \in 1..Len(g) : d[i] = IF i \in b..(b + Len(t) - 1) THEN t[i - b + 1] ELSE g[i]
    <3>1. t \in Seq(Bytes) /\ Len(t) = Len(slice(g, b, n))
      BY <1>3, <2>1
    <3> HIDE DEF t
    <3> QED
      BY <1>1, <3>1, PutInPlace
  <2>3. summ_le16(t) = 0
    OBVIOUS
  <2>4. /\ slice(d, b, n) \in Seq(Bytes) /\ Len(slice(d, b, n)) \in Nat
        /\ b + n - 1 <= Len(d) => Len(slice(d, b, n)) = n
        /\ b + n - 1 > Len(d) => Len(slice(d, b, n)) = Len(d) - b + 1
        /\ \A i \in 1..Len(slice(d, b, n)) : slice(d, b, n)[i] = d[b + i - 1]
    <3>1. PICK e \in Seq(Bytes) : e = d /\ b \in 1..(Len(e) + 1)
      BY <1>1, <1>4, <1>5
    <3>2. b \in 1..(Len(e) + 1)
      BY <3>1
    <3> HIDE DEF d
    <3>3. /\ slice(e, b, n) \in Seq(Bytes) /\ Len(slice(e, b, n)) \in Nat
          /\ b + n - 1 <= Len(e) => Len(slice(e, b, n)) = n
          /\ b + n - 1 > Len(e) => Len(slice(e, b, n)) = Len(e) - b + 1
          /\ \A i \in 1..Len(slice(e, b, n)) :
               slice(e, b, n)[i] = e[b + i - 1] /\ b + i - 1 \in 1..Len(e)
      BY <3>2, SliceFacts
    <3> QED
      BY <3>1, <3>3
  <2> DEFINE u == slice(d, b, n)
  <2> HIDE DEF s, t, d, u
  <2>5. Len(u) = Len(t)
    BY <1>1, <1>2, <1>5, <2>1, <2>4 DEF u
  <2>6. ASSUME NEW i \in 1..Len(t)
        PROVE  u[i] = t[i]
    <3>1. b + i - 1 \in 1..Len(g) /\ b + i - 1 \in b..(b + Len(t) - 1)
          /\ (b + i - 1) - b + 1 = i /\ i \in 1..Len(u)
      BY <1>1, <1>2, <1>3, <2>1, <2>5
    <3>2. u[i] = d[b + i - 1]
      BY <2>4, <3>1 DEF u
    <3> QED
      BY <2>2, <3>1, <3>2
  <2>7. u = t
    <3>1. u \in Seq(Bytes)
      BY <2>4 DEF u
    <3> QED
      BY <1>3, <2>5, <2>6, <3>1, SeqEqual
  <2>8. ASSUME NEW i \in 1..Len(g), i \notin {b + 6, b + 7}
        PROVE  d[i] = g[i]
    <3>1. CASE i \in b..(b + Len(t) - 1)
      <4>1. /\ i - b + 1 \in 1..Len(s) /\ i - b + 1 \notin {7, 8}
            /\ b + (i - b + 1) - 1 = i
        BY <1>1, <1>2, <2>1, <2>8, <3>1
      <4>2. t[i - b + 1] = s[i - b + 1]
        BY <1>3, <2>1, <4>1
      <4>3. s[i - b + 1] = g[i]
        BY <1>2, <4>1
      <4> QED
        BY <2>2, <3>1, <4>2, <4>3
    <3>2. CASE ~(i \in b..(b + Len(t) - 1))
      BY <2>2, <3>2
    <3> QED
      BY <3>1, <3>2
  <2> QED
    BY <1>4, <1>5, <2>1, <2>3, <2>7, <2>8 DEF Sealed, s, t, u
<1> QED
  BY <1>4, <1>5

\* What the two changes leave as it was, and what they write.
LEMMA FinishedBytes ==
  ASSUME NEW f \in Seq(Bytes), NEW b \in found(f), NEW n \in Nat, BehindHeader(f),
         NEW p, NEW g, Patched(g, f, p), NEW d, Sealed(d, g, b, n)
  PROVE  /\ d \in Seq(Bytes) /\ Len(d) = Len(f)
         /\ p \in Nat /\ 10 <= p /\ b + 4 <= p /\ p + 11 <= Len(f)
         /\ \A i \in 1..Len(f) :
              i \notin (p + 4)..(p + 11) \cup {b + 6, b + 7} => d[i] = f[i]
         /\ \A k \in 1..4 : /\ d[p + 4 + k - 1] = be32_bytes(Counted(f, p))[k]
                            /\ d[p + 8 + k - 1] = be32_bytes(NewSize)[k]
<1>1. p \in lowest(Descriptors(f)) /\ b + 4 <= p /\ p + 11 <= Len(f)
  BY DEF Patched, BehindHeader
<1>2. p \in Nat /\ 10 <= p
  <2>1. IsDescriptor(f, p)
    BY <1>1, DescriptorAt DEF lowest
  <2> QED
    BY <2>1 DEF IsDescriptor
<1>3. b \in Nat /\ Len(f) \in Nat
  BY FoundFacts, LenProperties
<1>4. d \in Seq(Bytes) /\ Len(d) = Len(f) /\ Len(g) = Len(f)
  BY DEF Sealed, Patched
<1>5. ASSUME NEW i \in 1..Len(f), i \notin (p + 4)..(p + 11) \cup {b + 6, b + 7}
      PROVE  d[i] = f[i]
  <2>1. d[i] = g[i]
    BY <1>4, <1>5 DEF Sealed
  <2>2. g[i] = f[i]
    BY <1>5 DEF Patched
  <2> QED
    BY <2>1, <2>2
<1>6. ASSUME NEW i \in (p + 4)..(p + 11)
      PROVE  d[i] = g[i]
  <2>1. i \in 1..Len(g) /\ i \notin {b + 6, b + 7}
    BY <1>1, <1>2, <1>3, <1>4
  <2> QED
    BY <2>1 DEF Sealed
<1>7. ASSUME NEW k \in 1..4
      PROVE  /\ d[p + 4 + k - 1] = be32_bytes(Counted(f, p))[k]
             /\ d[p + 8 + k - 1] = be32_bytes(NewSize)[k]
  <2>1. p + 4 + k - 1 \in (p + 4)..(p + 11) /\ p + 8 + k - 1 \in (p + 4)..(p + 11)
    BY <1>2
  <2>2. /\ g[p + 4 + k - 1] = be32_bytes(Counted(f, p))[k]
        /\ g[p + 8 + k - 1] = be32_bytes(NewSize)[k]
    BY DEF Patched
  <2> QED
    BY <1>6, <2>1, <2>2
<1> QED
  BY <1>1, <1>2, <1>4, <1>5, <1>7

\* The block is found again, and the descriptor is still behind its header: a
\* tag that begins with the last byte of the magic would begin with 0.
LEMMA FinishedHeader ==
  ASSUME NEW f \in Seq(Bytes), NEW b \in found(f), NEW n \in Nat, BehindHeader(f),
         NEW p, NEW g, Patched(g, f, p), NEW d, Sealed(d, g, b, n)
  PROVE  b \in found(d) /\ le16(d, b + 4) = le16(f, b + 4) /\ BehindHeader(d)
<1>1. /\ d \in Seq(Bytes) /\ Len(d) = Len(f) /\ p \in Nat /\ b + 4 <= p
      /\ \A i \in 1..Len(f) :
           i \notin (p + 4)..(p + 11) \cup {b + 6, b + 7} => d[i] = f[i]
  BY FinishedBytes
<1>2. b \in Nat /\ 1 <= b /\ b + 7 <= Len(f) /\ Len(f) \in Nat
  BY FoundFacts, LenProperties
<1>3. \A i \in 1..(b + 5) : d[i] = f[i]
  <2>1. \A i \in 1..(b + 5) :
          i \in 1..Len(f) /\ i \notin (p + 4)..(p + 11) \cup {b + 6, b + 7}
    BY <1>1, <1>2
  <2> QED
    BY <1>1, <2>1
<1>4. b \in found(d) /\ le16(d, b + 4) = le16(f, b + 4)
  BY <1>1, <1>3, HeaderKept
<1>5. ASSUME NEW q \in lowest(Descriptors(d)), q < b + 4
      PROVE  FALSE
  <2>1. q \in Descriptors(d) /\ IsDescriptor(d, q)
    BY <1>1, DescriptorAt DEF lowest
  <2>2. q \in Nat /\ 10 <= q
    BY <2>1 DEF IsDescriptor
  <2>3. CASE q <= b + 2
    <3>1. \A i \in 1..(q + 3) : f[i] = d[i]
      BY <1>2, <1>3, <2>2, <2>3
    <3>2. q \in lowest(Descriptors(f))
      BY <1>1, <3>1, LowestDepends
    <3> QED
      BY <1>2, <2>2, <2>3, <3>2 DEF BehindHeader
  <2>4. CASE q = b + 3
    <3>1. d[q + 1 - 1] = Tag[1]
      BY <2>1 DEF IsDescriptor
    <3>2. d[b + 4 - 1] = Magic[4]
      BY <1>1, <1>4, FoundFacts, MagicAt
    <3>3. q + 1 - 1 = b + 4 - 1
      BY <1>2, <2>2, <2>4
    <3> QED
      BY <3>1, <3>2, <3>3, PatternFacts
  <2> QED
    BY <1>2, <1>5, <2>2, <2>3, <2>4
<1>6. ASSUME NEW c \in found(d), NEW q \in lowest(Descriptors(d))
      PROVE  c + 4 <= q
  <2>1. c = b
    BY <1>1, <1>4, FoundFacts
  <2>2. q \in Nat
    BY <1>1, DescriptorAt DEF lowest, IsDescriptor
  <2> QED
    BY <1>2, <1>5, <2>1, <2>2
<1> QED
  BY <1>4, <1>6 DEF BehindHeader

-----------------------------------------------------------------------------
(***************************************************************************)
(* The invariant.                                                          *)
(***************************************************************************)
\* What is in memory, or written, at the end of a run.
Finished(d) ==
  \E p, g : Patched(g, infile, p) /\ Sealed(d, g, base, length)

\* The block that is worked on is the one of the dump that was read.
Located ==
  pc \in {"patch", "seal", "check", "written"} =>
    base \in found(infile) /\ length = le16(infile, base + 4)

\* How far the run is.
Progress ==
  /\ pc = "patch" => data = infile
  /\ pc = "seal" => \E p : Patched(data, infile, p)
  /\ pc = "check" /\ size_kept => Finished(data)
  /\ pc = "written" => Finished(outfile) /\ outfile = data

\* The inductive invariant.
IInv == TypeOK /\ Located /\ Progress

\* The numbers that the descriptor has.
LEMMA DescriptorNumbers ==
  ASSUME NEW f \in Seq(Bytes), NEW p \in Nat, p + 11 <= Len(f)
  PROVE  /\ be32(f, p + 4) \in Nat /\ be32(f, p + 8) \in Nat
         /\ be32(f, p + 4) * be32(f, p + 8) \in Nat
<1>1. \A k \in (p + 4)..(p + 11) : f[k] \in Bytes
  <2>1. \A k \in (p + 4)..(p + 11) : k \in 1..Len(f)
    BY LenProperties
  <2> QED
    BY <2>1, ElementOfSeq
<1>2. be32(f, p + 4) \in Nat /\ be32(f, p + 8) \in Nat
  <2>1. /\ p + 4 \in Nat /\ (p + 4)..(p + 4 + 3) \subseteq (p + 4)..(p + 11)
        /\ p + 8 \in Nat /\ (p + 8)..(p + 8 + 3) \subseteq (p + 4)..(p + 11)
    OBVIOUS
  <2> QED
    BY <1>1, <2>1, Be32Number
<1> QED
  BY <1>2

\* The numbers that the descriptor has afterwards.
LEMMA FinishedNumbers ==
  ASSUME NEW d, NEW f, NEW g, NEW p \in Nat, Patched(g, f, p),
         \A k \in 1..4 : /\ d[p + 4 + k - 1] = be32_bytes(Counted(f, p))[k]
                          /\ d[p + 8 + k - 1] = be32_bytes(NewSize)[k]
  PROVE  be32(d, p + 4) = Counted(f, p) /\ be32(d, p + 8) = NewSize
<1>1. Counted(f, p) \in 0..(Word * Word - 1) /\ NewSize \in 0..(Word * Word - 1)
  <2>1. Counted(f, p) \in 0..(Word * Word - 1)
    BY DEF Patched
  <2>2. Word \in Nat
    BY WordPositive
  <2>3. NewSize \in Nat /\ NewSize < Word * Word
    BY ConfigAssumption
  <2>4. Word * Word \in Nat
    BY <2>2
  <2> QED
    BY <2>1, <2>3, <2>4
<1>2. PICK x \in Nat, y \in Nat : x = p + 4 /\ y = p + 8
  OBVIOUS
<1>3. \A k \in 1..4 : d[x + k - 1] = be32_bytes(Counted(f, p))[k]
  BY <1>2
<1>4. \A k \in 1..4 : d[y + k - 1] = be32_bytes(NewSize)[k]
  BY <1>2
<1>5. be32(d, x) = Counted(f, p)
  BY <1>1, <1>3, Be32Placed
<1>6. be32(d, y) = NewSize
  BY <1>1, <1>4, Be32Placed
<1> QED
  BY <1>2, <1>5, <1>6

\* The count that is written is a natural number; it need not fit.
LEMMA CountedNumber ==
  ASSUME TypeOK, NEW f \in Seq(Bytes), NEW p \in Descriptors(f), p + 11 <= Len(f)
  PROVE  Counted(f, p) \in Nat
<1>1. p \in Nat
  BY DescriptorAt DEF IsDescriptor
<1>2. NewSize \in Nat \ {0} /\ blocks \in Nat \cup {NoCount}
  BY ConfigAssumption DEF TypeOK
<1>3. be32(f, p + 4) * be32(f, p + 8) \in Nat
  BY <1>1, DescriptorNumbers
<1>4. (be32(f, p + 4) * be32(f, p + 8)) \div NewSize \in Nat
  BY <1>2, <1>3, Quotient
<1> QED
  BY <1>2, <1>4 DEF Counted, new_count

\* The invariant holds at first and after each of the actions.
LEMMA InitInvariant ==
  ASSUME Init
  PROVE  IInv
<1>1. infile \in Seq(Bytes) /\ << >> \in Seq(Bytes)
  BY ConfigAssumption DEF Init
<1>2. Len(infile) \in Nat /\ Word - 1 \in Nat
  BY <1>1, LenProperties, WordPositive
<1>3. TypeOK
  BY <1>1, <1>2 DEF Init, TypeOK
<1>4. Located /\ Progress
  BY DEF Init, Located, Progress
<1> QED
  BY <1>3, <1>4 DEF IInv

LEMMA FindStep ==
  ASSUME IInv, find_config
  PROVE  IInv'
<1> USE DEF find_config
<1>1. infile \in Seq(Bytes) /\ TypeOK
  BY DEF IInv, TypeOK
<1>2. CASE found(infile) = {} /\ pc' = "died" /\ UNCHANGED <<base, length>>
  <2>1. TypeOK'
    BY <1>1, <1>2 DEF TypeOK
  <2> QED
    BY <1>2, <2>1 DEF IInv, Located, Progress
<1>3. ASSUME NEW p \in found(infile),
             base' = p, length' = le16(infile, p + 4), pc' = "patch"
      PROVE  IInv'
  <2>1. /\ p \in Nat /\ 1 <= p /\ p + 7 <= Len(infile)
        /\ le16(infile, p + 4) \in 0..(Word - 1)
    BY <1>1, FoundFacts
  <2>2. p \in 0..Len(infile)
    BY <1>1, <2>1, LenProperties
  <2>3. TypeOK'
    BY <1>1, <1>3, <2>1, <2>2 DEF TypeOK
  <2> QED
    BY <1>3, <2>3 DEF IInv, Located, Progress
<1> QED
  BY <1>2, <1>3

LEMMA PatchStep ==
  ASSUME IInv, patch_blocksize
  PROVE  IInv'
<1> USE DEF patch_blocksize
<1>1. /\ TypeOK /\ infile \in Seq(Bytes) /\ data = infile
      /\ base \in found(infile) /\ length = le16(infile, base + 4)
  BY DEF IInv, TypeOK, Located, Progress
<1>2. ASSUME NEW p \in lowest(Descriptors(data)), p + 11 <= Len(data),
             Counted(data, p) < Word * Word,
             data' = put(put(data, p + 4, 4, be32_bytes(Counted(data, p))),
                         p + 8, 4, be32_bytes(NewSize)),
             pc' = "seal"
      PROVE  IInv'
  <2>1. p \in Descriptors(data)
    BY DEF lowest
  <2>2. Counted(data, p) \in 0..(Word * Word - 1)
    <3>1. Counted(data, p) \in Nat
      BY <1>1, <1>2, <2>1, CountedNumber
    <3>2. Word * Word \in Nat
      BY WordPositive
    <3> QED
      BY <1>2, <3>1, <3>2
  <2>3. Patched(data', infile, p)
    BY <1>1, <1>2, <2>2, PatchesInPlace
  <2>4. data' \in Seq(Bytes)
    BY <2>3 DEF Patched
  <2>5. TypeOK'
    BY <1>1, <1>2, <2>4 DEF TypeOK
  <2>6. Patched(data, infile, p)'
    BY <2>3 DEF Patched, Counted, new_count
  <2> QED
    BY <1>1, <1>2, <2>5, <2>6 DEF IInv, Located, Progress
<1>3. ASSUME pc' = "died", UNCHANGED data
      PROVE  IInv'
  <2>1. TypeOK'
    BY <1>1, <1>3 DEF TypeOK
  <2> QED
    BY <1>3, <2>1 DEF IInv, Located, Progress
<1> QED
  BY <1>2, <1>3 DEF Counted

LEMMA SealStep ==
  ASSUME IInv, fix_checksum
  PROVE  IInv'
<1> DEFINE blk == sealed(slice(data, base, length))
<1>1. /\ TypeOK /\ infile \in Seq(Bytes) /\ length \in Nat
      /\ base \in found(infile) /\ length = le16(infile, base + 4)
  BY WordPositive DEF IInv, TypeOK, Located, fix_checksum
<1>2. PICK p : Patched(data, infile, p)
  BY DEF IInv, Progress, fix_checksum
<1>3. data \in Seq(Bytes) /\ Len(data) = Len(infile)
  BY <1>2 DEF Patched
<1>4. base \in Nat /\ 1 <= base /\ base + 7 <= Len(data)
  BY <1>1, <1>3, FoundFacts
<1>5. CASE summ_le16(blk) = 0 /\ data' = put(data, base, length, blk) /\ pc' = "check"
  <2>1. data' \in Seq(Bytes) /\ (Len(data') = Len(data) => Sealed(data', data, base, length))
    BY <1>1, <1>3, <1>4, <1>5, SealsInPlace
  <2>2. TypeOK'
    BY <1>1, <1>5, <2>1 DEF TypeOK, fix_checksum
  <2>3. ASSUME size_kept'
        PROVE  Finished(data)'
    <3>1. Sealed(data', data, base, length)
      BY <1>3, <2>1, <2>3 DEF size_kept, fix_checksum
    <3>2. Patched(data, infile', p) /\ Sealed(data', data, base', length')
      BY <1>2, <3>1 DEF fix_checksum
    <3>3. Counted(infile, p)' = Counted(infile, p)
      BY DEF fix_checksum, Counted, new_count
    <3>4. \E q, g : Patched(g, infile, q)' /\ Sealed(data', g, base', length')
      BY <1>2, <3>2, <3>3 DEF Patched, fix_checksum
    <3> QED
      BY <3>4 DEF Finished
  <2> QED
    BY <1>1, <1>5, <2>2, <2>3 DEF IInv, Located, Progress, fix_checksum
<1>6. CASE pc' = "died" /\ UNCHANGED data
  <2>1. TypeOK'
    BY <1>1, <1>6 DEF TypeOK, fix_checksum
  <2> QED
    BY <1>6, <2>1 DEF IInv, Located, Progress, fix_checksum
<1> QED
  BY <1>5, <1>6 DEF fix_checksum

LEMMA WriteStep ==
  ASSUME IInv, write
  PROVE  IInv'
<1>1. /\ TypeOK /\ base \in found(infile) /\ length = le16(infile, base + 4)
      /\ size_kept => Finished(data)
  BY DEF IInv, Located, Progress, write
<1>2. CASE size_kept /\ outfile' = data /\ pc' = "written"
  <2>1. TypeOK'
    BY <1>1, <1>2 DEF TypeOK, write, size_kept
  <2>2. Finished(outfile)'
    <3>1. PICK p, g : Patched(g, infile, p) /\ Sealed(data, g, base, length)
      BY <1>1, <1>2 DEF Finished
    <3>2. /\ Counted(infile, p)' = Counted(infile, p)
          /\ UNCHANGED <<infile, base, length>> /\ outfile' = data
      BY <1>2 DEF write, Counted, new_count
    <3>3. \E q, h : Patched(h, infile, q)' /\ Sealed(outfile', h, base', length')
      BY <3>1, <3>2 DEF Patched
    <3> QED
      BY <3>3 DEF Finished
  <2> QED
    BY <1>1, <1>2, <2>1, <2>2 DEF IInv, Located, Progress, write
<1>3. CASE pc' = "died" /\ UNCHANGED outfile
  <2>1. TypeOK'
    BY <1>1, <1>3 DEF TypeOK, write
  <2> QED
    BY <1>3, <2>1 DEF IInv, Located, Progress, write
<1> QED
  BY <1>2, <1>3 DEF write

LEMMA AgainStep ==
  ASSUME IInv, run_again
  PROVE  IInv'
<1>1. TypeOK'
  BY DEF IInv, TypeOK, Located, run_again
<1> QED
  BY <1>1 DEF IInv, Located, Progress, run_again

LEMMA NextInvariant ==
  ASSUME IInv, [Next]_vars
  PROVE  IInv'
<1>1. CASE strip
  <2>1. TypeOK'
    BY <1>1 DEF IInv, TypeOK, strip
  <2> QED
    BY <1>1, <2>1 DEF IInv, Located, Progress, strip
<1>2. CASE UNCHANGED vars
  <2>1. TypeOK'
    BY <1>2 DEF IInv, TypeOK, vars
  <2>2. Progress'
    BY <1>2 DEF IInv, Progress, vars, size_kept, Finished, Patched, Sealed, Counted, new_count
  <2> QED
    BY <1>2, <2>1, <2>2 DEF IInv, Located, vars
<1> QED
  BY <1>1, <1>2, FindStep, PatchStep, SealStep, WriteStep, AgainStep DEF Next

\* So it always holds.
LEMMA Invariance == Spec => []IInv
<1>1. Init => IInv
  BY InitInvariant
<1>2. IInv /\ [Next]_vars => IInv'
  BY NextInvariant
<1> QED
  BY <1>1, <1>2, PTL DEF Spec

(***************************************************************************)
(* Whatever the dumps hold, what is in memory and what is written are      *)
(* bytes, the block is in the dump, its length has 16 bits, and what is    *)
(* written is as long as what was read.                                    *)
(***************************************************************************)
THEOREM TypeCorrect == Spec => []TypeOK
<1>1. IInv => TypeOK
  BY DEF IInv
<1> QED
  BY <1>1, Invariance, PTL

-----------------------------------------------------------------------------
(***************************************************************************)
(* What is written.                                                        *)
(***************************************************************************)
\* The tool leaves the descriptor behind the header.
LEMMA StaysBehind ==
  ASSUME \A f \in Dumps : BehindHeader(f)
  PROVE  Spec => []BehindHeader(infile)
<1>1. Init => BehindHeader(infile)
  BY DEF Init
<1>2. IInv /\ BehindHeader(infile) /\ [Next]_vars => BehindHeader(infile)'
  <2> SUFFICES ASSUME IInv, BehindHeader(infile), [Next]_vars
               PROVE  BehindHeader(infile')
    BY DEF BehindHeader
  <2>1. CASE run_again
    <3>1. /\ infile \in Seq(Bytes) /\ length \in Nat
          /\ base \in found(infile)
      BY <2>1, WordPositive DEF IInv, TypeOK, Located, run_again
    <3>2. PICK p, g : Patched(g, infile, p) /\ Sealed(outfile, g, base, length)
      BY <2>1 DEF IInv, Progress, run_again, Finished
    <3>3. BehindHeader(outfile)
      BY <3>1, <3>2, FinishedHeader
    <3> QED
      BY <2>1, <3>3 DEF run_again
  <2>2. CASE UNCHANGED infile
    BY <2>2 DEF BehindHeader
  <2> QED
    BY <2>1, <2>2 DEF Next, vars, find_config, patch_blocksize, strip, fix_checksum, write
<1> QED
  BY <1>1, <1>2, Invariance, PTL DEF Spec

(***************************************************************************)
(* When the numbers of the descriptor are not in the header of the block,  *)
(* what is written has the block where it was, as long as it was, and      *)
(* sealed, on the first run as on the second.                              *)
(***************************************************************************)
THEOREM WrittenSumsToZero ==
  ASSUME \A f \in Dumps : BehindHeader(f)
  PROVE  Spec => []SumsToZero
<1>1. IInv /\ BehindHeader(infile) => SumsToZero
  <2> SUFFICES ASSUME IInv, BehindHeader(infile), pc = "written"
               PROVE  \E p \in found(outfile) :
                        /\ p = base /\ le16(outfile, p + 4) = length
                        /\ summ_le16(slice(outfile, p, length)) = 0
    BY DEF SumsToZero
  <2>1. /\ infile \in Seq(Bytes) /\ length \in Nat
        /\ base \in found(infile) /\ length = le16(infile, base + 4)
    BY WordPositive DEF IInv, TypeOK, Located
  <2>2. PICK p, g : Patched(g, infile, p) /\ Sealed(outfile, g, base, length)
    BY DEF IInv, Progress, Finished
  <2>3. base \in found(outfile) /\ le16(outfile, base + 4) = le16(infile, base + 4)
    BY <2>1, <2>2, FinishedHeader
  <2> QED
    BY <2>1, <2>2, <2>3 DEF Sealed
<1> QED
  BY <1>1, Invariance, StaysBehind, PTL

\* The descriptor that is resized is the first in the dump.
LEMMA FirstResized ==
  ASSUME IInv, BehindHeader(infile), pc = "written"
  PROVE  \E p \in lowest(Descriptors(infile)) : Resized(p)
<1>1. /\ infile \in Seq(Bytes) /\ length \in Nat /\ base \in found(infile)
  BY WordPositive DEF IInv, TypeOK, Located
<1>2. PICK p, g : Patched(g, infile, p) /\ Sealed(outfile, g, base, length)
  BY DEF IInv, Progress, Finished
<1>3. /\ outfile \in Seq(Bytes) /\ Len(outfile) = Len(infile)
      /\ p \in Nat /\ 10 <= p /\ base + 4 <= p /\ p + 11 <= Len(infile)
      /\ \A i \in 1..Len(infile) :
           i \notin (p + 4)..(p + 11) \cup {base + 6, base + 7} => outfile[i] = infile[i]
      /\ \A k \in 1..4 : /\ outfile[p + 4 + k - 1] = be32_bytes(Counted(infile, p))[k]
                         /\ outfile[p + 8 + k - 1] = be32_bytes(NewSize)[k]
  BY <1>1, <1>2, FinishedBytes
<1>4. Changed \subseteq (p + 4)..(p + 11) \cup {base + 6, base + 7}
  BY <1>1, <1>3, LenProperties DEF Changed, Differ
<1>5. be32(outfile, p + 4) = Counted(infile, p) /\ be32(outfile, p + 8) = NewSize
  BY <1>2, <1>3, FinishedNumbers
<1>6. ASSUME blocks = NoCount
      PROVE  be32(infile, p + 4) * be32(infile, p + 8) - be32(outfile, p + 4) * NewSize
               \in 0..(NewSize - 1)
  <2>1. be32(infile, p + 4) * be32(infile, p + 8) \in Nat
    BY <1>1, <1>3, DescriptorNumbers
  <2> DEFINE total == be32(infile, p + 4) * be32(infile, p + 8)
  <2>2. Counted(infile, p) = total \div NewSize
    BY <1>6 DEF Counted, new_count
  <2> HIDE DEF total
  <2>3. NewSize \in Nat \ {0} /\ total \in Nat
    BY <2>1, ConfigAssumption DEF total
  <2>4. PICK q \in Nat : total \div NewSize = q
    BY <2>3, Quotient
  <2>5. PICK c \in 0..(NewSize - 1) : total % NewSize = c
    BY <2>3, Quotient
  <2>6. total = NewSize * q + c
    BY <2>3, <2>4, <2>5, Quotient
  <2> QED
    BY <1>5, <2>2, <2>3, <2>4, <2>6 DEF total
<1> QED
  BY <1>2, <1>4, <1>5, <1>6 DEF Patched, Resized

(***************************************************************************)
(* Under the same condition only the eight bytes of one descriptor and the *)
(* checksum change, and it is that of the AIX record when this one is the  *)
(* first in the dump; the new blocks have NewSize bytes, and unless their  *)
(* number was given they hold what the old ones held, less than one block  *)
(* of it lost.                                                             *)
(***************************************************************************)
THEOREM WrittenOnlyDescriptorChanges ==
  ASSUME \A f \in Dumps : BehindHeader(f)
  PROVE  Spec => []OnlyDescriptorChanges
<1>1. IInv /\ BehindHeader(infile) => OnlyDescriptorChanges
  <2> SUFFICES ASSUME IInv, BehindHeader(infile), pc = "written"
               PROVE  /\ \E p \in Descriptors(infile) : Resized(p)
                      /\ \A p \in AixDescriptors :
                           (\A q \in Descriptors(infile) : p <= q) => Resized(p)
    BY DEF OnlyDescriptorChanges
  <2>1. PICK p \in lowest(Descriptors(infile)) : Resized(p)
    BY FirstResized
  <2>2. ASSUME NEW q \in AixDescriptors, \A x \in Descriptors(infile) : q <= x
        PROVE  Resized(q)
    <3>1. q \in lowest(Descriptors(infile))
      BY <2>2 DEF AixDescriptors, lowest
    <3>2. Descriptors(infile) \in SUBSET Nat
      BY LenProperties DEF Descriptors, Finds, IInv, TypeOK
    <3>3. p = q
      BY <2>1, <3>1, <3>2, LowestUnique
    <3> QED
      BY <2>1, <3>3
  <2> QED
    BY <2>1, <2>2 DEF lowest
<1> QED
  BY <1>1, Invariance, StaysBehind, PTL

-----------------------------------------------------------------------------
(***************************************************************************)
(* The second run.                                                         *)
(***************************************************************************)
\* No checksum makes a descriptor of what is around it, or spoils the first.
SealKeepsDescriptor(f) ==
  \A b \in found(f), c \in Bytes, e \in Bytes :
    lowest(Descriptors(put(f, b + 6, 2, <<c, e>>))) = lowest(Descriptors(f))

WellPlaced(f) == BehindHeader(f) /\ SealKeepsDescriptor(f)

\* The tool has nothing to change in f.
Settled(f) ==
  \A p \in lowest(Descriptors(f)), b \in found(f) :
    /\ \A k \in 1..4 : /\ f[p + 4 + k - 1] = be32_bytes(Counted(f, p))[k]
                       /\ f[p + 8 + k - 1] = be32_bytes(NewSize)[k]
    /\ sealed(slice(f, b, le16(f, b + 4))) = slice(f, b, le16(f, b + 4))

\* The descriptor is found again.
LEMMA DescriptorStays ==
  ASSUME NEW f \in Seq(Bytes), NEW b \in found(f), NEW n \in Nat, WellPlaced(f),
         NEW p, NEW g, Patched(g, f, p), NEW d, Sealed(d, g, b, n)
  PROVE  p \in lowest(Descriptors(d))
<1>1. /\ d \in Seq(Bytes) /\ Len(d) = Len(f)
      /\ p \in Nat /\ 10 <= p /\ b + 4 <= p /\ p + 11 <= Len(f)
      /\ \A i \in 1..Len(f) :
           i \notin (p + 4)..(p + 11) \cup {b + 6, b + 7} => d[i] = f[i]
  BY FinishedBytes DEF WellPlaced
<1>2. b \in Nat /\ 1 <= b /\ b + 7 <= Len(f) /\ Len(f) \in Nat
  BY FoundFacts, LenProperties
<1>3. PICK c \in Bytes, e \in Bytes : c = d[b + 6] /\ e = d[b + 7]
  <2>1. b + 6 \in 1..Len(d) /\ b + 7 \in 1..Len(d)
    BY <1>1, <1>2
  <2> QED
    BY <1>1, <2>1, ElementOfSeq
<1> DEFINE s == <<c, e>>
<1>4. s \in Seq(Bytes) /\ Len(s) = 2 /\ s[1] = c /\ s[2] = e
  OBVIOUS
<1>5. PICK x \in Nat, m \in Nat : x = b + 6 /\ m = 2
  BY <1>2
<1> DEFINE h == put(f, x, m, s)
<1>6. lowest(Descriptors(h)) = lowest(Descriptors(f))
  BY <1>5 DEF WellPlaced, SealKeepsDescriptor
<1> HIDE DEF s
<1>7. /\ h \in Seq(Bytes) /\ Len(h) = Len(f)
      /\ \A i \in 1..Len(f) : h[i] = IF i \in x..(x + Len(s) - 1) THEN s[i - x + 1] ELSE f[i]
  <2>1. x \in 1..(Len(f) + 1) /\ x + m - 1 <= Len(f)
    BY <1>2, <1>5
  <2>2. Len(slice(f, x, m)) = m
    BY <2>1, SliceFacts
  <2>3. x \in 1..(Len(f) + 1) /\ s \in Seq(Bytes) /\ Len(s) = Len(slice(f, x, m))
    BY <1>4, <1>5, <2>1, <2>2
  <2> HIDE DEF h
  <2>4. ASSUME NEW t \in Seq(Bytes), t = s, NEW k \in 1..(Len(f) + 1), k = x
        PROVE  /\ put(f, k, m, t) \in Seq(Bytes) /\ Len(put(f, k, m, t)) = Len(f)
               /\ \A i \in 1..Len(f) :
                    put(f, k, m, t)[i] =
                      IF i \in k..(k + Len(t) - 1) THEN t[i - k + 1] ELSE f[i]
    BY <2>3, <2>4, PutInPlace
  <2> QED
    BY <2>3, <2>4 DEF h
<1> HIDE DEF h
<1>8. ASSUME NEW i \in 1..(p + 3)
      PROVE  d[i] = h[i]
  <2>1. i \in 1..Len(f)
    BY <1>1, <1>2
  <2>2. CASE i = b + 6 \/ i = b + 7
    <3>1. i \in x..(x + Len(s) - 1) /\ (i = b + 6 => i - x + 1 = 1) /\ (i = b + 7 => i - x + 1 = 2)
      BY <1>2, <1>4, <1>5, <2>2
    <3>2. h[i] = s[i - x + 1]
      BY <1>7, <2>1, <3>1
    <3> QED
      BY <1>3, <1>4, <2>2, <3>1, <3>2
  <2>3. CASE i # b + 6 /\ i # b + 7
    <3>1. ~(i \in x..(x + Len(s) - 1)) /\ i \notin (p + 4)..(p + 11) \cup {b + 6, b + 7}
      BY <1>1, <1>2, <1>4, <1>5, <2>3
    <3> QED
      BY <1>1, <1>7, <2>1, <3>1
  <2> QED
    BY <2>2, <2>3
<1>9. p \in lowest(Descriptors(h)) /\ Len(d) = Len(h)
  BY <1>1, <1>6, <1>7 DEF Patched
<1> QED
  BY <1>1, <1>7, <1>8, <1>9, LowestDepends

\* After a run there is nothing left to change: the count of the new blocks is
\* its own, and the checksum too.
LEMMA FinishedSettles ==
  ASSUME TypeOK, NEW f \in Seq(Bytes), NEW b \in found(f), WellPlaced(f),
         NEW p, NEW g, Patched(g, f, p), NEW d, Sealed(d, g, b, le16(f, b + 4))
  PROVE  Settled(d)
<1> DEFINE n == le16(f, b + 4)
<1>1. n \in Nat
  BY FoundFacts, WordPositive
<1>2. Sealed(d, g, b, n)
  OBVIOUS
<1>3. BehindHeader(f)
  BY DEF WellPlaced
<1> HIDE DEF n
<1>4. /\ d \in Seq(Bytes) /\ Len(d) = Len(f) /\ p \in Nat /\ p + 11 <= Len(f)
      /\ \A k \in 1..4 : /\ d[p + 4 + k - 1] = be32_bytes(Counted(f, p))[k]
                         /\ d[p + 8 + k - 1] = be32_bytes(NewSize)[k]
  BY <1>1, <1>2, <1>3, FinishedBytes
<1>5. b \in found(d) /\ le16(d, b + 4) = n
  BY <1>1, <1>2, <1>3, FinishedHeader DEF n
<1>6. p \in lowest(Descriptors(d))
  BY <1>1, <1>2, DescriptorStays
<1>7. be32(d, p + 4) = Counted(f, p) /\ be32(d, p + 8) = NewSize
  BY <1>4, FinishedNumbers
<1>8. Counted(d, p) = Counted(f, p)
  <2>1. CASE blocks # NoCount
    BY <2>1 DEF Counted, new_count
  <2>2. CASE blocks = NoCount
    <3>1. PICK q \in Nat : Counted(f, p) = q
      BY WordPositive DEF Patched
    <3>2. NewSize \in Nat \ {0} /\ q * NewSize \in Nat /\ q * NewSize = NewSize * q
      BY ConfigAssumption
    <3>3. (q * NewSize) \div NewSize = q
      BY <3>2, QuotientUnique
    <3> QED
      BY <1>7, <2>2, <3>1, <3>3 DEF Counted, new_count
  <2> QED
    BY <2>1, <2>2
<1>9. sealed(slice(d, b, n)) = slice(d, b, n)
  <2>1. g \in Seq(Bytes) /\ Len(g) = Len(f)
    BY DEF Patched
  <2>2. b \in 1..(Len(g) + 1)
    BY <2>1, FoundFacts, LenProperties
  <2>3. slice(g, b, n) \in Seq(Bytes)
    BY <1>1, <2>1, <2>2, SliceFacts
  <2>4. Len(slice(g, b, n)) >= 8 /\ slice(d, b, n) = sealed(slice(g, b, n))
    BY <1>2 DEF Sealed
  <2> QED
    BY <2>3, <2>4, SealedFacts
<1>10. ASSUME NEW q \in lowest(Descriptors(d)), NEW c \in found(d)
       PROVE  q = p /\ c = b
  <2>1. Descriptors(d) \in SUBSET Nat
    BY <1>4, DescriptorAt DEF IsDescriptor
  <2> QED
    BY <1>4, <1>5, <1>6, <2>1, FoundFacts, LowestUnique
<1> QED
  BY <1>4, <1>5, <1>8, <1>9, <1>10 DEF Settled

\* A slice that is put back where it was changes nothing.
LEMMA PutBack ==
  ASSUME NEW d \in Seq(Bytes), NEW p \in 1..(Len(d) + 1), NEW n \in Nat
  PROVE  put(d, p, n, slice(d, p, n)) = d
<1> DEFINE s == slice(d, p, n)
           t == put(d, p, n, s)
<1>1. /\ s \in Seq(Bytes) /\ Len(s) \in Nat /\ Len(d) \in Nat
      /\ \A i \in 1..Len(s) : s[i] = d[p + i - 1]
  BY SliceFacts, LenProperties
<1>2. /\ t \in Seq(Bytes) /\ Len(t) = Len(d)
      /\ \A i \in 1..Len(d) : t[i] = IF i \in p..(p + Len(s) - 1) THEN s[i - p + 1] ELSE d[i]
  <2>1. s \in Seq(Bytes) /\ Len(s) = Len(slice(d, p, n))
    BY <1>1
  <2> HIDE DEF s
  <2> QED
    BY <2>1, PutInPlace
<1> HIDE DEF s, t
<1>3. ASSUME NEW i \in 1..Len(d)
      PROVE  t[i] = d[i]
  <2>1. CASE i \in p..(p + Len(s) - 1)
    <3>1. i - p + 1 \in 1..Len(s) /\ p + (i - p + 1) - 1 = i
      BY <1>1, <2>1
    <3>2. s[i - p + 1] = d[i]
      BY <1>1, <3>1
    <3> QED
      BY <1>2, <2>1, <3>2
  <2>2. CASE ~(i \in p..(p + Len(s) - 1))
    BY <1>2, <2>2
  <2> QED
    BY <2>1, <2>2
<1>4. t = d
  BY <1>2, <1>3, SeqEqual
<1> QED
  BY <1>4 DEF s, t

\* Patching and sealing what is settled changes nothing.
LEMMA SettledStays ==
  ASSUME NEW f \in Seq(Bytes), Settled(f), NEW b \in found(f),
         NEW p, NEW d, Patched(d, f, p)
  PROVE  d = f
<1>1. /\ p \in lowest(Descriptors(f)) /\ d \in Seq(Bytes) /\ Len(d) = Len(f)
      /\ \A i \in 1..Len(f) : i \notin (p + 4)..(p + 11) => d[i] = f[i]
      /\ \A k \in 1..4 : /\ d[p + 4 + k - 1] = be32_bytes(Counted(f, p))[k]
                         /\ d[p + 8 + k - 1] = be32_bytes(NewSize)[k]
  BY DEF Patched
<1>2. \A k \in 1..4 : /\ f[p + 4 + k - 1] = be32_bytes(Counted(f, p))[k]
                      /\ f[p + 8 + k - 1] = be32_bytes(NewSize)[k]
  BY <1>1 DEF Settled
<1>3. \A k \in 1..4 : /\ d[p + 4 + k - 1] = f[p + 4 + k - 1]
                      /\ d[p + 8 + k - 1] = f[p + 8 + k - 1]
  BY <1>1, <1>2
<1>4. p \in Nat /\ Len(f) \in Nat
  BY <1>1, DescriptorAt, LenProperties DEF lowest, IsDescriptor
<1>5. ASSUME NEW i \in 1..Len(f)
      PROVE  d[i] = f[i]
  <2>1. CASE i \in (p + 4)..(p + 7)
    <3>1. i - p - 3 \in 1..4 /\ p + 4 + (i - p - 3) - 1 = i
      BY <1>4, <2>1
    <3> QED
      BY <1>3, <3>1
  <2>2. CASE i \in (p + 8)..(p + 11)
    <3>1. i - p - 7 \in 1..4 /\ p + 8 + (i - p - 7) - 1 = i
      BY <1>4, <2>2
    <3> QED
      BY <1>3, <3>1
  <2>3. CASE i \notin (p + 4)..(p + 11)
    BY <1>1, <2>3
  <2> QED
    BY <1>4, <2>1, <2>2, <2>3
<1> QED
  BY <1>1, <1>5, SeqEqual

\* The first run reads one of the dumps, the second one changes nothing.
Second ==
  /\ runs = 1 => infile \in Dumps
  /\ runs = 2 => Settled(infile) /\ outfile = infile /\ data = infile

\* That it does is kept by every step.
LEMMA SecondStep ==
  ASSUME \A f \in Dumps : WellPlaced(f), IInv, Second, [Next]_vars
  PROVE  Second'
<1>1. /\ TypeOK /\ runs \in 1..2
      /\ infile \in Seq(Bytes) /\ length \in 0..(Word - 1)
  BY DEF IInv, TypeOK
<1>2. /\ UNCHANGED blocks
      /\ UNCHANGED infile => (Settled(infile)' <=> Settled(infile))
  BY DEF Next, vars, find_config, patch_blocksize, strip, fix_checksum, write, run_again,
         Settled, Counted, new_count
<1>3. CASE find_config \/ strip \/ UNCHANGED vars
  BY <1>2, <1>3 DEF Second, find_config, strip, vars
<1>4. CASE patch_blocksize
  <2>1. UNCHANGED <<infile, blocks, outfile, runs>> /\ data = infile /\ base \in found(infile)
    BY <1>4 DEF patch_blocksize, IInv, Progress, Located
  <2>2. ASSUME Settled(infile)
        PROVE  data' = data
    <3>1. CASE UNCHANGED data
      BY <3>1
    <3>2. ASSUME NEW p \in lowest(Descriptors(infile)), p + 11 <= Len(infile),
                 Counted(infile, p) < Word * Word,
                 data' = put(put(infile, p + 4, 4, be32_bytes(Counted(infile, p))),
                             p + 8, 4, be32_bytes(NewSize))
          PROVE  data' = data
      <4>1. Counted(infile, p) \in 0..(Word * Word - 1)
        <5>1. p \in Descriptors(infile)
          BY DEF lowest
        <5>2. Counted(infile, p) \in Nat
          BY <1>1, <3>2, <5>1, CountedNumber
        <5> QED
          BY <3>2, <5>2, WordPositive
      <4>2. Patched(data', infile, p)
        BY <1>1, <3>2, <4>1, PatchesInPlace
      <4> QED
        BY <1>1, <2>1, <2>2, <4>2, SettledStays
    <3> QED
      BY <1>4, <2>1, <3>1, <3>2 DEF patch_blocksize, Counted
  <2> QED
    BY <1>2, <2>1, <2>2 DEF Second
<1>5. CASE fix_checksum
  <2>1. /\ UNCHANGED <<infile, blocks, outfile, runs>>
        /\ base \in found(infile) /\ length = le16(infile, base + 4)
    BY <1>5 DEF fix_checksum, IInv, Located
  <2>2. ASSUME Settled(infile), data = infile
        PROVE  data' = data
    <3>1. PICK p : p \in lowest(Descriptors(infile))
      BY <1>5 DEF fix_checksum, IInv, Progress, Patched
    <3>2. sealed(slice(infile, base, length)) = slice(infile, base, length)
      BY <2>1, <2>2, <3>1 DEF Settled
    <3>3. base \in 1..(Len(infile) + 1) /\ length \in Nat
      BY <1>1, <2>1, FoundFacts, LenProperties, WordPositive
    <3>4. put(infile, base, length, slice(infile, base, length)) = infile
      BY <1>1, <3>3, PutBack
    <3> QED
      BY <1>5, <2>2, <3>2, <3>4 DEF fix_checksum
  <2> QED
    BY <1>2, <2>1, <2>2 DEF Second
<1>6. CASE write
  BY <1>2, <1>6 DEF Second, write
<1>7. CASE run_again
  <2>1. /\ infile \in Dumps /\ outfile = data /\ Finished(outfile)
        /\ base \in found(infile) /\ length = le16(infile, base + 4)
    BY <1>7 DEF run_again, Second, IInv, Progress, Located
  <2>2. PICK p, g : Patched(g, infile, p) /\ Sealed(outfile, g, base, length)
    BY <2>1 DEF Finished
  <2>3. Settled(outfile)
    BY <1>1, <2>1, <2>2, FinishedSettles
  <2>4. Settled(infile)'
    BY <1>2, <1>7, <2>3 DEF Settled, Counted, new_count, run_again
  <2> QED
    BY <1>7, <2>1, <2>4 DEF Second, run_again
<1> QED
  BY <1>3, <1>4, <1>5, <1>6, <1>7 DEF Next

\* And so it holds all along.
LEMMA SecondInvariance ==
  ASSUME \A f \in Dumps : WellPlaced(f)
  PROVE  Spec => []Second
<1>1. Init => Second
  BY DEF Init, Second
<1>2. IInv /\ Second /\ [Next]_vars => Second'
  BY SecondStep
<1> QED
  BY <1>1, <1>2, Invariance, PTL DEF Spec

(***************************************************************************)
(* When, besides, no checksum makes a descriptor or spoils the first, the  *)
(* tool that is run on what it wrote finds and writes the same bytes.      *)
(***************************************************************************)
THEOREM SecondRunIdle ==
  ASSUME \A f \in Dumps : WellPlaced(f)
  PROVE  Spec => []SecondRunChangesNothing
<1>1. Second => SecondRunChangesNothing
  BY DEF Second, SecondRunChangesNothing
<1> QED
  BY <1>1, SecondInvariance, PTL

-----------------------------------------------------------------------------
(***************************************************************************)
(* The comparisons by blocks.                                              *)
(***************************************************************************)
\* q is the region of the blocks from s to e - 1, and it could not be longer.
IsRegion(mask, last, q, s, e) ==
  /\ s \in 1..Len(mask) /\ e \in (s + 1)..(Len(mask) + 1)
  /\ \A i \in s..(e - 1) : mask[i]
  /\ s > 1 => ~mask[s - 1]
  /\ q[1] = (s - 1) * BLK
  /\ e <= Len(mask) => ~mask[e] /\ q[2] = (e - 1) * BLK
  /\ e = Len(mask) + 1 => q[2] = last

\* What the scan has after k blocks: the regions that are closed, the block
\* where the open one begins, and no block that differs outside of them.
Scanned(mask, last, r, k) ==
  /\ r.cur # 0 =>
       /\ r.cur \in 1..k /\ \A i \in r.cur..k : mask[i]
       /\ r.cur > 1 => ~mask[r.cur - 1]
  /\ \A q \in r.out : \E s, e \in 1..k : IsRegion(mask, last, q, s, e)
  /\ \A i \in 1..k :
       mask[i] => \/ r.cur # 0 /\ r.cur <= i
                  \/ \E q \in r.out : \E s, e \in 1..k :
                       IsRegion(mask, last, q, s, e) /\ i \in s..(e - 1)

\* One step of the scan: a region begins, ends, or neither.
LEMMA ScannedCases ==
  ASSUME NEW c, NEW out, NEW n, NEW m \in BOOLEAN
  PROVE  /\ m /\ c = 0 =>
              scanned([cur |-> c, out |-> out], n, m) = [cur |-> n, out |-> out]
         /\ ~m /\ c # 0 =>
              scanned([cur |-> c, out |-> out], n, m) =
                [cur |-> 0, out |-> out \cup {<<(c - 1) * BLK, (n - 1) * BLK>>}]
         /\ (m <=> c # 0) =>
              scanned([cur |-> c, out |-> out], n, m) = [cur |-> c, out |-> out]
<1> DEFINE r == [cur |-> c, out |-> out]
<1>1. r.cur = c /\ r.out = out /\ [r EXCEPT !.cur = n] = [cur |-> n, out |-> out]
  OBVIOUS
<1> HIDE DEF r
<1>2. m /\ c = 0 => scanned(r, n, m) = [cur |-> n, out |-> out]
  BY <1>1 DEF scanned
<1>3. ~m /\ c # 0 => scanned(r, n, m) =
        [cur |-> 0, out |-> out \cup {<<(c - 1) * BLK, (n - 1) * BLK>>}]
  BY <1>1 DEF scanned
<1>4. (m <=> c # 0) => scanned(r, n, m) = r
  BY <1>1 DEF scanned
<1> QED
  BY <1>2, <1>3, <1>4 DEF r

\* It keeps what Scanned says.
LEMMA ScanStep ==
  ASSUME NEW mask \in Seq(BOOLEAN), NEW last, NEW k \in Nat, k + 1 <= Len(mask),
         NEW c \in 0..Len(mask), NEW out,
         Scanned(mask, last, [cur |-> c, out |-> out], k)
  PROVE  Scanned(mask, last, scanned([cur |-> c, out |-> out], k + 1, mask[k + 1]), k + 1)
<1>1. Len(mask) \in Nat /\ BLK \in Nat \ {0} /\ \A i \in 1..Len(mask) : mask[i] \in BOOLEAN
  BY LenProperties, ElementOfSeq, ConfigAssumption
<1>2. /\ c # 0 => /\ c \in 1..k /\ \A i \in c..k : mask[i]
                  /\ c > 1 => ~mask[c - 1]
      /\ \A q \in out : \E s, e \in 1..k : IsRegion(mask, last, q, s, e)
      /\ \A i \in 1..k :
           mask[i] => \/ c # 0 /\ c <= i
                      \/ \E q \in out : \E s, e \in 1..k :
                           IsRegion(mask, last, q, s, e) /\ i \in s..(e - 1)
  BY DEF Scanned
<1>3. 1..k \subseteq 1..(k + 1) /\ k + 1 \in 1..(k + 1) /\ k + 1 \in 1..Len(mask)
  BY <1>1
<1>4. \A q \in out : \E s, e \in 1..(k + 1) : IsRegion(mask, last, q, s, e)
  BY <1>2, <1>3
<1>5. ASSUME NEW i \in 1..k, mask[i]
      PROVE  \/ c # 0 /\ c <= i
             \/ \E q \in out : \E s, e \in 1..(k + 1) :
                  IsRegion(mask, last, q, s, e) /\ i \in s..(e - 1)
  BY <1>2, <1>3, <1>5
<1> DEFINE next == scanned([cur |-> c, out |-> out], k + 1, mask[k + 1])
<1>6. /\ mask[k + 1] /\ c = 0 => next = [cur |-> k + 1, out |-> out]
      /\ ~mask[k + 1] /\ c # 0 =>
           next = [cur |-> 0, out |-> out \cup {<<(c - 1) * BLK, (k + 1 - 1) * BLK>>}]
      /\ (mask[k + 1] <=> c # 0) => next = [cur |-> c, out |-> out]
  <2>1. PICK m \in BOOLEAN, n \in 1..Len(mask) : m = mask[k + 1] /\ n = k + 1
    BY <1>1, <1>3
  <2>2. /\ m /\ c = 0 =>
             scanned([cur |-> c, out |-> out], n, m) = [cur |-> n, out |-> out]
        /\ ~m /\ c # 0 =>
             scanned([cur |-> c, out |-> out], n, m) =
               [cur |-> 0, out |-> out \cup {<<(c - 1) * BLK, (n - 1) * BLK>>}]
        /\ (m <=> c # 0) =>
             scanned([cur |-> c, out |-> out], n, m) = [cur |-> c, out |-> out]
    BY ScannedCases
  <2> QED
    BY <2>1, <2>2
<1> SUFFICES Scanned(mask, last, next, k + 1)
  OBVIOUS
<1> HIDE DEF next
<1>7. CASE mask[k + 1] /\ c = 0
  <2>1. next = [cur |-> k + 1, out |-> out]
    BY <1>7, <1>6
  <2>2. \A i \in (k + 1)..(k + 1) : mask[i]
    BY <1>7
  <2>3. ASSUME k + 1 > 1
        PROVE  ~mask[(k + 1) - 1]
    <3>1. k \in 1..k /\ (k + 1) - 1 = k
      BY <2>3
    <3>2. ASSUME mask[k]
          PROVE  FALSE
      <4>1. PICK q \in out, s \in 1..k, e \in 1..k :
              IsRegion(mask, last, q, s, e) /\ k \in s..(e - 1)
        BY <1>2, <1>7, <3>1, <3>2
      <4> QED
        BY <4>1
    <3> QED
      BY <3>1, <3>2
  <2>4. ASSUME NEW i \in 1..(k + 1), mask[i]
        PROVE  \/ k + 1 # 0 /\ k + 1 <= i
               \/ \E q \in out : \E s, e \in 1..(k + 1) :
                    IsRegion(mask, last, q, s, e) /\ i \in s..(e - 1)
    BY <1>5, <1>7, <2>4
  <2> QED
    BY <1>3, <1>4, <2>1, <2>2, <2>3, <2>4 DEF Scanned
<1>8. CASE ~mask[k + 1] /\ c # 0
  <2> DEFINE q == <<(c - 1) * BLK, (k + 1 - 1) * BLK>>
  <2>1. next = [cur |-> 0, out |-> out \cup {q}]
    BY <1>8, <1>6
  <2>2. c \in 1..k /\ \A i \in c..k : mask[i]
    BY <1>2, <1>8
  <2>3. IsRegion(mask, last, q, c, k + 1)
    <3>1. q[1] = (c - 1) * BLK /\ q[2] = (k + 1 - 1) * BLK
      OBVIOUS
    <3> HIDE DEF q
    <3>2. c \in 1..Len(mask) /\ k + 1 \in (c + 1)..(Len(mask) + 1) /\ (k + 1) - 1 = k
      BY <1>1, <2>2
    <3>3. k + 1 # Len(mask) + 1
      BY <1>1
    <3>4. \A i \in c..((k + 1) - 1) : mask[i]
      BY <2>2, <3>2
    <3> QED
      BY <1>2, <1>8, <3>1, <3>2, <3>3, <3>4 DEF IsRegion
  <2> HIDE DEF q
  <2>4. ASSUME NEW i \in 1..(k + 1), mask[i]
        PROVE  \E r \in out \cup {q} : \E s, e \in 1..(k + 1) :
                 IsRegion(mask, last, r, s, e) /\ i \in s..(e - 1)
    <3>1. i \in 1..k
      BY <1>8, <2>4
    <3>2. CASE c <= i
      <4>1. i \in c..(k + 1 - 1) /\ c \in 1..(k + 1)
        BY <2>2, <3>1, <3>2
      <4> QED
        BY <1>3, <2>3, <4>1
    <3>3. CASE ~(c <= i)
      BY <1>5, <2>4, <3>1, <3>3
    <3> QED
      BY <3>2, <3>3
  <2>5. ASSUME NEW r \in out \cup {q}
        PROVE  \E s, e \in 1..(k + 1) : IsRegion(mask, last, r, s, e)
    BY <1>3, <1>4, <2>2, <2>3, <2>5
  <2> DEFINE r == [cur |-> 0, out |-> out \cup {q}]
  <2>6. r.cur = 0 /\ r.out = out \cup {q}
    OBVIOUS
  <2> HIDE DEF r
  <2>7. \A x \in r.out : \E s, e \in 1..(k + 1) : IsRegion(mask, last, x, s, e)
    BY <2>5, <2>6
  <2>8. ASSUME NEW i \in 1..(k + 1), mask[i]
        PROVE  \E x \in r.out : \E s, e \in 1..(k + 1) :
                 IsRegion(mask, last, x, s, e) /\ i \in s..(e - 1)
    <3>1. PICK x \in out \cup {q} : \E s, e \in 1..(k + 1) :
            IsRegion(mask, last, x, s, e) /\ i \in s..(e - 1)
      BY <2>4, <2>8
    <3>2. x \in r.out
      BY <2>6
    <3> QED
      BY <3>1, <3>2
  <2>9. Scanned(mask, last, r, k + 1)
    <3>1. ~(r.cur # 0)
      BY <2>6
    <3> QED
      BY <2>7, <2>8, <3>1, Zenon DEF Scanned
  <2> QED
    BY <2>1, <2>9 DEF r
<1>9. CASE mask[k + 1] <=> c # 0
  <2>1. next = [cur |-> c, out |-> out]
    BY <1>9, <1>6
  <2>2. ASSUME c # 0
        PROVE  c \in 1..(k + 1) /\ (\A i \in c..(k + 1) : mask[i]) /\ (c > 1 => ~mask[c - 1])
    BY <1>2, <1>9, <2>2
  <2>3. ASSUME NEW i \in 1..(k + 1), mask[i]
        PROVE  \/ c # 0 /\ c <= i
               \/ \E q \in out : \E s, e \in 1..(k + 1) :
                    IsRegion(mask, last, q, s, e) /\ i \in s..(e - 1)
    <3>1. CASE i \in 1..k
      BY <1>5, <2>3, <3>1
    <3>2. CASE i = k + 1
      BY <1>2, <1>9, <2>3, <3>2
    <3> QED
      BY <3>1, <3>2
  <2> QED
    BY <1>4, <2>1, <2>2, <2>3 DEF Scanned
<1> QED
  BY <1>1, <1>3, <1>7, <1>8, <1>9

\* The scan comes to an end, and has found the regions.
LEMMA ScanEnds ==
  ASSUME NEW mask \in Seq(BOOLEAN), NEW last
  PROVE  \E c \in 0..Len(mask) : \E out :
           /\ scan(mask) = [cur |-> c, out |-> out]
           /\ Scanned(mask, last, scan(mask), Len(mask))
<1> DEFINE n == Len(mask)
           a == [cur |-> 0, out |-> {}]
           S == [cur : 0..n, out : SUBSET (Int \X Int)]
           step == [x \in S \X (1..n) |-> scanned(x[1], x[2], mask[x[2]])]
           Scans(f) == f = [k \in 0..n |->
              IF k = 0 THEN a ELSE scanned(f[k - 1], k, mask[k])]
<1>1. n \in Nat /\ BLK \in Nat /\ \A i \in 1..n : mask[i] \in BOOLEAN
  BY LenProperties, ElementOfSeq, ConfigAssumption
<1>2. a \in S
  BY <1>1
<1>3. ASSUME NEW k \in 1..n, NEW r \in S
      PROVE  scanned(r, k, mask[k]) \in S
  <2>1. PICK c \in 0..n, out \in SUBSET (Int \X Int) : r = [cur |-> c, out |-> out]
    <3>1. r = [cur |-> r.cur, out |-> r.out] /\ r.cur \in 0..n /\ r.out \in SUBSET (Int \X Int)
      OBVIOUS
    <3> QED
      BY <3>1
  <2>2. PICK m \in BOOLEAN : m = mask[k]
    BY <1>1
  <2>3. /\ m /\ c = 0 => scanned(r, k, m) = [cur |-> k, out |-> out]
        /\ ~m /\ c # 0 =>
             scanned(r, k, m) =
               [cur |-> 0, out |-> out \cup {<<(c - 1) * BLK, (k - 1) * BLK>>}]
        /\ (m <=> c # 0) => scanned(r, k, m) = [cur |-> c, out |-> out]
    BY <2>1, ScannedCases
  <2>4. (c - 1) * BLK \in Int /\ (k - 1) * BLK \in Int
    BY <1>1
  <2>5. out \cup {<<(c - 1) * BLK, (k - 1) * BLK>>} \in SUBSET (Int \X Int)
    BY <2>4
  <2>6. k \in 0..n /\ 0 \in 0..n
    BY <1>1
  <2> QED
    BY <2>2, <2>3, <2>5, <2>6
<1>4. \E f : Scans(f)
  <2>1. step \in [S \X (1..n) -> S]
    BY <1>3
  <2> HIDE DEF n, S, step, Scans, a
  <2>2. PICK f \in [0..n -> S] : IsRun(f, a, n, step)
    BY <1>1, <1>2, <2>1, Iteration
  <2>3. ASSUME NEW k \in 1..n
        PROVE  f[k] = scanned(f[k - 1], k, mask[k])
    <3>1. k - 1 \in 0..n
      BY <1>1
    <3>2. f[k - 1] \in S
      BY <3>1
    <3> QED
      BY <2>2, <3>2 DEF IsRun, step
  <2>4. \A k \in 0..n : f[k] = IF k = 0 THEN a ELSE scanned(f[k - 1], k, mask[k])
    BY <1>1, <2>2, <2>3 DEF IsRun
  <2> QED
    BY <2>4 DEF Scans
<1> DEFINE f == CHOOSE g : Scans(g)
<1>5. Scans(f)
  BY <1>4, Zenon
<1>6. scan(mask) = f[n]
  BY DEF scan
<1> HIDE DEF f
<1>7. f[0] = a /\ \A k \in 1..n : f[k] = scanned(f[k - 1], k, mask[k])
  <2> HIDE DEF a, n
  <2>1. 0 \in 0..n /\ \A k \in 1..n : k \in 0..n /\ k # 0
    BY <1>1
  <2>2. \A k \in 0..n : f[k] = IF k = 0 THEN a ELSE scanned(f[k - 1], k, mask[k])
    BY <1>5, Zenon
  <2> QED
    BY <2>1, <2>2
<1> DEFINE T == {k \in Nat : k <= n => f[k] \in S /\ Scanned(mask, last, f[k], k)}
<1>8. 0 \in T
  <2>1. a.cur = 0 /\ a.out = {}
    OBVIOUS
  <2> HIDE DEF a
  <2>2. Scanned(mask, last, a, 0)
    BY <2>1 DEF Scanned
  <2> QED
    BY <1>2, <1>7, <2>2
<1>9. ASSUME NEW k \in Nat, k \in T
      PROVE  k + 1 \in T
  <2> SUFFICES ASSUME k + 1 <= n PROVE f[k + 1] \in S /\ Scanned(mask, last, f[k + 1], k + 1)
    OBVIOUS
  <2>1. f[k] \in S /\ Scanned(mask, last, f[k], k)
    BY <1>1, <1>9
  <2>2. f[k + 1] = scanned(f[k], k + 1, mask[k + 1])
    <3>1. k + 1 \in 1..n /\ (k + 1) - 1 = k
      BY <1>1
    <3> QED
      BY <1>7, <3>1
  <2>3. f[k + 1] \in S
    <3>1. k + 1 \in 1..n
      BY <1>1
    <3> HIDE DEF S, n
    <3> QED
      BY <1>3, <2>1, <2>2, <3>1
  <2>4. PICK c, out : c \in 0..n /\ f[k] = [cur |-> c, out |-> out]
    <3>1. f[k] = [cur |-> f[k].cur, out |-> f[k].out] /\ f[k].cur \in 0..n
      BY <2>1
    <3> QED
      BY <3>1
  <2>5. Scanned(mask, last, scanned([cur |-> c, out |-> out], k + 1, mask[k + 1]), k + 1)
    BY <2>1, <2>4, ScanStep
  <2> QED
    BY <2>2, <2>3, <2>4, <2>5
<1>10. n \in T
  <2> HIDE DEF T
  <2>1. Nat \subseteq T
    BY <1>8, <1>9, NatSetInduction
  <2> QED
    BY <1>1, <2>1
<1>11. f[n] \in S /\ Scanned(mask, last, f[n], n)
  BY <1>1, <1>10
<1>12. PICK c, out : c \in 0..n /\ f[n] = [cur |-> c, out |-> out]
  <2>1. f[n] = [cur |-> f[n].cur, out |-> f[n].out] /\ f[n].cur \in 0..n
    BY <1>11
  <2> QED
    BY <2>1
<1> QED
  BY <1>6, <1>11, <1>12

\* The regions are those of the blocks that differ, each as long as it can be.
LEMMA RegionsFound ==
  ASSUME NEW mask \in Seq(BOOLEAN), NEW last
  PROVE  LET N == Len(mask)
         IN  /\ \A q \in regions(mask, last) :
                  \E s \in 1..N, e \in 1..(N + 1) : IsRegion(mask, last, q, s, e)
             /\ \A i \in 1..N :
                  mask[i] => \E q \in regions(mask, last), s \in 1..N, e \in 1..(N + 1) :
                               IsRegion(mask, last, q, s, e) /\ i \in s..(e - 1)
<1> DEFINE N == Len(mask)
           r == scan(mask)
<1>1. N \in Nat
  BY LenProperties
<1>2. PICK c, out :
        c \in 0..N /\ r = [cur |-> c, out |-> out] /\ Scanned(mask, last, r, N)
  BY ScanEnds
<1>3. r.cur = c /\ r.out = out
  BY <1>2
<1> HIDE DEF r
<1>4. /\ c # 0 => c \in 1..N /\ (\A i \in c..N : mask[i]) /\ (c > 1 => ~mask[c - 1])
      /\ \A q \in out : \E s, e \in 1..N : IsRegion(mask, last, q, s, e)
      /\ \A i \in 1..N :
           mask[i] => \/ c # 0 /\ c <= i
                      \/ \E q \in out : \E s, e \in 1..N :
                           IsRegion(mask, last, q, s, e) /\ i \in s..(e - 1)
  BY <1>2, <1>3 DEF Scanned
<1>5. 1..N \subseteq 1..(N + 1) /\ N + 1 \in 1..(N + 1)
  BY <1>1
<1>6. CASE c = 0
  <2>1. regions(mask, last) = out
    BY <1>3, <1>6 DEF regions, r
  <2> QED
    BY <1>4, <1>5, <1>6, <2>1
<1>7. CASE c # 0
  <2> DEFINE q == <<(c - 1) * BLK, last>>
  <2>1. regions(mask, last) = out \cup {q}
    BY <1>3, <1>7 DEF regions, r
  <2>2. IsRegion(mask, last, q, c, N + 1)
    <3>1. q[1] = (c - 1) * BLK /\ q[2] = last
      OBVIOUS
    <3> HIDE DEF q
    <3>2. c \in 1..N /\ N + 1 \in (c + 1)..(N + 1) /\ (N + 1) - 1 = N
      BY <1>1, <1>4, <1>7
    <3> QED
      BY <1>1, <1>4, <1>7, <3>1, <3>2 DEF IsRegion
  <2> HIDE DEF q
  <2>3. ASSUME NEW x \in out \cup {q}
        PROVE  \E s \in 1..N, e \in 1..(N + 1) : IsRegion(mask, last, x, s, e)
    BY <1>4, <1>5, <1>7, <2>2, <2>3
  <2>4. ASSUME NEW i \in 1..N, mask[i]
        PROVE  \E x \in out \cup {q}, s \in 1..N, e \in 1..(N + 1) :
                 IsRegion(mask, last, x, s, e) /\ i \in s..(e - 1)
    <3>1. CASE c <= i
      <4>1. i \in c..((N + 1) - 1)
        BY <1>1, <3>1
      <4> QED
        BY <1>4, <1>5, <1>7, <2>2, <4>1
    <3>2. CASE ~(c <= i)
      BY <1>4, <1>5, <2>4, <3>2
    <3> QED
      BY <3>1, <3>2
  <2> QED
    BY <2>1, <2>3, <2>4
<1> QED
  BY <1>6, <1>7

\* What is compared by blocks: two dumps of the same length, up to last, which
\* is where the blocks end or where the dumps do.
Compared(a, b, n, last) ==
  /\ a \in Seq(Bytes) /\ b \in Seq(Bytes) /\ Len(a) = Len(b) /\ n \in Nat
  /\ last \in Nat /\ last <= Len(a) /\ last <= BLK * n
  /\ last = Len(a) \/ last = BLK * n
  /\ \A m \in Nat : m < n => BLK * m < last

Mask(a, b, n) == [i \in 1..n |-> differs(a, b, i)]

\* Slices of two such dumps differ where the dumps do.
LEMMA SlicesDiffer ==
  ASSUME NEW a \in Seq(Bytes), NEW b \in Seq(Bytes), Len(a) = Len(b),
         NEW at \in 1..(Len(a) + 1), NEW m \in Nat
  PROVE  slice(a, at, m) # slice(b, at, m) <=>
           \E p \in at..(at + m - 1) : p <= Len(a) /\ a[p] # b[p]
<1> DEFINE s == slice(a, at, m)
           t == slice(b, at, m)
<1>1. Len(a) \in Nat /\ at \in 1..(Len(b) + 1)
  BY LenProperties
<1>2. /\ s \in Seq(Bytes) /\ Len(s) \in Nat
      /\ at + m - 1 <= Len(a) => Len(s) = m
      /\ at + m - 1 > Len(a) => Len(s) = Len(a) - at + 1
      /\ \A j \in 1..Len(s) : s[j] = a[at + j - 1]
  BY SliceFacts
<1>3. /\ t \in Seq(Bytes) /\ Len(t) \in Nat
      /\ at + m - 1 <= Len(b) => Len(t) = m
      /\ at + m - 1 > Len(b) => Len(t) = Len(b) - at + 1
      /\ \A j \in 1..Len(t) : t[j] = b[at + j - 1]
  BY <1>1, SliceFacts
<1> HIDE DEF s, t
<1>4. Len(s) = Len(t)
  BY <1>1, <1>2, <1>3
<1>5. ASSUME s # t
      PROVE  \E p \in at..(at + m - 1) : p <= Len(a) /\ a[p] # b[p]
  <2>1. PICK j \in 1..Len(s) : s[j] # t[j]
    BY <1>2, <1>3, <1>4, <1>5, SeqEqual
  <2>2. a[at + j - 1] # b[at + j - 1]
    BY <1>2, <1>3, <1>4, <2>1
  <2>3. at + j - 1 \in at..(at + m - 1) /\ at + j - 1 <= Len(a)
    BY <1>1, <1>2, <2>1
  <2> QED
    BY <2>2, <2>3
<1>6. ASSUME NEW p \in at..(at + m - 1), p <= Len(a), a[p] # b[p]
      PROVE  s # t
  <2>1. p - at + 1 \in 1..Len(s) /\ at + (p - at + 1) - 1 = p
    BY <1>1, <1>2, <1>6
  <2>2. s[p - at + 1] = a[p] /\ t[p - at + 1] = b[p]
    BY <1>2, <1>3, <1>4, <2>1
  <2> QED
    BY <1>6, <2>2
<1> QED
  BY <1>5, <1>6 DEF s, t

\* A block that is compared differs where the dumps do.
LEMMA BlockDiffers ==
  ASSUME NEW a, NEW b, NEW n, NEW last, Compared(a, b, n, last), NEW k \in Nat, k < n
  PROVE  differs(a, b, k + 1) <=>
           \E p \in (BLK * k + 1)..(BLK * k + BLK) : p <= Len(a) /\ a[p] # b[p]
<1>1. /\ a \in Seq(Bytes) /\ b \in Seq(Bytes) /\ Len(a) = Len(b) /\ Len(a) \in Nat
      /\ last \in Nat /\ last <= Len(a) /\ BLK * k < last
  BY LenProperties DEF Compared
<1>2. PICK m \in Nat : m = BLK
  BY ConfigAssumption
<1>3. PICK at \in 1..(Len(a) + 1) : at = BLK * k + 1
  <2>1. BLK * k \in Nat
    BY <1>2
  <2> QED
    BY <1>1, <2>1
<1>4. slice(a, at, m) # slice(b, at, m) <=>
        \E p \in at..(at + m - 1) : p <= Len(a) /\ a[p] # b[p]
  BY <1>1, SlicesDiffer
<1>5. differs(a, b, k + 1) <=> slice(a, at, m) # slice(b, at, m)
  <2>1. (k + 1 - 1) * BLK + 1 = at
    BY <1>2, <1>3
  <2> QED
    BY <1>2, <2>1 DEF differs
<1>6. at..(at + m - 1) = (BLK * k + 1)..(BLK * k + BLK)
  BY <1>2, <1>3
<1> QED
  BY <1>4, <1>5, <1>6

\* A byte that differs is in a block that differs.
LEMMA ByteInBlock ==
  ASSUME NEW a, NEW b, NEW n, NEW last, Compared(a, b, n, last),
         NEW p \in 1..last, a[p] # b[p]
  PROVE  \E k \in Nat : k < n /\ differs(a, b, k + 1) /\ BLK * k < p /\ p <= BLK * k + BLK
<1>1. /\ BLK \in Nat \ {0} /\ p \in Nat /\ p - 1 \in Nat /\ n \in Nat
      /\ p <= Len(a) /\ p <= BLK * n /\ Len(a) \in Nat /\ BLK * n \in Nat
  BY ConfigAssumption, LenProperties DEF Compared
<1>2. PICK y \in Nat : p - 1 = y
  BY <1>1
<1>3. PICK k \in Nat : y \div BLK = k
  BY <1>1, Quotient
<1>4. PICK c \in 0..(BLK - 1) : y % BLK = c
  BY <1>1, Quotient
<1>5. y = BLK * k + c
  BY <1>1, <1>3, <1>4, Quotient
<1>6. p - 1 = BLK * k + c /\ BLK * k \in Nat
  BY <1>1, <1>2, <1>5
<1>7. k < n
  <2>1. BLK * k + c < BLK * n
    BY <1>1, <1>6
  <2> QED
    BY <1>1, <2>1, BelowMultiple
<1>8. BLK * k < p /\ p <= BLK * k + BLK /\ p \in (BLK * k + 1)..(BLK * k + BLK)
  BY <1>1, <1>6
<1>9. differs(a, b, k + 1)
  BY <1>1, <1>7, <1>8, BlockDiffers
<1> QED
  BY <1>7, <1>8, <1>9

\* A block that differs has a byte that does.
LEMMA BlockHasByte ==
  ASSUME NEW a, NEW b, NEW n, NEW last, Compared(a, b, n, last),
         NEW k \in Nat, k < n, differs(a, b, k + 1)
  PROVE  \E p \in 1..last : a[p] # b[p] /\ BLK * k < p /\ p <= BLK * k + BLK
<1>1. /\ BLK \in Nat \ {0} /\ n \in Nat /\ last \in Nat
      /\ last = Len(a) \/ last = BLK * n
  BY ConfigAssumption DEF Compared
<1>2. PICK p \in (BLK * k + 1)..(BLK * k + BLK) : p <= Len(a) /\ a[p] # b[p]
  BY BlockDiffers
<1>3. BLK * k + BLK <= BLK * n /\ BLK * k \in Nat /\ BLK * n \in Nat
  BY <1>1, MultiplesApart
<1>4. p \in 1..last /\ BLK * k < p /\ p <= BLK * k + BLK
  BY <1>1, <1>2, <1>3
<1> QED
  BY <1>2, <1>4

\* The mask has one entry for each block.
LEMMA MaskFacts ==
  ASSUME NEW a, NEW b, NEW n \in Nat
  PROVE  /\ Mask(a, b, n) \in Seq(BOOLEAN) /\ Len(Mask(a, b, n)) = n
         /\ \A i \in 1..n : Mask(a, b, n)[i] = differs(a, b, i)
<1>1. \A i \in 1..n : differs(a, b, i) \in BOOLEAN
  BY DEF differs
<1>2. Mask(a, b, n) \in [1..n -> BOOLEAN]
  BY <1>1 DEF Mask
<1> QED
  BY <1>2 DEF Mask

\* What a mask of n blocks that end at last is to show: the bytes C, some in
\* each block that it marks and none in the others.
Shows(mask, C, n, last) ==
  /\ mask \in Seq(BOOLEAN) /\ n \in Nat /\ Len(mask) = n
  /\ last \in Nat /\ last <= BLK * n /\ \A m \in Nat : m < n => BLK * m < last
  /\ C \subseteq 1..last
  /\ \A p \in C : \E k \in Nat : /\ k < n /\ mask[k + 1]
                                  /\ BLK * k < p /\ p <= BLK * k + BLK
  /\ \A k \in Nat : k < n /\ mask[k + 1] =>
       \E p \in C : BLK * k < p /\ p <= BLK * k + BLK

Inside(C, r) == {p \in C : r[1] < p /\ p <= r[2]}

\* Where a region begins and ends, in blocks counted from 0: j is its first
\* and l its last.
LEMMA RegionBounds ==
  ASSUME NEW mask, NEW C, NEW n, NEW last, Shows(mask, C, n, last),
         NEW r, NEW s \in 1..n, NEW e \in 1..(n + 1),
         IsRegion(mask, last, r, s, e)
  PROVE  \E j \in Nat, l \in Nat :
           /\ s = j + 1 /\ e = l + 2 /\ j <= l /\ l < n
           /\ mask[j + 1] /\ mask[l + 1]
           /\ r[1] = BLK * j
           /\ l + 1 < n => r[2] = BLK * (l + 1) /\ ~mask[l + 2]
           /\ l + 1 = n => r[2] = last
<1>1. n \in Nat /\ BLK \in Nat
  BY ConfigAssumption DEF Shows
<1>2. Len(mask) = n
  BY DEF Shows
<1>3. /\ e \in (s + 1)..(n + 1)
      /\ \A i \in s..(e - 1) : mask[i]
      /\ r[1] = (s - 1) * BLK
      /\ e <= n => ~mask[e] /\ r[2] = (e - 1) * BLK
      /\ e = n + 1 => r[2] = last
  BY <1>2 DEF IsRegion
<1>4. PICK j \in Nat, l \in Nat : s = j + 1 /\ e = l + 2
  <2>1. s - 1 \in Nat /\ e - 2 \in Nat /\ s = (s - 1) + 1 /\ e = (e - 2) + 2
    BY <1>1, <1>3
  <2> QED
    BY <2>1
<1>5. j <= l /\ l < n /\ (l + 1 < n <=> e <= n) /\ (l + 1 = n <=> e = n + 1)
  BY <1>1, <1>3, <1>4
<1>6. j + 1 \in s..(e - 1) /\ l + 1 \in s..(e - 1) /\ j + 1 \in 1..n /\ l + 1 \in 1..n
  BY <1>1, <1>4, <1>5
<1>7. mask[j + 1] /\ mask[l + 1]
  BY <1>2, <1>3, <1>6
<1>8. r[1] = BLK * j
  BY <1>1, <1>3, <1>4
<1>9. ASSUME l + 1 < n
      PROVE  r[2] = BLK * (l + 1) /\ ~mask[l + 2]
  <2>1. e \in 1..n /\ e <= n /\ (e - 1) * BLK = BLK * (l + 1)
    BY <1>1, <1>4, <1>5, <1>9
  <2> QED
    BY <1>2, <1>3, <1>4, <2>1
<1> QED
  BY <1>3, <1>4, <1>5, <1>7, <1>8, <1>9

\* The regions show what differs.
LEMMA RegionsFit ==
  ASSUME NEW mask, NEW C, NEW n, NEW last, Shows(mask, C, n, last)
  PROVE  Shown(regions(mask, last), C)
<1> DEFINE R == regions(mask, last)
<1>1. /\ BLK \in Nat \ {0} /\ n \in Nat /\ last \in Nat /\ last <= BLK * n
      /\ BLK * n \in Nat
  BY ConfigAssumption DEF Shows
<1>2. mask \in Seq(BOOLEAN) /\ Len(mask) = n
  BY DEF Shows
<1>3. /\ \A r \in R : \E s \in 1..n, e \in 1..(n + 1) : IsRegion(mask, last, r, s, e)
      /\ \A i \in 1..n :
           mask[i] => \E r \in R, s \in 1..n, e \in 1..(n + 1) :
                        IsRegion(mask, last, r, s, e) /\ i \in s..(e - 1)
  BY <1>2, RegionsFound
<1> HIDE DEF R
<1>4. ASSUME NEW p \in C
      PROVE  \E r \in R : p \in Inside(C, r)
  <2>1. p \in 1..last
    BY DEF Shows
  <2>2. PICK k \in Nat : /\ k < n /\ mask[k + 1]
                         /\ BLK * k < p /\ p <= BLK * k + BLK
    BY DEF Shows
  <2>3. k + 1 \in 1..n
    BY <1>1, <2>2
  <2>4. PICK r \in R, s \in 1..n, e \in 1..(n + 1) :
          IsRegion(mask, last, r, s, e) /\ k + 1 \in s..(e - 1)
    BY <1>3, <2>2, <2>3
  <2>5. PICK j \in Nat, l \in Nat :
           /\ s = j + 1 /\ e = l + 2 /\ j <= l /\ l < n
           /\ r[1] = BLK * j
           /\ l + 1 < n => r[2] = BLK * (l + 1)
           /\ l + 1 = n => r[2] = last
    BY <2>4, RegionBounds
  <2>6. j <= k /\ k <= l
    BY <2>4, <2>5
  <2>7. r[1] < p
    <3>1. BLK * j <= BLK * k /\ BLK * j \in Nat /\ BLK * k \in Nat
      BY <1>1, <2>6, MultiplesOrdered
    <3> QED
      BY <2>1, <2>2, <2>5, <3>1
  <2>8. p <= r[2]
    <3>1. CASE l + 1 < n
      <4>1. BLK * k + BLK <= BLK * (l + 1) /\ BLK * k \in Nat /\ BLK * (l + 1) \in Nat
        <5>1. PICK m \in Nat : m = l + 1
          OBVIOUS
        <5>2. k < m
          BY <2>6, <5>1
        <5>3. BLK * k + BLK <= BLK * m
          BY <1>1, <5>2, MultiplesApart
        <5> QED
          BY <1>1, <5>1, <5>3
      <4> QED
        BY <1>1, <2>1, <2>2, <2>5, <3>1, <4>1
    <3>2. CASE l + 1 = n
      BY <2>1, <2>5, <3>2
    <3> QED
      BY <1>1, <2>5, <3>1, <3>2
  <2> QED
    BY <2>4, <2>7, <2>8 DEF Inside
<1>5. ASSUME NEW r \in R
      PROVE  /\ \E p \in Inside(C, r) : p <= r[1] + BLK
             /\ \E p \in Inside(C, r) : p > r[2] - BLK
  <2>1. PICK s \in 1..n, e \in 1..(n + 1) : IsRegion(mask, last, r, s, e)
    BY <1>3
  <2>2. PICK j \in Nat, l \in Nat :
           /\ s = j + 1 /\ e = l + 2 /\ j <= l /\ l < n
           /\ mask[j + 1] /\ mask[l + 1]
           /\ r[1] = BLK * j
           /\ l + 1 < n => r[2] = BLK * (l + 1)
           /\ l + 1 = n => r[2] = last
    BY <2>1, RegionBounds
  <2>3. BLK * j <= BLK * l /\ BLK * j \in Nat /\ BLK * l \in Nat
    BY <1>1, <2>2, MultiplesOrdered
  <2>4. BLK * (l + 1) = BLK * l + BLK
    BY <1>1
  <2>5. /\ r[2] \in Nat /\ r[2] <= BLK * l + BLK
        /\ \A p \in 1..last : p <= BLK * l + BLK => p <= r[2]
    <3>1. CASE l + 1 < n
      BY <1>1, <2>2, <2>3, <2>4, <3>1
    <3>2. CASE l + 1 = n
      <4>1. BLK * n = BLK * l + BLK
        BY <2>4, <3>2
      <4> QED
        BY <1>1, <2>2, <3>2, <4>1
    <3> QED
      BY <1>1, <2>2, <3>1, <3>2
  <2>6. PICK p \in C : p \in 1..last /\ BLK * j < p /\ p <= BLK * j + BLK
    <3>1. j < n /\ mask[j + 1]
      BY <1>1, <2>2
    <3> QED
      BY <3>1 DEF Shows
  <2>7. p \in Inside(C, r) /\ p <= r[1] + BLK
    <3>1. p <= BLK * l + BLK
      BY <1>1, <2>3, <2>6
    <3> QED
      BY <2>2, <2>5, <2>6, <3>1 DEF Inside
  <2>8. PICK q \in C : q \in 1..last /\ BLK * l < q /\ q <= BLK * l + BLK
    BY <2>2 DEF Shows
  <2>9. q \in Inside(C, r) /\ q > r[2] - BLK
    <3>1. BLK * j < q /\ q > r[2] - BLK
      BY <1>1, <2>3, <2>5, <2>8
    <3> QED
      BY <2>2, <2>5, <2>8, <3>1 DEF Inside
  <2> QED
    BY <2>7, <2>9
<1>6. ASSUME NEW r \in R, NEW q \in R, r[1] = q[2]
      PROVE  FALSE
  <2>1. PICK s \in 1..n, e \in 1..(n + 1) : IsRegion(mask, last, r, s, e)
    BY <1>3
  <2>2. PICK x \in 1..n, y \in 1..(n + 1) : IsRegion(mask, last, q, x, y)
    BY <1>3
  <2>3. PICK j \in Nat : j < n /\ mask[j + 1] /\ r[1] = BLK * j
    <3>1. PICK j \in Nat, l \in Nat :
            /\ s = j + 1 /\ e = l + 2 /\ j <= l /\ l < n
            /\ mask[j + 1] /\ mask[l + 1]
            /\ r[1] = BLK * j
            /\ l + 1 < n => r[2] = BLK * (l + 1) /\ ~mask[l + 2]
            /\ l + 1 = n => r[2] = last
      BY <2>1, RegionBounds
    <3>2. j < n
      BY <1>1, <3>1
    <3> QED
      BY <3>1, <3>2
  <2>4. PICK k \in Nat, m \in Nat :
          /\ x = k + 1 /\ y = m + 2 /\ k <= m /\ m < n
          /\ m + 1 < n => q[2] = BLK * (m + 1) /\ ~mask[m + 2]
          /\ m + 1 = n => q[2] = last
    BY <2>2, RegionBounds
  <2>5. PICK u \in Nat : u = m + 1
    OBVIOUS
  <2>6. CASE u < n
    <3>1. BLK * j = BLK * u
      BY <1>6, <2>3, <2>4, <2>5, <2>6
    <3>2. j = u
      BY <1>1, <3>1, MultiplesApart
    <3>3. j + 1 = m + 2
      BY <2>5, <3>2
    <3> QED
      BY <2>3, <2>4, <2>5, <2>6, <3>3
  <2>7. CASE u = n
    <3>1. BLK * j < last
      BY <2>3 DEF Shows
    <3> QED
      BY <1>1, <1>6, <2>3, <2>4, <2>5, <2>7, <3>1
  <2> QED
    BY <1>1, <2>4, <2>5, <2>6, <2>7
<1> QED
  BY <1>4, <1>5, <1>6 DEF Shown, Inside, R

\* map_lod_to_flash.py compares every byte.
LEMMA ComparedInFull ==
  ASSUME NEW a \in Seq(Bytes), NEW b \in Seq(Bytes), Len(a) = Len(b)
  PROVE  Compared(a, b, (Len(a) + BLK - 1) \div BLK, Len(a))
<1>1. BLK \in Nat \ {0} /\ Len(a) \in Nat
  BY ConfigAssumption, LenProperties
<1>2. PICK x \in Nat : x = Len(a) + BLK - 1
  <2>1. Len(a) + BLK - 1 \in Nat
    BY <1>1
  <2> QED
    BY <2>1
<1>3. PICK n \in Nat : x \div BLK = n
  BY <1>1, Quotient
<1>4. PICK c \in 0..(BLK - 1) : x % BLK = c
  BY <1>1, Quotient
<1>5. x = BLK * n + c /\ BLK * n \in Nat
  BY <1>1, <1>3, <1>4, Quotient
<1>6. Len(a) <= BLK * n
  BY <1>1, <1>2, <1>5
<1>7. ASSUME NEW m \in Nat, m < n
      PROVE  BLK * m < Len(a)
  <2>1. BLK * m + BLK <= BLK * n /\ BLK * m \in Nat
    BY <1>1, <1>7, MultiplesApart
  <2> QED
    BY <1>1, <1>2, <1>5, <2>1
<1>8. Compared(a, b, n, Len(a))
  BY <1>1, <1>6, <1>7 DEF Compared
<1> QED
  BY <1>2, <1>3, <1>8

\* classify_regions.py compares the blocks that are whole.
LEMMA ComparedInBlocks ==
  ASSUME NEW a \in Seq(Bytes), NEW b \in Seq(Bytes), Len(a) = Len(b)
  PROVE  Compared(a, b, Len(a) \div BLK, (Len(a) \div BLK) * BLK)
<1>1. BLK \in Nat \ {0} /\ Len(a) \in Nat
  BY ConfigAssumption, LenProperties
<1>2. PICK x \in Nat : x = Len(a)
  BY <1>1
<1>3. PICK n \in Nat : x \div BLK = n
  BY <1>1, Quotient
<1>4. PICK c \in 0..(BLK - 1) : x % BLK = c
  BY <1>1, Quotient
<1>5. x = BLK * n + c /\ BLK * n \in Nat /\ n * BLK = BLK * n
  BY <1>1, <1>3, <1>4, Quotient
<1>6. ASSUME NEW m \in Nat, m < n
      PROVE  BLK * m < BLK * n
  <2>1. BLK * m + BLK <= BLK * n /\ BLK * m \in Nat
    BY <1>1, <1>6, MultiplesApart
  <2> QED
    BY <1>1, <1>5, <2>1
<1>7. n * BLK \in Nat /\ n * BLK <= Len(a) /\ n * BLK = BLK * n
  BY <1>1, <1>2, <1>5
<1>8. Compared(a, b, n, n * BLK)
  BY <1>1, <1>6, <1>7 DEF Compared
<1> QED
  BY <1>2, <1>3, <1>8

\* The mask of a comparison shows what differs.
LEMMA ComparedShows ==
  ASSUME NEW a, NEW b, NEW n, NEW last, Compared(a, b, n, last)
  PROVE  Shows(Mask(a, b, n), {p \in Differ(a, b) : p <= last}, n, last)
<1> DEFINE C == {p \in Differ(a, b) : p <= last}
<1>1. /\ n \in Nat /\ last \in Nat /\ last <= BLK * n
      /\ DOMAIN a = 1..Len(a) /\ Len(a) \in Nat /\ last <= Len(a)
      /\ \A m \in Nat : m < n => BLK * m < last
  BY LenProperties DEF Compared
<1>2. C \subseteq 1..last /\ \A p \in 1..last : p \in C <=> a[p] # b[p]
  BY <1>1 DEF Differ
<1>3. /\ Mask(a, b, n) \in Seq(BOOLEAN) /\ Len(Mask(a, b, n)) = n
      /\ \A k \in Nat : k < n => Mask(a, b, n)[k + 1] = differs(a, b, k + 1)
  <2>1. \A k \in Nat : k < n => k + 1 \in 1..n
    BY <1>1
  <2> QED
    BY <1>1, <2>1, MaskFacts
<1> HIDE DEF C
<1>4. ASSUME NEW p \in C
      PROVE  \E k \in Nat : /\ k < n /\ Mask(a, b, n)[k + 1]
                            /\ BLK * k < p /\ p <= BLK * k + BLK
  BY <1>2, <1>3, ByteInBlock
<1>5. ASSUME NEW k \in Nat, k < n, Mask(a, b, n)[k + 1]
      PROVE  \E p \in C : BLK * k < p /\ p <= BLK * k + BLK
  BY <1>2, <1>3, <1>5, BlockHasByte
<1> QED
  BY <1>1, <1>2, <1>3, <1>4, <1>5 DEF Shows, C

\* The number of the block that a byte is in.
LEMMA BlockOf ==
  ASSUME NEW p \in Nat, NEW k \in Nat, BLK * k < p, p <= BLK * k + BLK
  PROVE  (p - 1) \div BLK = k
<1>1. BLK \in Nat \ {0}
  BY ConfigAssumption
<1>2. PICK m \in Nat : m = BLK * k
  BY <1>1
<1>3. PICK c \in 0..(BLK - 1) : p - 1 = m + c
  <2>1. p - 1 - m \in 0..(BLK - 1) /\ p - 1 = m + (p - 1 - m)
    BY <1>1, <1>2
  <2> QED
    BY <2>1
<1>4. PICK y \in Nat : y = p - 1 /\ y = BLK * k + c
  BY <1>1, <1>2, <1>3
<1> QED
  BY <1>1, <1>4, QuotientUnique

\* So does the mask of one of three dumps, where only this one differs.
LEMMA AloneShows ==
  ASSUME NEW a \in Seq(Bytes), NEW b \in Seq(Bytes), NEW c \in Seq(Bytes),
         Len(a) = Len(c), NEW n \in Nat, n = Len(a) \div BLK
  PROVE  Shows([i \in 1..n |-> differs(a, c, i) /\ ~differs(b, c, i)],
               DifferAlone(a, b, c), n, n * BLK)
<1> DEFINE mask == [i \in 1..n |-> differs(a, c, i) /\ ~differs(b, c, i)]
           D == {p \in Differ(a, c) : p <= n * BLK}
<1>1. Compared(a, c, n, n * BLK)
  BY ComparedInBlocks
<1>2. Shows(Mask(a, c, n), D, n, n * BLK)
  BY <1>1, ComparedShows
<1>3. DifferAlone(a, b, c) = {p \in D : ~differs(b, c, (p - 1) \div BLK + 1)}
  BY DEF DifferAlone
<1> HIDE DEF D
<1>4. \A i \in 1..n : Mask(a, c, n)[i] = differs(a, c, i)
  BY MaskFacts
<1>5. mask \in Seq(BOOLEAN) /\ Len(mask) = n
  <2>1. mask \in [1..n -> BOOLEAN]
    BY DEF differs
  <2> HIDE DEF mask
  <2> QED
    BY <2>1
<1>6. \A k \in Nat : k < n =>
        (mask[k + 1] <=> Mask(a, c, n)[k + 1] /\ ~differs(b, c, k + 1))
  <2>1. \A k \in Nat : k < n => k + 1 \in 1..n
    OBVIOUS
  <2> QED
    BY <1>4, <2>1
<1> HIDE DEF mask
<1>7. D \subseteq 1..(n * BLK) /\ \A p \in D : p \in Nat
  BY <1>2 DEF Shows
<1>8. ASSUME NEW p \in D, ~differs(b, c, (p - 1) \div BLK + 1)
      PROVE  \E k \in Nat : k < n /\ mask[k + 1] /\ BLK * k < p /\ p <= BLK * k + BLK
  <2>1. PICK k \in Nat : /\ k < n /\ Mask(a, c, n)[k + 1]
                         /\ BLK * k < p /\ p <= BLK * k + BLK
    BY <1>2 DEF Shows
  <2>2. (p - 1) \div BLK = k
    BY <1>7, <2>1, BlockOf
  <2> QED
    BY <1>6, <1>8, <2>1, <2>2
<1>9. ASSUME NEW k \in Nat, k < n, mask[k + 1]
      PROVE  \E p \in D : /\ ~differs(b, c, (p - 1) \div BLK + 1)
                          /\ BLK * k < p /\ p <= BLK * k + BLK
  <2>1. Mask(a, c, n)[k + 1] /\ ~differs(b, c, k + 1)
    BY <1>6, <1>9
  <2>2. PICK p \in D : BLK * k < p /\ p <= BLK * k + BLK
    BY <1>2, <1>9, <2>1 DEF Shows
  <2>3. (p - 1) \div BLK = k
    BY <1>7, <2>2, BlockOf
  <2> QED
    BY <2>1, <2>2, <2>3
<1> QED
  BY <1>2, <1>3, <1>5, <1>7, <1>8, <1>9 DEF Shows, mask

\* The regions of that mask.
LEMMA AloneShown ==
  ASSUME NEW a \in Seq(Bytes), NEW b \in Seq(Bytes), NEW c \in Seq(Bytes),
         Len(a) = Len(c), NEW n \in Nat, n = Len(a) \div BLK
  PROVE  Shown(alone(a, b, c, n), DifferAlone(a, b, c))
<1> DEFINE mask == [i \in 1..n |-> differs(a, c, i) /\ ~differs(b, c, i)]
<1>1. Shows(mask, DifferAlone(a, b, c), n, n * BLK)
  BY AloneShows
<1>2. alone(a, b, c, n) = regions(mask, n * BLK)
  BY DEF alone
<1> HIDE DEF mask
<1>3. Shown(regions(mask, n * BLK), DifferAlone(a, b, c))
  BY <1>1, RegionsFit
<1> QED
  BY <1>2, <1>3

\* The two classifications of dumps of the same length.
LEMMA ClassifiedShown ==
  ASSUME NEW a \in Seq(Bytes), NEW b \in Seq(Bytes), NEW c \in Seq(Bytes),
         Len(a) = Len(c), Len(b) = Len(c)
  PROVE  /\ Shown(classified(a, b, c).config, DifferAlone(a, b, c))
         /\ Shown(classified(a, b, c).code, DifferAlone(b, a, c))
<1>1. PICK n \in Nat : n = Len(a) \div BLK
  <2>1. BLK \in Nat \ {0} /\ Len(a) \in Nat
    BY ConfigAssumption, LenProperties
  <2> QED
    BY <2>1, Quotient
<1>2. /\ classified(a, b, c).config = alone(a, b, c, n)
      /\ classified(a, b, c).code = alone(b, a, c, n)
  BY <1>1 DEF classified
<1>3. Shown(alone(a, b, c, n), DifferAlone(a, b, c))
  BY <1>1, AloneShown
<1>4. Shown(alone(b, a, c, n), DifferAlone(b, a, c))
  BY <1>1, AloneShown
<1> QED
  BY <1>2, <1>3, <1>4

(***************************************************************************)
(* Whatever the dumps hold and however long a block is: every byte that    *)
(* changed is in a region, each region begins and ends with a block that   *)
(* changed, and no two of them touch; and the same of the two categories   *)
(* of three dumps, each for the bytes it is for.                           *)
(***************************************************************************)
THEOREM RegionsShowChanges == Spec => []RegionsCover
<1>1. IInv => RegionsCover
  <2> DEFINE partly == [p \in DOMAIN infile |-> IF p <= base + 7 THEN outfile[p] ELSE infile[p]]
             M == (Len(infile) + BLK - 1) \div BLK
  <2> SUFFICES ASSUME IInv, pc = "written"
               PROVE  /\ Shown(differing_regions(infile, outfile), Changed)
                      /\ \A a, b \in {infile, outfile, partly} :
                           /\ Shown(classified(a, b, infile).config, DifferAlone(a, b, infile))
                           /\ Shown(classified(a, b, infile).code, DifferAlone(b, a, infile))
    BY DEF RegionsCover
  <2>1. /\ infile \in Seq(Bytes) /\ outfile \in Seq(Bytes) /\ Len(infile) = Len(outfile)
        /\ Len(infile) \in Nat /\ DOMAIN infile = 1..Len(infile) /\ BLK \in Nat
        /\ base \in Nat
    BY LenProperties, ConfigAssumption DEF IInv, TypeOK
  <2>2. Shown(differing_regions(infile, outfile), Changed)
    <3>1. differing_regions(infile, outfile) = regions(Mask(infile, outfile, M), Len(infile))
      BY <2>1 DEF differing_regions, Mask
    <3>2. Shown(regions(Mask(infile, outfile, M), Len(infile)),
                {p \in Differ(infile, outfile) : p <= Len(infile)})
      BY <2>1, ComparedInFull, ComparedShows, RegionsFit
    <3>3. {p \in Differ(infile, outfile) : p <= Len(infile)} = Changed
      BY <2>1 DEF Differ, Changed
    <3> QED
      BY <3>1, <3>2, <3>3
  <2>3. partly \in Seq(Bytes) /\ Len(partly) = Len(infile)
    <3>1. \A i \in 1..Len(infile) : infile[i] \in Bytes /\ outfile[i] \in Bytes
      BY <2>1, ElementOfSeq
    <3>2. partly \in [1..Len(infile) -> Bytes]
      BY <2>1, <3>1
    <3> HIDE DEF partly
    <3> QED
      BY <2>1, <3>2
  <2> HIDE DEF partly
  <2>4. \A a \in {infile, outfile, partly} : a \in Seq(Bytes) /\ Len(a) = Len(infile)
    BY <2>1, <2>3
  <2> QED
    BY <2>1, <2>2, <2>4, ClassifiedShown
<1> QED
  BY <1>1, Invariance, PTL

-----------------------------------------------------------------------------
(***************************************************************************)
(* The comparison by records.                                              *)
(***************************************************************************)
RecordAt(d, p) ==
  [at |-> p, id |-> d[p], body |-> slice(d, p + 8, be16(d, p + 1) - 8)]

WalkStates == [pos : Nat, recs : Seq([at : Nat, id : Bytes, body : Seq(Bytes)])]

\* At how many places of n bytes a record may begin.
Steps(n) == IF n > 8 THEN n - 8 ELSE 0

\* f is the walk through the n bytes from b: what it has after each of them.
IsWalk(f, d, b, n) ==
  /\ f \in [0..Steps(n) -> WalkStates]
  /\ f[0] = [pos |-> b, recs |-> <<>>]
  /\ \A k \in 1..Steps(n) : f[k] = walked(f[k - 1], d, b + k - 1, b + n)

\* The walk in a record that it has skipped.
LEMMA WalkedInside ==
  ASSUME NEW s \in WalkStates, NEW d, NEW p, NEW end, p < s.pos
  PROVE  walked(s, d, p, end) = s
  BY DEF walked

\* The walk at a record.
LEMMA WalkedRecord ==
  ASSUME NEW s \in WalkStates, NEW d, NEW p, NEW end, ~(p < s.pos), IsRecord(d, p, end)
  PROVE  walked(s, d, p, end) =
           [pos |-> p + be16(d, p + 1), recs |-> Append(s.recs, RecordAt(d, p))]
  BY DEF walked, RecordAt

\* Its two fields.
LEMMA RecordWalked ==
  ASSUME NEW s \in WalkStates, NEW d, NEW p, NEW end, ~(p < s.pos), IsRecord(d, p, end)
  PROVE  /\ walked(s, d, p, end).pos = p + be16(d, p + 1)
         /\ walked(s, d, p, end).recs = Append(s.recs, RecordAt(d, p))
<1>1. walked(s, d, p, end) =
        [pos |-> p + be16(d, p + 1), recs |-> Append(s.recs, RecordAt(d, p))]
  BY WalkedRecord
<1> QED
  BY <1>1

\* The walk at a byte where no record begins.
LEMMA WalkedByte ==
  ASSUME NEW s \in WalkStates, NEW d, NEW p, NEW end, ~(p < s.pos), ~IsRecord(d, p, end)
  PROVE  walked(s, d, p, end) = [pos |-> p + 1, recs |-> s.recs]
<1>1. [s EXCEPT !.pos = p + 1] = [pos |-> p + 1, recs |-> s.recs]
  BY DEF WalkStates
<1> QED
  BY <1>1 DEF walked

\* Its two fields.
LEMMA ByteWalked ==
  ASSUME NEW s \in WalkStates, NEW d, NEW p, NEW end, ~(p < s.pos), ~IsRecord(d, p, end)
  PROVE  walked(s, d, p, end).pos = p + 1 /\ walked(s, d, p, end).recs = s.recs
<1>1. walked(s, d, p, end) = [pos |-> p + 1, recs |-> s.recs]
  BY WalkedByte
<1> QED
  BY <1>1

\* A place where a record may begin is followed by eight bytes.
LEMMA PlaceOfStep ==
  ASSUME NEW b \in Nat \ {0}, NEW n \in Nat, NEW k \in 1..Steps(n)
  PROVE  /\ b + k - 1 \in Nat \ {0} /\ b <= b + k - 1 /\ b + k - 1 + 8 <= b + n - 1
         /\ k - 1 \in 0..Steps(n) /\ Steps(n) \in Nat
  BY DEF Steps

\* What a record has.
LEMMA RecordFacts ==
  ASSUME NEW d \in Seq(Bytes), NEW p \in Nat \ {0}, NEW end \in Nat, end <= Len(d) + 1,
         p + 8 <= end - 1, IsRecord(d, p, end)
  PROVE  /\ be16(d, p + 1) \in Nat /\ 4 <= be16(d, p + 1) /\ p + be16(d, p + 1) <= end
         /\ RecordAt(d, p) \in [at : Nat, id : Bytes, body : Seq(Bytes)]
         /\ Len(RecordAt(d, p).body) =
              IF 8 <= be16(d, p + 1) THEN be16(d, p + 1) - 8 ELSE 0
         /\ \A i \in 1..Len(RecordAt(d, p).body) :
              RecordAt(d, p).body[i] = d[p + 8 + i - 1]
<1>1. Len(d) \in Nat /\ MaxRecord \in Nat
  BY LenProperties, ConfigAssumption
<1>2. PICK n \in Nat : n = be16(d, p + 1) /\ 4 <= n /\ p + n <= end
  BY <1>1 DEF IsRecord
<1>3. d[p] \in Bytes
  <2>1. p \in 1..Len(d)
    BY <1>1
  <2> QED
    BY <2>1, ElementOfSeq
<1>4. PICK q \in Int, e \in Int : q = p + 8 /\ e = p + n - 1
  BY <1>2
<1>5. slice(d, q, n - 8) = SubSeq(d, q, e)
  <2>1. q + (n - 8) - 1 = e
    BY <1>4
  <2>2. ~(q + (n - 8) - 1 > Len(d))
    BY <1>1, <1>2, <1>4, SMTT(30)
  <2> QED
    BY <2>1, <2>2 DEF slice
<1>6. q \in Int /\ e \in Int /\ 1 <= q /\ e <= Len(d)
  BY <1>1, <1>2, <1>4
<1> DEFINE s == SubSeq(d, q, e)
<1>7. /\ s \in Seq(Bytes)
      /\ Len(s) = IF q <= e THEN e - q + 1 ELSE 0
      /\ \A i \in 1..(e - q + 1) : s[i] = d[q + i - 1]
  BY <1>6, PieceFacts
<1>8. RecordAt(d, p) = [at |-> p, id |-> d[p], body |-> s]
  BY <1>2, <1>4, <1>5 DEF RecordAt
<1> HIDE DEF s
<1>9. Len(s) = IF 8 <= n THEN n - 8 ELSE 0
  <2>1. CASE 8 < n
    <3>1. q <= e /\ e - q + 1 = n - 8
      BY <1>4, <2>1
    <3> QED
      BY <1>7, <2>1, <3>1
  <2>2. CASE n <= 8
    <3>1. ~(q <= e)
      BY <1>4, <2>2
    <3> QED
      BY <1>7, <2>2, <3>1
  <2> QED
    BY <2>1, <2>2
<1>10. \A i \in 1..Len(s) : s[i] = d[p + 8 + i - 1]
  BY <1>2, <1>4, <1>7, <1>9
<1>11. RecordAt(d, p).body = s /\ RecordAt(d, p) \in [at : Nat, id : Bytes, body : Seq(Bytes)]
  BY <1>3, <1>7, <1>8
<1> QED
  BY <1>2, <1>9, <1>10, <1>11

\* A step stays in the states of the walk.
LEMMA WalkedState ==
  ASSUME NEW d \in Seq(Bytes), NEW p \in Nat \ {0}, NEW end \in Nat, end <= Len(d) + 1,
         p + 8 <= end - 1, NEW s \in WalkStates
  PROVE  walked(s, d, p, end) \in WalkStates
<1> DEFINE R == [at : Nat, id : Bytes, body : Seq(Bytes)]
<1>1. s.recs \in Seq(R) /\ s.pos \in Nat
  BY DEF WalkStates
<1>2. CASE p < s.pos
  <2>1. walked(s, d, p, end) = s
    BY <1>2, WalkedInside
  <2> QED
    BY <2>1
<1>3. CASE ~(p < s.pos) /\ IsRecord(d, p, end)
  <2>1. RecordAt(d, p) \in R /\ p + be16(d, p + 1) \in Nat
    BY <1>3, RecordFacts, SMTT(30)
  <2> HIDE DEF R
  <2>2. Append(s.recs, RecordAt(d, p)) \in Seq(R)
    BY <1>1, <2>1, AppendProperties
  <2>3. walked(s, d, p, end) =
          [pos |-> p + be16(d, p + 1), recs |-> Append(s.recs, RecordAt(d, p))]
    BY <1>3, WalkedRecord
  <2> QED
    BY <2>1, <2>2, <2>3 DEF WalkStates, R
<1>4. CASE ~(p < s.pos) /\ ~IsRecord(d, p, end)
  <2>1. walked(s, d, p, end) = [pos |-> p + 1, recs |-> s.recs]
    BY <1>4, WalkedByte
  <2> QED
    BY <1>1, <2>1 DEF WalkStates
<1> QED
  BY <1>2, <1>3, <1>4

\* parse_records is such a walk.
LEMMA WalkExists ==
  ASSUME NEW d \in Seq(Bytes), NEW b \in Nat \ {0}, NEW n \in Nat, b + n - 1 <= Len(d)
  PROVE  \E f : IsWalk(f, d, b, n) /\ parse_records(d, b, n) = f[Steps(n)].recs
<1> DEFINE m == Steps(n)
           a == [pos |-> b, recs |-> <<>>]
           S == WalkStates
           step == [x \in S \X (1..m) |-> walked(x[1], d, b + x[2] - 1, b + n)]
           Walks(f) == f = [k \in 0..m |->
              IF k = 0 THEN a ELSE walked(f[k - 1], d, b + k - 1, b + n)]
<1>1. m \in Nat /\ Len(d) \in Nat /\ b + n \in Nat /\ b + n <= Len(d) + 1
  BY LenProperties DEF Steps
<1>2. a \in S
  BY EmptySeq DEF WalkStates
<1>3. ASSUME NEW k \in 1..m, NEW s \in S
      PROVE  walked(s, d, b + k - 1, b + n) \in S
  <2>1. PICK p \in Nat \ {0} : p = b + k - 1 /\ p + 8 <= (b + n) - 1
    BY <1>1, PlaceOfStep
  <2> QED
    BY <1>1, <2>1, WalkedState
<1>4. \E f : Walks(f)
  <2>1. step \in [S \X (1..m) -> S]
    BY <1>3
  <2> HIDE DEF m, S, step, Walks, a
  <2>2. PICK f \in [0..m -> S] : IsRun(f, a, m, step)
    BY <1>1, <1>2, <2>1, Iteration
  <2>3. ASSUME NEW k \in 1..m
        PROVE  f[k] = walked(f[k - 1], d, b + k - 1, b + n)
    <3>1. k - 1 \in 0..m
      BY <1>1
    <3>2. f[k - 1] \in S
      BY <3>1
    <3> QED
      BY <2>2, <3>2 DEF IsRun, step
  <2>4. \A k \in 0..m : f[k] = IF k = 0 THEN a ELSE walked(f[k - 1], d, b + k - 1, b + n)
    BY <1>1, <2>2, <2>3 DEF IsRun
  <2> QED
    BY <2>4 DEF Walks
<1> DEFINE f == CHOOSE g : Walks(g)
<1>5. Walks(f)
  BY <1>4, Zenon
<1>6. parse_records(d, b, n) = f[m].recs
  BY DEF parse_records, Steps
<1> HIDE DEF f
<1>7. f[0] = a /\ \A k \in 1..m : f[k] = walked(f[k - 1], d, b + k - 1, b + n)
  <2> HIDE DEF a, m
  <2>1. 0 \in 0..m /\ \A k \in 1..m : k \in 0..m /\ k # 0
    BY <1>1
  <2>2. \A k \in 0..m : f[k] = IF k = 0 THEN a ELSE walked(f[k - 1], d, b + k - 1, b + n)
    BY <1>5, Zenon
  <2> QED
    BY <2>1, <2>2
<1> DEFINE T == {k \in Nat : k <= m => f[k] \in S}
<1>8. 0 \in T
  BY <1>2, <1>7
<1>9. ASSUME NEW k \in Nat, k \in T
      PROVE  k + 1 \in T
  <2> SUFFICES ASSUME k + 1 <= m PROVE f[k + 1] \in S
    OBVIOUS
  <2>1. PICK j \in 1..m : j = k + 1 /\ j - 1 = k
    BY <1>1
  <2>2. f[k] \in S
    BY <1>1, <1>9, <2>1
  <2>3. f[j] = walked(f[j - 1], d, b + j - 1, b + n)
    BY <1>7
  <2>4. walked(f[k], d, b + j - 1, b + n) \in S
    BY <1>3, <2>2
  <2> HIDE DEF S, m
  <2> QED
    BY <2>1, <2>3, <2>4
<1>10. \A k \in 0..m : f[k] \in S
  <2> HIDE DEF T
  <2>1. Nat \subseteq T
    BY <1>8, <1>9, NatSetInduction
  <2> HIDE DEF m, S
  <2> QED
    BY <1>1, <2>1 DEF T
<1>11. f \in [0..m -> S]
  <2>1. f = [k \in 0..m |-> f[k]]
    <3> HIDE DEF m, a
    <3>1. DOMAIN f = 0..m
      BY <1>5
    <3> DEFINE h == [k \in 0..m |-> IF k = 0 THEN a ELSE walked(f[k - 1], d, b + k - 1, b + n)]
    <3>2. f = h
      BY <1>5, Zenon
    <3>3. h = [k \in 0..m |-> h[k]]
      OBVIOUS
    <3> HIDE DEF h
    <3> QED
      BY <3>2, <3>3
  <2> HIDE DEF m, S
  <2> QED
    BY <1>10, <2>1
<1> QED
  BY <1>6, <1>7, <1>11 DEF IsWalk

\* The places where the walk looked for a record, of the first k.
Looked(f, b, k) == {q \in b..(b + k - 1) : f[q - b].pos <= q}

\* Such a place is followed by eight bytes.
LEMMA LookedPlace ==
  ASSUME NEW b \in Nat \ {0}, NEW n \in Nat, NEW k \in 0..Steps(n),
         NEW f, NEW q \in Looked(f, b, k)
  PROVE  q \in Nat \ {0} /\ b <= q /\ q <= b + k - 1 /\ q + 8 <= b + n - 1
<1>1. Steps(n) \in Nat /\ k \in Nat
  BY DEF Steps
<1>2. PICK y \in Int : y = q /\ y \in b..(b + k - 1)
  BY <1>1 DEF Looked
<1>3. PICK i \in Int : i = y - b + 1
  OBVIOUS
<1>4. i \in 1..Steps(n) /\ b + i - 1 = y
  BY <1>1, <1>2, <1>3
<1>5. b + i - 1 \in Nat \ {0} /\ b <= b + i - 1 /\ b + i - 1 + 8 <= b + n - 1
  BY <1>4, PlaceOfStep
<1> QED
  BY <1>1, <1>2, <1>4, <1>5

\* What is known of the records r: they are in d, before pos, where the walk
\* looked, and it did not look inside of them.
Known(r, d, end, pos, L) ==
  \A j \in 1..Len(r) :
    /\ r[j] = RecordAt(d, r[j].at) /\ IsRecord(d, r[j].at, end)
    /\ r[j].at \in L /\ r[j].at + be16(d, r[j].at + 1) <= pos
    /\ \A q \in L : q <= r[j].at \/ r[j].at + be16(d, r[j].at + 1) <= q

\* A place without a record.
LEMMA KnownByte ==
  ASSUME NEW r, NEW d, NEW end, NEW pos \in Nat, NEW x \in Nat, NEW L, pos <= x,
         \A j \in 1..Len(r) : r[j].at + be16(d, r[j].at + 1) \in Nat,
         Known(r, d, end, pos, L)
  PROVE  Known(r, d, end, x + 1, L \cup {x})
<1> SUFFICES ASSUME NEW j \in 1..Len(r)
             PROVE  /\ r[j] = RecordAt(d, r[j].at) /\ IsRecord(d, r[j].at, end)
                    /\ r[j].at \in L \cup {x}
                    /\ r[j].at + be16(d, r[j].at + 1) <= x + 1
                    /\ \A q \in L \cup {x} :
                         q <= r[j].at \/ r[j].at + be16(d, r[j].at + 1) <= q
  BY DEF Known
<1>1. PICK e \in Nat : e = r[j].at + be16(d, r[j].at + 1)
  OBVIOUS
<1>2. /\ r[j] = RecordAt(d, r[j].at) /\ IsRecord(d, r[j].at, end)
      /\ r[j].at \in L /\ e <= pos
      /\ \A q \in L : q <= r[j].at \/ e <= q
  BY <1>1 DEF Known
<1>3. e <= x /\ e <= x + 1
  BY <1>2
<1> QED
  BY <1>1, <1>2, <1>3

\* A place with one.
LEMMA KnownRecord ==
  ASSUME NEW R, NEW r \in Seq(R), NEW d, NEW end, NEW pos \in Nat, NEW x \in Nat,
         NEW L \in SUBSET (0..x), pos <= x,
         \A j \in 1..Len(r) : r[j].at + be16(d, r[j].at + 1) \in Nat,
         RecordAt(d, x) \in R, be16(d, x + 1) \in Nat, IsRecord(d, x, end),
         Known(r, d, end, pos, L)
  PROVE  Known(Append(r, RecordAt(d, x)), d, end, x + be16(d, x + 1), L \cup {x})
<1> DEFINE s == Append(r, RecordAt(d, x))
<1>1. /\ Len(r) \in Nat /\ Len(s) = Len(r) + 1
      /\ \A j \in 1..Len(r) : s[j] = r[j]
      /\ s[Len(r) + 1] = RecordAt(d, x)
  BY AppendProperties, LenProperties
<1> HIDE DEF s
<1>2. RecordAt(d, x).at = x
  BY DEF RecordAt
<1> SUFFICES ASSUME NEW j \in 1..Len(s)
             PROVE  /\ s[j] = RecordAt(d, s[j].at) /\ IsRecord(d, s[j].at, end)
                    /\ s[j].at \in L \cup {x}
                    /\ s[j].at + be16(d, s[j].at + 1) <= x + be16(d, x + 1)
                    /\ \A q \in L \cup {x} :
                         q <= s[j].at \/ s[j].at + be16(d, s[j].at + 1) <= q
  BY DEF Known, s
<1>3. PICK n \in Nat : n = be16(d, x + 1)
  OBVIOUS
<1>4. CASE j = Len(r) + 1
  <2>1. s[j] = RecordAt(d, x) /\ s[j].at = x
    BY <1>1, <1>2, <1>4
  <2>2. \A q \in L \cup {x} : q <= x
    OBVIOUS
  <2>3. x + n <= x + n
    OBVIOUS
  <2> QED
    BY <1>3, <2>1, <2>2, <2>3
<1>5. CASE j \in 1..Len(r)
  <2>1. s[j] = r[j]
    BY <1>1, <1>5
  <2>2. PICK e \in Nat : e = r[j].at + be16(d, r[j].at + 1)
    BY <1>5
  <2>3. /\ r[j] = RecordAt(d, r[j].at) /\ IsRecord(d, r[j].at, end)
        /\ r[j].at \in L /\ e <= pos
        /\ \A q \in L : q <= r[j].at \/ e <= q
    BY <1>5, <2>2 DEF Known
  <2>4. e <= x /\ e <= x + n
    BY <2>3
  <2> QED
    BY <1>3, <2>1, <2>2, <2>3, <2>4
<1> QED
  BY <1>1, <1>4, <1>5

\* It is known all along the walk.
LEMMA WalkKnown ==
  ASSUME NEW d \in Seq(Bytes), NEW b \in Nat \ {0}, NEW n \in Nat, b + n - 1 <= Len(d),
         NEW f, IsWalk(f, d, b, n)
  PROVE  \A k \in 0..Steps(n) : Known(f[k].recs, d, b + n, f[k].pos, Looked(f, b, k))
<1> DEFINE m == Steps(n)
           R == [at : Nat, id : Bytes, body : Seq(Bytes)]
           T == {k \in Nat : k <= m => Known(f[k].recs, d, b + n, f[k].pos, Looked(f, b, k))}
<1>1. m \in Nat /\ Len(d) \in Nat /\ b + n \in Nat /\ b + n <= Len(d) + 1
  BY LenProperties DEF Steps
<1>2. \A k \in 0..m : f[k].pos \in Nat /\ f[k].recs \in Seq(R)
  BY DEF IsWalk, WalkStates
<1>3. 0 \in T
  <2>1. f[0].recs = <<>>
    BY DEF IsWalk
  <2>2. Len(f[0].recs) = 0
    BY <2>1
  <2> QED
    BY <2>2 DEF Known
<1>4. ASSUME NEW k \in Nat, k \in T
      PROVE  k + 1 \in T
  <2> SUFFICES ASSUME k + 1 <= m
               PROVE  Known(f[k + 1].recs, d, b + n, f[k + 1].pos, Looked(f, b, k + 1))
    OBVIOUS
  <2>1. PICK i \in 1..m : i = k + 1 /\ i - 1 = k
    BY <1>1
  <2>2. PICK x \in Nat \ {0} : x = b + i - 1 /\ x + 8 <= b + n - 1
    BY <1>1, PlaceOfStep
  <2>3. x = b + k /\ k \in 0..m
    BY <1>1, <2>1, <2>2
  <2> DEFINE r == f[k].recs
             L == Looked(f, b, k)
  <2>4. PICK pos \in Nat : pos = f[k].pos
    BY <1>2, <2>3
  <2>5. r \in Seq(R) /\ f[k] \in WalkStates
    BY <2>3 DEF IsWalk, WalkStates
  <2>6. f[i] = walked(f[k], d, x, b + n)
    BY <2>1, <2>2 DEF IsWalk
  <2>7. Known(r, d, b + n, pos, L)
    BY <1>4, <1>1, <2>1, <2>4
  <2>8. L \in SUBSET (0..x)
    BY <2>3 DEF Looked
  <2>9. /\ pos <= x => Looked(f, b, k + 1) = L \cup {x}
        /\ ~(pos <= x) => Looked(f, b, k + 1) = L
    <3>1. b..(b + (k + 1) - 1) = b..(b + k - 1) \cup {x}
      BY <2>3
    <3>2. x - b = k /\ x \notin b..(b + k - 1)
      BY <2>3
    <3> QED
      BY <2>4, <3>1, <3>2 DEF Looked
  <2>10. \A j \in 1..Len(r) : r[j].at + be16(d, r[j].at + 1) \in Nat
    <3> SUFFICES ASSUME NEW j \in 1..Len(r)
                 PROVE  r[j].at + be16(d, r[j].at + 1) \in Nat
      OBVIOUS
    <3>1. r[j].at \in L /\ IsRecord(d, r[j].at, b + n)
      BY <2>7 DEF Known
    <3>2. k \in 0..Steps(n) /\ r[j].at \in Looked(f, b, k)
      BY <2>3, <3>1
    <3> HIDE DEF r, L, R, m, T
    <3>3. r[j].at \in Nat \ {0} /\ r[j].at + 8 <= (b + n) - 1
      BY <3>2, LookedPlace
    <3>4. PICK y \in Nat \ {0} : y = r[j].at /\ y + 8 <= (b + n) - 1 /\ IsRecord(d, y, b + n)
      BY <3>1, <3>3
    <3>5. be16(d, y + 1) \in Nat
      BY <1>1, <3>4, RecordFacts
    <3> QED
      BY <3>4, <3>5, SMTT(30)
  <2> HIDE DEF r, L, R, m, T
  <2>11. CASE ~(pos <= x)
    <3>1. x < f[k].pos
      BY <2>4, <2>11
    <3>2. f[i] = f[k]
      BY <2>5, <2>6, <3>1, WalkedInside
    <3> QED
      BY <2>1, <2>4, <2>7, <2>9, <2>11, <3>2 DEF r
  <2>12. CASE pos <= x /\ ~IsRecord(d, x, b + n)
    <3>1. ~(x < f[k].pos)
      BY <2>4, <2>12
    <3>2. f[i].recs = r /\ f[i].pos = x + 1
      <4>1. /\ walked(f[k], d, x, b + n).recs = f[k].recs
            /\ walked(f[k], d, x, b + n).pos = x + 1
        BY <2>5, <2>12, <3>1, ByteWalked
      <4> QED
        BY <2>6, <4>1, Zenon DEF r
    <3>3. Known(r, d, b + n, x + 1, L \cup {x})
      BY <2>7, <2>10, <2>12, KnownByte
    <3>4. f[k + 1].recs = r /\ f[k + 1].pos = x + 1
      BY <2>1, <3>2, Zenon
    <3>5. Looked(f, b, k + 1) = L \cup {x}
      BY <2>9, <2>12
    <3> QED
      BY <3>3, <3>4, <3>5
  <2>13. CASE pos <= x /\ IsRecord(d, x, b + n)
    <3>1. ~(x < f[k].pos)
      BY <2>4, <2>13
    <3>2. /\ f[i].recs = Append(r, RecordAt(d, x))
          /\ f[i].pos = x + be16(d, x + 1)
      <4>1. /\ walked(f[k], d, x, b + n).recs = Append(f[k].recs, RecordAt(d, x))
            /\ walked(f[k], d, x, b + n).pos = x + be16(d, x + 1)
        BY <2>5, <2>13, <3>1, RecordWalked
      <4> QED
        BY <2>6, <4>1, Zenon DEF r
    <3>3. be16(d, x + 1) \in Nat /\ RecordAt(d, x) \in R
      BY <1>1, <2>2, <2>13, RecordFacts DEF R
    <3>4. Known(Append(r, RecordAt(d, x)), d, b + n, x + be16(d, x + 1), L \cup {x})
      BY <2>5, <2>7, <2>8, <2>10, <2>13, <3>3, KnownRecord
    <3>5. /\ f[k + 1].recs = Append(r, RecordAt(d, x))
          /\ f[k + 1].pos = x + be16(d, x + 1)
      BY <2>1, <3>2, Zenon
    <3>6. Looked(f, b, k + 1) = L \cup {x}
      BY <2>9, <2>13
    <3> QED
      BY <3>4, <3>5, <3>6
  <2> QED
    BY <2>11, <2>12, <2>13
<1> SUFFICES ASSUME NEW k \in 0..m
             PROVE  Known(f[k].recs, d, b + n, f[k].pos, Looked(f, b, k))
  OBVIOUS
<1>5. k \in T
  <2> HIDE DEF T
  <2>1. Nat \subseteq T
    BY <1>3, <1>4, NatSetInduction
  <2> QED
    BY <1>1, <2>1
<1> QED
  BY <1>1, <1>5

-----------------------------------------------------------------------------
\* Two dumps have the same at q, as far as the walk looks.
SameAt(d, e, q, end) ==
  /\ IsRecord(e, q, end) <=> IsRecord(d, q, end)
  /\ IsRecord(d, q, end) => e[q] = d[q] /\ be16(e, q + 1) = be16(d, q + 1)

\* As many records, at the same places and with the same ids.
Matched(r, s) ==
  /\ Len(s) = Len(r)
  /\ \A j \in 1..Len(r) : s[j].at = r[j].at /\ s[j].id = r[j].id

\* One more of them.
LEMMA MatchedMore ==
  ASSUME NEW R, NEW r \in Seq(R), NEW s \in Seq(R), Matched(r, s),
         NEW u \in R, NEW v \in R, v.at = u.at, v.id = u.id
  PROVE  Matched(Append(r, u), Append(s, v))
<1> DEFINE x == Append(r, u)
           y == Append(s, v)
<1>1. /\ Len(r) \in Nat /\ Len(x) = Len(r) + 1
      /\ \A j \in 1..Len(r) : x[j] = r[j]
      /\ x[Len(r) + 1] = u
  BY AppendProperties, LenProperties
<1>2. /\ Len(y) = Len(s) + 1
      /\ \A j \in 1..Len(s) : y[j] = s[j]
      /\ y[Len(s) + 1] = v
  BY AppendProperties, LenProperties
<1>3. Len(s) = Len(r) /\ \A j \in 1..Len(r) : s[j].at = r[j].at /\ s[j].id = r[j].id
  BY DEF Matched
<1> HIDE DEF x, y
<1>4. ASSUME NEW j \in 1..Len(x)
      PROVE  y[j].at = x[j].at /\ y[j].id = x[j].id
  <2>1. CASE j = Len(r) + 1
    BY <1>1, <1>2, <1>3, <2>1
  <2>2. CASE j \in 1..Len(r)
    BY <1>1, <1>2, <1>3, <2>2
  <2> QED
    BY <1>1, <2>1, <2>2
<1> QED
  BY <1>1, <1>2, <1>3, <1>4 DEF Matched, x, y

\* Two walks that find the same where the one looks, look at the same places.
LEMMA WalksAlike ==
  ASSUME NEW d \in Seq(Bytes), NEW e \in Seq(Bytes), Len(e) = Len(d),
         NEW b \in Nat \ {0}, NEW n \in Nat, b + n - 1 <= Len(d),
         NEW f, IsWalk(f, d, b, n), NEW g, IsWalk(g, e, b, n),
         \A q \in Looked(f, b, Steps(n)) : SameAt(d, e, q, b + n)
  PROVE  \A k \in 0..Steps(n) : g[k].pos = f[k].pos /\ Matched(f[k].recs, g[k].recs)
<1> DEFINE m == Steps(n)
           R == [at : Nat, id : Bytes, body : Seq(Bytes)]
           T == {k \in Nat : k <= m => /\ g[k].pos = f[k].pos
                                       /\ Matched(f[k].recs, g[k].recs)}
<1>1. m \in Nat /\ Len(d) \in Nat /\ b + n \in Nat /\ b + n <= Len(d) + 1
  BY LenProperties DEF Steps
<1>2. \A k \in 0..m : /\ f[k] \in WalkStates /\ g[k] \in WalkStates
                      /\ f[k].pos \in Nat /\ f[k].recs \in Seq(R) /\ g[k].recs \in Seq(R)
  BY DEF IsWalk, WalkStates
<1>3. 0 \in T
  <2>1. f[0] = g[0]
    BY DEF IsWalk
  <2> QED
    BY <2>1 DEF Matched
<1>4. ASSUME NEW k \in Nat, k \in T
      PROVE  k + 1 \in T
  <2> SUFFICES ASSUME k + 1 <= m
               PROVE  g[k + 1].pos = f[k + 1].pos /\ Matched(f[k + 1].recs, g[k + 1].recs)
    OBVIOUS
  <2>1. PICK i \in 1..m : i = k + 1 /\ i - 1 = k
    BY <1>1
  <2>2. PICK x \in Nat \ {0} : x = b + i - 1 /\ x + 8 <= b + n - 1
    BY <1>1, PlaceOfStep
  <2>3. x = b + k /\ k \in 0..m
    BY <1>1, <2>1, <2>2
  <2>4. PICK pos \in Nat : pos = f[k].pos
    BY <1>2, <2>3
  <2>5. g[k].pos = pos /\ Matched(f[k].recs, g[k].recs)
    BY <1>4, <1>1, <2>1, <2>4
  <2>6. /\ f[i] = walked(f[k], d, x, b + n) /\ g[i] = walked(g[k], e, x, b + n)
        /\ f[k] \in WalkStates /\ g[k] \in WalkStates
    BY <1>2, <2>1, <2>2, <2>3 DEF IsWalk
  <2>7. pos <= x => SameAt(d, e, x, b + n)
    <3>1. x \in b..(b + m - 1) /\ x - b = k
      BY <1>1, <2>1, <2>3
    <3> QED
      BY <2>4, <3>1 DEF Looked
  <2> HIDE DEF T, R, m
  <2>8. CASE ~(pos <= x)
    <3>1. x < f[k].pos /\ x < g[k].pos
      BY <2>4, <2>5, <2>8
    <3>2. f[i] = f[k] /\ g[i] = g[k]
      BY <2>6, <3>1, WalkedInside
    <3> QED
      BY <2>1, <2>4, <2>5, <3>2
  <2>9. CASE pos <= x
    <3>1. ~(x < f[k].pos) /\ ~(x < g[k].pos)
      BY <2>4, <2>5, <2>9
    <3>2. CASE ~IsRecord(d, x, b + n)
      <4>1. ~IsRecord(e, x, b + n)
        BY <2>7, <2>9, <3>2 DEF SameAt
      <4>2. f[i].pos = x + 1 /\ f[i].recs = f[k].recs
        BY <2>6, <3>1, <3>2, ByteWalked
      <4>3. g[i].pos = x + 1 /\ g[i].recs = g[k].recs
        BY <2>6, <3>1, <4>1, ByteWalked
      <4> QED
        BY <2>1, <2>5, <4>2, <4>3
    <3>3. CASE IsRecord(d, x, b + n)
      <4>1. /\ IsRecord(e, x, b + n)
            /\ e[x] = d[x] /\ be16(e, x + 1) = be16(d, x + 1)
        BY <2>7, <2>9, <3>3 DEF SameAt
      <4>2. /\ walked(f[k], d, x, b + n).pos = x + be16(d, x + 1)
            /\ walked(f[k], d, x, b + n).recs = Append(f[k].recs, RecordAt(d, x))
        <5>1. f[k] \in WalkStates /\ ~(x < f[k].pos) /\ IsRecord(d, x, b + n)
          BY <2>6, <3>1, <3>3
        <5> QED
          BY <5>1, RecordWalked, SMTT(30)
      <4>3. /\ walked(g[k], e, x, b + n).pos = x + be16(e, x + 1)
            /\ walked(g[k], e, x, b + n).recs = Append(g[k].recs, RecordAt(e, x))
        <5>1. g[k] \in WalkStates /\ ~(x < g[k].pos) /\ IsRecord(e, x, b + n)
          BY <2>6, <3>1, <4>1
        <5> QED
          BY <5>1, RecordWalked, SMTT(30)
      <4>4. RecordAt(d, x) \in R
        BY <1>1, <2>2, <3>3, RecordFacts DEF R
      <4>5. RecordAt(e, x) \in R
        BY <1>1, <2>2, <4>1, RecordFacts DEF R
      <4>6. /\ RecordAt(e, x).at = RecordAt(d, x).at
            /\ RecordAt(e, x).id = RecordAt(d, x).id
        BY <4>1 DEF RecordAt
      <4>7. f[k].recs \in Seq(R) /\ g[k].recs \in Seq(R)
        BY <1>2, <2>3
      <4>8. Matched(Append(f[k].recs, RecordAt(d, x)), Append(g[k].recs, RecordAt(e, x)))
        BY <2>5, <4>4, <4>5, <4>6, <4>7, MatchedMore
      <4>9. /\ f[i].recs = Append(f[k].recs, RecordAt(d, x))
            /\ g[i].recs = Append(g[k].recs, RecordAt(e, x))
            /\ f[i].pos = x + be16(d, x + 1) /\ g[i].pos = x + be16(e, x + 1)
        BY <2>6, <4>2, <4>3, Zenon
      <4> QED
        BY <2>1, <4>1, <4>8, <4>9
    <3> QED
      BY <3>2, <3>3
  <2> QED
    BY <2>8, <2>9
<1> SUFFICES ASSUME NEW k \in 0..m
             PROVE  g[k].pos = f[k].pos /\ Matched(f[k].recs, g[k].recs)
  OBVIOUS
<1>5. k \in T
  <2> HIDE DEF T
  <2>1. Nat \subseteq T
    BY <1>3, <1>4, NatSetInduction
  <2> QED
    BY <1>1, <2>1
<1> QED
  BY <1>1, <1>5

-----------------------------------------------------------------------------
\* Of two records with one id, the second has more before it.
LEMMA EarlierDiffers ==
  ASSUME NEW r, NEW i \in Nat \ {0}, NEW j \in Nat, i < j, r[i].id = r[j].id
  PROVE  earlier(r, i) # earlier(r, j)
<1> DEFINE A == {m \in 1..(i - 1) : r[m].id = r[i].id}
           B == {m \in 1..(j - 1) : r[m].id = r[j].id}
<1>1. IsFiniteSet(1..(j - 1)) /\ IsFiniteSet(1..(i - 1))
  BY FS_Interval
<1>2. IsFiniteSet(A) /\ IsFiniteSet(B)
  <2>1. A \in SUBSET (1..(i - 1)) /\ B \in SUBSET (1..(j - 1))
    OBVIOUS
  <2> HIDE DEF A, B
  <2> QED
    BY <1>1, <2>1, FS_Subset
<1>3. i \notin A /\ A \cup {i} \in SUBSET B
  <2>1. i \in 1..(j - 1) /\ 1..(i - 1) \subseteq 1..(j - 1) /\ i \notin 1..(i - 1)
    OBVIOUS
  <2> QED
    BY <2>1
<1>4. earlier(r, i) = Cardinality(A) /\ earlier(r, j) = Cardinality(B)
  BY DEF earlier
<1> HIDE DEF A, B
<1>5. Cardinality(A) \in Nat /\ Cardinality(A \cup {i}) = Cardinality(A) + 1
  BY <1>2, <1>3, FS_AddElement, FS_CardinalityType
<1>6. Cardinality(A \cup {i}) <= Cardinality(B)
  BY <1>2, <1>3, FS_Subset
<1> QED
  BY <1>4, <1>5, <1>6

\* Records that are matched are compared with their match and no other.
LEMMA DifferingPairs ==
  ASSUME NEW R, NEW r \in Seq(R), NEW s \in Seq(R), Matched(r, s)
  PROVE  /\ only(r, s) = {} /\ only(s, r) = {}
         /\ \A pair \in differing(r, s) :
              \E j \in 1..Len(r) : pair = <<r[j], s[j]>> /\ r[j].body # s[j].body
<1>1. /\ Len(r) \in Nat /\ Len(s) = Len(r)
      /\ DOMAIN r = 1..Len(r) /\ DOMAIN s = 1..Len(r)
      /\ \A j \in 1..Len(r) : s[j].id = r[j].id
  BY LenProperties DEF Matched
<1>2. only(r, s) = {} /\ only(s, r) = {}
  BY <1>1 DEF only
<1>3. ASSUME NEW i \in 1..Len(r)
      PROVE  earlier(s, i) = earlier(r, i)
  <2>1. \A m \in 1..(i - 1) : m \in 1..Len(r)
    BY <1>1
  <2>2. {m \in 1..(i - 1) : s[m].id = s[i].id} = {m \in 1..(i - 1) : r[m].id = r[i].id}
    BY <1>1, <2>1
  <2> QED
    BY <2>2 DEF earlier
<1>4. ASSUME NEW pair \in differing(r, s)
      PROVE  \E j \in 1..Len(r) : pair = <<r[j], s[j]>> /\ r[j].body # s[j].body
  <2>1. PICK i \in 1..Len(r), j \in 1..Len(r) :
          /\ pair = <<r[i], s[j]>> /\ r[i].id = s[j].id
          /\ earlier(r, i) = earlier(s, j) /\ r[i].body # s[j].body
    BY <1>1 DEF differing
  <2>2. r[i].id = r[j].id /\ earlier(r, i) = earlier(r, j)
    BY <1>1, <1>3, <2>1
  <2>3. i \in Nat \ {0} /\ j \in Nat \ {0}
    BY <1>1
  <2>4. ~(i < j) /\ ~(j < i)
    BY <2>2, <2>3, EarlierDiffers
  <2>5. i = j
    BY <2>3, <2>4
  <2> QED
    BY <2>1, <2>5
<1> QED
  BY <1>2, <1>4

-----------------------------------------------------------------------------
\* Whatever the checksum is, no record of the n bytes at b begins in the header.
Plain(f, b, n) ==
  \A c \in Bytes, e \in Bytes, q \in b..(b + 7) :
    q + 8 <= b + n - 1 => ~IsRecord(put(f, b + 6, 2, <<c, e>>), q, b + n)

PlainHeader(f) ==
  \A b \in found(f) : b + le16(f, b + 4) - 1 <= Len(f) => Plain(f, b, le16(f, b + 4))

\* The numbers of the descriptor are in the payload of r.
Holds(r, p) == r.at + 8 <= p + 4 /\ p + 11 <= r.at + 7 + Len(r.body)

\* They are in the payload of one of the records r, or behind the block.
Placed(r, p, end) == end <= p + 4 \/ \E j \in 1..Len(r) : Holds(r[j], p)

Recorded(f) ==
  \A b \in found(f), p \in lowest(Descriptors(f)) :
    LET n == le16(f, b + 4)
        r == parse_records(f, b, n)
    IN  b + n - 1 <= Len(f) => Placed(r, p, b + n)

\* What is known of the record that holds them.
LEMMA HolderFacts ==
  ASSUME NEW f \in Seq(Bytes), NEW b \in Nat \ {0}, NEW n \in Nat, b + n - 1 <= Len(f),
         NEW w, IsWalk(w, f, b, n), NEW p \in Nat,
         NEW j \in 1..Len(w[Steps(n)].recs),
         NEW r, r = w[Steps(n)].recs[j], Holds(r, p)
  PROVE  /\ r = RecordAt(f, r.at) /\ r.at \in Looked(w, b, Steps(n)) /\ r.at \in Nat
         /\ \A q \in Looked(w, b, Steps(n)) : q <= r.at \/ p + 12 <= q
<1> DEFINE m == Steps(n)
           L == Looked(w, b, m)
<1>1. m \in Nat /\ m \in 0..m /\ Len(f) \in Nat /\ b + n \in Nat /\ b + n <= Len(f) + 1
  BY LenProperties DEF Steps
<1>2. Known(w[m].recs, f, b + n, w[m].pos, L)
  BY <1>1, WalkKnown
<1>3. /\ r = RecordAt(f, r.at) /\ IsRecord(f, r.at, b + n) /\ r.at \in L
      /\ \A q \in L : q <= r.at \/ r.at + be16(f, r.at + 1) <= q
  BY <1>2 DEF Known
<1>4. PICK x : x = r.at /\ x \in Looked(w, b, Steps(n))
  BY <1>3, Zenon
<1>5. x \in Nat \ {0} /\ x + 8 <= (b + n) - 1 /\ IsRecord(f, x, b + n)
  <2>1. IsRecord(f, x, b + n) /\ Steps(n) \in 0..Steps(n)
    BY <1>1, <1>3, <1>4
  <2>2. x \in Nat \ {0} /\ b <= x /\ x <= b + Steps(n) - 1 /\ x + 8 <= b + n - 1
    BY <1>4, <2>1, LookedPlace
  <2> QED
    BY <2>1, <2>2
<1>6. PICK z \in Nat : z = be16(f, x + 1)
  BY <1>1, <1>4, <1>5, RecordFacts
<1>7. Len(RecordAt(f, x).body) = IF 8 <= z THEN z - 8 ELSE 0
  BY <1>1, <1>4, <1>5, <1>6, RecordFacts
<1>8. x + 8 <= p + 4 /\ p + 11 <= x + 7 + Len(RecordAt(f, x).body)
  BY <1>3, <1>4 DEF Holds
<1>9. p + 12 <= x + z
  <2>1. PICK l \in Nat : l = Len(RecordAt(f, x).body)
    BY <1>6, <1>7
  <2>2. (8 <= z => l = z - 8) /\ (~(8 <= z) => l = 0)
    BY <1>7, <2>1
  <2>3. x + 8 <= p + 4 /\ p + 11 <= x + 7 + l
    BY <1>8, <2>1
  <2>4. 8 <= z
    BY <1>5, <2>2, <2>3
  <2> QED
    BY <1>5, <2>2, <2>3, <2>4, SMTT(30)
<1>10. \A q \in L : q \in Int
  BY <1>1 DEF Looked
<1>11. \A q \in L : q <= r.at \/ p + 12 <= q
  <2> SUFFICES ASSUME NEW q \in L PROVE q <= r.at \/ p + 12 <= q
    OBVIOUS
  <2> HIDE DEF L
  <2>1. q \in Int /\ (q <= x \/ x + z <= q)
    BY <1>3, <1>4, <1>6, <1>10
  <2>2. q <= x \/ p + 12 <= q
    BY <1>5, <1>9, <2>1
  <2> QED
    BY <1>4, <2>2
<1> QED
  BY <1>3, <1>4, <1>5, <1>11

\* The walk does not look at them.
LEMMA LooksBeside ==
  ASSUME NEW f \in Seq(Bytes), NEW b \in Nat \ {0}, NEW n \in Nat, b + n - 1 <= Len(f),
         NEW w, IsWalk(w, f, b, n), NEW p \in Nat, Placed(w[Steps(n)].recs, p, b + n),
         NEW q \in Looked(w, b, Steps(n))
  PROVE  /\ q \in Nat /\ b <= q /\ q + 8 <= b + n - 1
         /\ q + 7 < p + 4 \/ p + 11 < q
<1> DEFINE m == Steps(n)
<1>1. m \in Nat
  BY DEF Steps
<1>2. m \in 0..m
  BY <1>1
<1>3. q \in Nat /\ b <= q /\ q + 8 <= b + n - 1
  BY <1>2, LookedPlace
<1>4. CASE b + n <= p + 4
  BY <1>3, <1>4
<1>5. CASE \E j \in 1..Len(w[m].recs) : Holds(w[m].recs[j], p)
  <2>1. PICK j \in 1..Len(w[m].recs) : Holds(w[m].recs[j], p)
    BY <1>5
  <2>2. PICK r : r = w[m].recs[j] /\ Holds(r, p)
    BY <2>1
  <2>3. r.at \in Nat /\ \A y \in Looked(w, b, m) : y <= r.at \/ p + 12 <= y
    BY <2>2, HolderFacts
  <2>4. PICK x \in Nat : x = r.at
    BY <2>3
  <2>5. x + 8 <= p + 4
    BY <2>2, <2>4 DEF Holds
  <2>6. q <= x \/ p + 12 <= q
    BY <2>3, <2>4
  <2> QED
    BY <1>3, <2>5, <2>6
<1> QED
  BY <1>4, <1>5 DEF Placed

\* What is at q depends on eight bytes.
LEMMA SameBytes ==
  ASSUME NEW d, NEW e, NEW q \in Nat, NEW end, \A i \in q..(q + 7) : e[i] = d[i]
  PROVE  SameAt(d, e, q, end)
<1>1. /\ e[q] = d[q] /\ e[q + 1] = d[q + 1] /\ e[q + 2] = d[q + 2]
      /\ e[q + 5] = d[q + 5] /\ e[q + 6] = d[q + 6] /\ e[q + 7] = d[q + 7]
  OBVIOUS
<1>2. q + 1 + 1 = q + 2 /\ q + 6 + 1 = q + 7
  OBVIOUS
<1>3. be16(e, q + 1) = be16(d, q + 1) /\ be16(e, q + 6) = be16(d, q + 6)
  BY <1>1, <1>2 DEF be16
<1> QED
  BY <1>1, <1>3 DEF SameAt, IsRecord

\* Two bytes put into the header.
LEMMA HeaderPut ==
  ASSUME NEW f \in Seq(Bytes), NEW b \in found(f), NEW c \in Bytes, NEW e \in Bytes
  PROVE  LET d == put(f, b + 6, 2, <<c, e>>)
         IN  /\ d[b + 6] = c /\ d[b + 7] = e
             /\ \A i \in 1..Len(f) : i \notin {b + 6, b + 7} => d[i] = f[i]
<1>1. b \in Nat /\ 1 <= b /\ b + 7 <= Len(f) /\ Len(f) \in Nat
  BY FoundFacts, LenProperties
<1>2. PICK x \in Nat, m \in Nat : x = b + 6 /\ m = 2
  BY <1>1
<1>3. x \in 1..(Len(f) + 1) /\ x + m - 1 <= Len(f)
  BY <1>1, <1>2
<1> DEFINE s == <<c, e>>
<1>4. s \in Seq(Bytes) /\ Len(s) = 2 /\ s[1] = c /\ s[2] = e
  OBVIOUS
<1> DEFINE d == put(f, x, m, s)
<1> HIDE DEF s
<1>5. \A i \in 1..Len(f) :
        d[i] = IF i \in x..(x + Len(s) - 1) THEN s[i - x + 1] ELSE f[i]
  <2>1. Len(slice(f, x, m)) = m
    BY <1>3, SliceFacts
  <2>2. x \in 1..(Len(f) + 1) /\ s \in Seq(Bytes) /\ Len(s) = Len(slice(f, x, m))
    BY <1>2, <1>3, <1>4, <2>1
  <2> QED
    BY <2>2, PutInPlace
<1> HIDE DEF d
<1>6. \A i \in 1..Len(f) : d[i] = IF i \in x..(x + 2 - 1) THEN s[i - x + 1] ELSE f[i]
  BY <1>4, <1>5
<1>7. d[b + 6] = c /\ d[b + 7] = e
  <2>1. PICK y \in Nat : y = x + 1 /\ y \in x..(x + 2 - 1)
    BY <1>1, <1>2
  <2>2. x \in 1..Len(f) /\ y \in 1..Len(f) /\ x \in x..(x + 2 - 1)
    BY <1>1, <1>2, <2>1
  <2>3. d[x] = s[x - x + 1] /\ d[y] = s[y - x + 1]
    BY <1>6, <2>1, <2>2
  <2>4. x - x + 1 = 1 /\ y - x + 1 = 2 /\ y = b + 7
    BY <1>1, <1>2, <2>1
  <2> QED
    BY <1>2, <1>4, <2>3, <2>4
<1>8. \A i \in 1..Len(f) : i \notin {b + 6, b + 7} => d[i] = f[i]
  BY <1>1, <1>2, <1>6
<1> QED
  BY <1>2, <1>7, <1>8 DEF d, s

\* No record begins in the header of what is written.
LEMMA NoHeaderRecord ==
  ASSUME NEW f \in Seq(Bytes), NEW b \in found(f), NEW n \in Nat, b + n - 1 <= Len(f),
         Plain(f, b, n), NEW e \in Seq(Bytes), Len(e) = Len(f),
         NEW q \in b..(b + 7), q + 8 <= b + n - 1,
         \A i \in q..(q + 7) : i \notin {b + 6, b + 7} => e[i] = f[i]
  PROVE  ~IsRecord(e, q, b + n)
<1>1. b \in Nat /\ 1 <= b /\ b + 7 <= Len(f) /\ Len(f) \in Nat /\ q \in Nat
  BY FoundFacts, LenProperties
<1>2. PICK u \in Bytes, v \in Bytes : u = e[b + 6] /\ v = e[b + 7]
  <2>1. b + 6 \in 1..Len(e) /\ b + 7 \in 1..Len(e)
    BY <1>1
  <2> QED
    BY <2>1, ElementOfSeq
<1>3. PICK d : d = put(f, b + 6, 2, <<u, v>>)
  OBVIOUS
<1>4. /\ d[b + 6] = u /\ d[b + 7] = v
      /\ \A i \in 1..Len(f) : i \notin {b + 6, b + 7} => d[i] = f[i]
  BY <1>3, HeaderPut
<1>5. \A i \in q..(q + 7) : e[i] = d[i]
  <2> SUFFICES ASSUME NEW i \in q..(q + 7) PROVE e[i] = d[i]
    OBVIOUS
  <2>1. CASE i \in {b + 6, b + 7}
    BY <1>2, <1>4, <2>1
  <2>2. CASE i \notin {b + 6, b + 7}
    <3>1. i \in 1..Len(f)
      BY <1>1
    <3> QED
      BY <1>4, <2>2, <3>1
  <2> QED
    BY <2>1, <2>2
<1>6. SameAt(d, e, q, b + n)
  BY <1>1, <1>5, SameBytes
<1>7. ~IsRecord(d, q, b + n)
  BY <1>3 DEF Plain
<1> QED
  BY <1>6, <1>7 DEF SameAt

\* e is f with other numbers at p and another checksum.
Edited(e, f, b, p) ==
  /\ e \in Seq(Bytes) /\ Len(e) = Len(f)
  /\ \A i \in 1..Len(f) : i \notin (p + 4)..(p + 11) \cup {b + 6, b + 7} => e[i] = f[i]

\* Wherever the walk looks, it finds the same.
LEMMA FindsSame ==
  ASSUME NEW f \in Seq(Bytes), NEW b \in found(f), NEW n \in Nat, b + n - 1 <= Len(f),
         Plain(f, b, n), NEW w, IsWalk(w, f, b, n),
         NEW p \in Nat, Placed(w[Steps(n)].recs, p, b + n), NEW e, Edited(e, f, b, p)
  PROVE  \A q \in Looked(w, b, Steps(n)) : SameAt(f, e, q, b + n)
<1>1. b \in Nat \ {0} /\ Len(f) \in Nat
  BY FoundFacts, LenProperties
<1>2. /\ e \in Seq(Bytes) /\ Len(e) = Len(f)
      /\ \A i \in 1..Len(f) : i \notin (p + 4)..(p + 11) \cup {b + 6, b + 7} => e[i] = f[i]
  BY DEF Edited
<1> SUFFICES ASSUME NEW q \in Looked(w, b, Steps(n)) PROVE SameAt(f, e, q, b + n)
  OBVIOUS
<1>3. /\ q \in Nat /\ b <= q /\ q + 8 <= b + n - 1
      /\ q + 7 < p + 4 \/ p + 11 < q
  BY <1>1, LooksBeside
<1>4. \A i \in q..(q + 7) : i \notin {b + 6, b + 7} => e[i] = f[i]
  <2> SUFFICES ASSUME NEW i \in q..(q + 7), i \notin {b + 6, b + 7} PROVE e[i] = f[i]
    OBVIOUS
  <2>1. i \in 1..Len(f) /\ i \notin (p + 4)..(p + 11)
    BY <1>1, <1>3
  <2> QED
    BY <1>2, <2>1
<1>5. CASE b + 8 <= q
  <2>1. \A i \in q..(q + 7) : i \notin {b + 6, b + 7}
    BY <1>1, <1>3, <1>5
  <2>2. \A i \in q..(q + 7) : e[i] = f[i]
    BY <1>4, <2>1
  <2> QED
    BY <1>3, <2>2, SameBytes
<1>6. CASE q < b + 8
  <2>1. q \in b..(b + 7)
    BY <1>1, <1>3, <1>6
  <2>2. ~IsRecord(e, q, b + n)
    BY <1>2, <1>3, <1>4, <2>1, NoHeaderRecord
  <2>3. ~IsRecord(f, q, b + n)
    BY <1>3, <2>1, NoHeaderRecord
  <2> QED
    BY <2>2, <2>3 DEF SameAt
<1> QED
  BY <1>1, <1>3, <1>5, <1>6

\* A record that differs is the one with the numbers.
LEMMA ChangedRecord ==
  ASSUME NEW f \in Seq(Bytes), NEW b \in found(f), NEW n \in Nat, b + n - 1 <= Len(f),
         NEW w, IsWalk(w, f, b, n), NEW p \in Nat, Placed(w[Steps(n)].recs, p, b + n),
         NEW e, Edited(e, f, b, p),
         NEW x \in Looked(w, b, Steps(n)), IsRecord(f, x, b + n), SameAt(f, e, x, b + n),
         RecordAt(e, x).body # RecordAt(f, x).body,
         \A q \in Looked(w, b, Steps(n)) : q <= x \/ x + be16(f, x + 1) <= q
  PROVE  p \in x..(x + 7 + Len(RecordAt(f, x).body))
<1>1. b \in Nat \ {0} /\ Len(f) \in Nat /\ b + n \in Nat /\ b + n <= Len(f) + 1
  BY FoundFacts, LenProperties
<1>2. /\ e \in Seq(Bytes) /\ Len(e) = Len(f)
      /\ \A i \in 1..Len(f) : i \notin (p + 4)..(p + 11) \cup {b + 6, b + 7} => e[i] = f[i]
  BY DEF Edited
<1>3. x \in Nat \ {0} /\ b <= x /\ x + 8 <= (b + n) - 1
  BY <1>1, LooksBeside
<1> DEFINE s == RecordAt(f, x).body
           t == RecordAt(e, x).body
<1>4. PICK z \in Nat : z = be16(f, x + 1) /\ x + z <= b + n
  BY <1>1, <1>3, RecordFacts
<1>5. /\ s \in Seq(Bytes) /\ Len(s) = (IF 8 <= z THEN z - 8 ELSE 0)
      /\ \A i \in 1..Len(s) : s[i] = f[x + 8 + i - 1]
  BY <1>1, <1>3, <1>4, RecordFacts
<1>6. IsRecord(e, x, b + n) /\ be16(e, x + 1) = z
  BY <1>4 DEF SameAt
<1>7. /\ t \in Seq(Bytes) /\ Len(t) = (IF 8 <= z THEN z - 8 ELSE 0)
      /\ \A i \in 1..Len(t) : t[i] = e[x + 8 + i - 1]
  BY <1>1, <1>2, <1>3, <1>6, RecordFacts
<1> HIDE DEF s, t
<1>8. PICK l \in Nat : l = Len(s) /\ l = Len(t) /\ (l # 0 => x + 8 + l = x + z)
  <2>1. CASE 8 <= z
    <3>1. PICK l \in Nat : l = z - 8 /\ x + 8 + l = x + z
      BY <1>3, <2>1
    <3>2. l = Len(s) /\ l = Len(t)
      BY <1>5, <1>7, <2>1, <3>1
    <3> QED
      BY <3>1, <3>2
  <2>2. CASE ~(8 <= z)
    <3>1. 0 = Len(s) /\ 0 = Len(t)
      BY <1>5, <1>7, <2>2
    <3> QED
      BY <3>1
  <2> QED
    BY <2>1, <2>2
<1>9. PICK i \in 1..l : t[i] # s[i]
  BY <1>5, <1>7, <1>8, SeqEqual DEF s, t
<1>10. PICK y \in Nat : y = x + 8 + i - 1 /\ f[y] # e[y]
  <2>1. s[i] = f[x + 8 + i - 1] /\ t[i] = e[x + 8 + i - 1]
    BY <1>5, <1>7, <1>8, <1>9
  <2>2. PICK y \in Nat : y = x + 8 + i - 1
    BY <1>3
  <2> QED
    BY <1>9, <2>1, <2>2
<1>11. x + 8 <= y /\ y < x + z /\ y < b + n /\ y \in 1..Len(f)
  <2>1. x + 8 + l = x + z
    BY <1>8, <1>9
  <2>2. x + 8 <= y /\ y < x + 8 + l
    BY <1>3, <1>9, <1>10
  <2>3. y < x + z /\ y < b + n
    BY <1>1, <1>3, <1>4, <2>1, <2>2
  <2> QED
    BY <1>1, <1>3, <2>2, <2>3
<1>12. p + 4 <= y /\ y <= p + 11
  <2>1. y \notin {b + 6, b + 7}
    BY <1>1, <1>3, <1>11
  <2>2. y \in (p + 4)..(p + 11)
    BY <1>2, <1>10, <1>11, <2>1
  <2> QED
    BY <2>2
<1>13. PICK j \in 1..Len(w[Steps(n)].recs) : Holds(w[Steps(n)].recs[j], p)
  <2>1. ~(b + n <= p + 4)
    BY <1>1, <1>11, <1>12
  <2> QED
    BY <2>1 DEF Placed
<1>14. PICK r : r = w[Steps(n)].recs[j] /\ Holds(r, p)
  BY <1>13
<1>15. /\ r = RecordAt(f, r.at) /\ r.at \in Looked(w, b, Steps(n)) /\ r.at \in Nat
       /\ \A q \in Looked(w, b, Steps(n)) : q <= r.at \/ p + 12 <= q
  BY <1>1, <1>14, HolderFacts
<1>16. PICK a \in Nat : a = r.at /\ a + 8 <= p + 4
  BY <1>14, <1>15 DEF Holds
<1>17. x <= a \/ p + 12 <= x
  BY <1>15, <1>16
<1>18. a <= x \/ x + z <= a
  BY <1>4, <1>15, <1>16
<1>19. a = x
  <2>1. ~(p + 12 <= x)
    BY <1>3, <1>11, <1>12
  <2>2. ~(x + z <= a)
    BY <1>3, <1>4, <1>11, <1>12, <1>16, SMTT(30)
  <2> QED
    BY <1>3, <1>16, <1>17, <1>18, <2>1, <2>2
<1>20. p + 11 <= x + 7 + Len(r.body) /\ r.body = s
  BY <1>14, <1>15, <1>16, <1>19 DEF Holds, s
<1>21. p \in x..(x + 7 + l)
  <2>1. p + 11 <= x + 7 + l
    BY <1>8, <1>20
  <2>2. x + 8 <= p + 4
    BY <1>16, <1>19
  <2> QED
    BY <1>3, <2>1, <2>2
<1> QED
  BY <1>8, <1>21 DEF s

\* The comparison of f with what is written.
LEMMA ComparedByRecords ==
  ASSUME NEW f \in Seq(Bytes), NEW b \in found(f), NEW n \in Nat, b + n - 1 <= Len(f),
         Plain(f, b, n), NEW p \in Nat, Placed(parse_records(f, b, n), p, b + n),
         NEW e, Edited(e, f, b, p)
  PROVE  LET r == parse_records(f, b, n)
             s == parse_records(e, b, n)
         IN  /\ only(r, s) = {} /\ only(s, r) = {}
             /\ \A pair \in differing(r, s) :
                  p \in pair[1].at..(pair[1].at + 7 + Len(pair[1].body))
<1>1. b \in Nat \ {0} /\ e \in Seq(Bytes) /\ Len(e) = Len(f) /\ b + n - 1 <= Len(e)
  BY FoundFacts DEF Edited
<1> DEFINE m == Steps(n)
           R == [at : Nat, id : Bytes, body : Seq(Bytes)]
<1>2. PICK w : IsWalk(w, f, b, n) /\ parse_records(f, b, n) = w[m].recs
  BY <1>1, WalkExists
<1>3. PICK g : IsWalk(g, e, b, n) /\ parse_records(e, b, n) = g[m].recs
  BY <1>1, WalkExists
<1>4. PICK r, s : r = w[m].recs /\ s = g[m].recs
  OBVIOUS
<1>5. m \in 0..m
  BY DEF Steps
<1>6. r \in Seq(R) /\ s \in Seq(R)
  BY <1>2, <1>3, <1>4, <1>5 DEF IsWalk, WalkStates
<1>7. \A q \in Looked(w, b, m) : SameAt(f, e, q, b + n)
  BY <1>2, FindsSame
<1>8. Matched(r, s)
  BY <1>1, <1>2, <1>3, <1>4, <1>5, <1>7, WalksAlike
<1>9. Known(r, f, b + n, w[m].pos, Looked(w, b, m))
  BY <1>1, <1>2, <1>4, <1>5, WalkKnown
<1>10. Known(s, e, b + n, g[m].pos, Looked(g, b, m))
  BY <1>1, <1>3, <1>4, <1>5, WalkKnown
<1>11. /\ only(r, s) = {} /\ only(s, r) = {}
       /\ \A pair \in differing(r, s) :
            \E j \in 1..Len(r) : pair = <<r[j], s[j]>> /\ r[j].body # s[j].body
  BY <1>6, <1>8, DifferingPairs
<1>12. ASSUME NEW j \in 1..Len(r), r[j].body # s[j].body
       PROVE  p \in r[j].at..(r[j].at + 7 + Len(r[j].body))
  <2>1. PICK x : x = r[j].at
    OBVIOUS
  <2>2. /\ r[j] = RecordAt(f, x) /\ IsRecord(f, x, b + n) /\ x \in Looked(w, b, m)
        /\ \A q \in Looked(w, b, m) : q <= x \/ x + be16(f, x + 1) <= q
    BY <1>9, <2>1 DEF Known
  <2>3. s[j] = RecordAt(e, x)
    BY <1>8, <1>10, <2>1 DEF Known, Matched
  <2>4. RecordAt(e, x).body # RecordAt(f, x).body /\ SameAt(f, e, x, b + n)
    BY <1>7, <1>12, <2>2, <2>3
  <2>5. p \in x..(x + 7 + Len(RecordAt(f, x).body))
    BY <1>2, <2>2, <2>4, ChangedRecord
  <2> QED
    BY <2>1, <2>2, <2>5
<1>13. ASSUME NEW pair \in differing(r, s)
       PROVE  p \in pair[1].at..(pair[1].at + 7 + Len(pair[1].body))
  <2>1. PICK j \in 1..Len(r) : pair = <<r[j], s[j]>> /\ r[j].body # s[j].body
    BY <1>11
  <2>2. pair[1] = r[j]
    BY <2>1
  <2> QED
    BY <1>12, <2>1, <2>2
<1> QED
  BY <1>2, <1>3, <1>4, <1>11, <1>13

(***************************************************************************)
(* When the numbers of the descriptor are in the payload of a record, or   *)
(* behind the block, and no checksum makes a record of the header: the     *)
(* walk of parse_records finds the same records in what is written, and at *)
(* most the one with the descriptor differs.                               *)
(***************************************************************************)
THEOREM RecordsStay ==
  ASSUME \A f \in Dumps : WellPlaced(f) /\ PlainHeader(f) /\ Recorded(f)
  PROVE  Spec => []RecordsKept
<1>1. IInv /\ Second => RecordsKept
  <2> DEFINE r == parse_records(infile, base, length)
             s == parse_records(outfile, base, length)
  <2> SUFFICES ASSUME IInv, Second, pc = "written", base + length - 1 <= Len(infile)
               PROVE  /\ only(r, s) = {} /\ only(s, r) = {}
                      /\ \A pair \in differing(r, s) :
                           \E p \in lowest(Descriptors(infile)) :
                             p \in pair[1].at..(pair[1].at + 7 + Len(pair[1].body))
    BY DEF RecordsKept
  <2>1. /\ infile \in Seq(Bytes) /\ length \in Nat /\ runs \in 1..2
        /\ base \in found(infile) /\ length = le16(infile, base + 4)
    BY WordPositive DEF IInv, TypeOK, Located
  <2>2. CASE runs = 1
    <3>1. WellPlaced(infile) /\ PlainHeader(infile) /\ Recorded(infile)
      BY <2>2 DEF Second
    <3>2. PICK p, g : Patched(g, infile, p) /\ Sealed(outfile, g, base, length)
      BY DEF IInv, Progress, Finished
    <3>3. p \in Nat /\ Edited(outfile, infile, base, p)
      BY <2>1, <3>1, <3>2, FinishedBytes DEF WellPlaced, Edited
    <3>4. p \in lowest(Descriptors(infile))
      BY <3>2 DEF Patched
    <3>5. Plain(infile, base, length)
      BY <2>1, <3>1 DEF PlainHeader
    <3>6. Placed(r, p, base + length)
      BY <2>1, <3>1, <3>4 DEF Recorded
    <3>7. /\ only(r, s) = {} /\ only(s, r) = {}
          /\ \A pair \in differing(r, s) :
               p \in pair[1].at..(pair[1].at + 7 + Len(pair[1].body))
      BY <2>1, <3>3, <3>5, <3>6, ComparedByRecords
    <3> HIDE DEF r, s
    <3> QED
      BY <3>4, <3>7
  <2>3. CASE runs = 2
    <3>1. s = r
      BY <2>3 DEF Second
    <3> DEFINE R == [at : Nat, id : Bytes, body : Seq(Bytes)]
    <3>2. base \in Nat \ {0}
      BY <2>1, FoundFacts
    <3>3. PICK w : IsWalk(w, infile, base, length) /\ r = w[Steps(length)].recs
      BY <2>1, <3>2, WalkExists
    <3>4. r \in Seq(R)
      <4>1. Steps(length) \in 0..Steps(length)
        BY <2>1 DEF Steps
      <4> HIDE DEF r
      <4> QED
        BY <3>3, <4>1 DEF IsWalk, WalkStates
    <3> HIDE DEF r, s, R
    <3>5. Matched(r, r)
      BY DEF Matched
    <3>6. /\ only(r, r) = {}
          /\ \A pair \in differing(r, r) :
               \E j \in 1..Len(r) : pair = <<r[j], r[j]>> /\ r[j].body # r[j].body
      BY <3>4, <3>5, DifferingPairs
    <3> QED
      BY <3>1, <3>6
  <2> QED
    BY <2>1, <2>2, <2>3
<1>2. \A f \in Dumps : WellPlaced(f)
  OBVIOUS
<1>3. Spec => []Second
  BY <1>2, SecondInvariance
<1> QED
  BY <1>1, <1>3, Invariance, PTL
=============================================================================
