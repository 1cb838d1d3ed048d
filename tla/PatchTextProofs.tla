-------------------------- MODULE PatchTextProofs --------------------------
(***************************************************************************)
(* The reading of text, for every patch and every source: the hunks and    *)
(* runs that are read, and the insertion of a piece, where the scanner,    *)
(* which goes a character at a time, is shown to be at a character of a    *)
(* token, with the braces of the tokens before it counted.                 *)
(***************************************************************************)
EXTENDS PatchText, CommonFacts, SequenceTheorems, FiniteSetTheorems

-----------------------------------------------------------------------------
(***************************************************************************)
(* Sequences of sequences.                                                 *)
(***************************************************************************)
\* g[n] is what the first n sequences of q make.
IsFlat(g, q, S) ==
  /\ g \in [0..Len(q) -> Seq(S)]
  /\ g[0] = <<>>
  /\ \A k \in 1..Len(q) : g[k] = g[k - 1] \o q[k]

\* A sequence of sequences has a flattening.
LEMMA FlatExists ==
  ASSUME NEW S, NEW q \in Seq(Seq(S))
  PROVE  \E g : IsFlat(g, q, S)
<1> DEFINE n == Len(q)
           step == [x \in Seq(S) \X (1..n) |-> x[1] \o q[x[2]]]
<1>1. n \in Nat /\ <<>> \in Seq(S)
  BY LenProperties, EmptySeq
<1>2. step \in [Seq(S) \X (1..n) -> Seq(S)]
  <2>1. ASSUME NEW r \in Seq(S), NEW k \in 1..n
        PROVE  r \o q[k] \in Seq(S)
    <3>1. q[k] \in Seq(S)
      BY ElementOfSeq
    <3> QED
      BY <3>1, ConcatProperties
  <2> QED
    BY <2>1
<1>3. PICK f \in [0..n -> Seq(S)] : IsRun(f, <<>>, n, step)
  <2> HIDE DEF n, step
  <2> QED
    BY <1>1, <1>2, Iteration
<1>4. ASSUME NEW k \in 1..n
      PROVE  f[k] = f[k - 1] \o q[k]
  <2>1. k - 1 \in 0..n
    BY <1>1
  <2>2. f[k - 1] \in Seq(S)
    BY <2>1
  <2>3. f[k] = step[<<f[k - 1], k>>]
    BY <1>3 DEF IsRun
  <2> QED
    BY <2>2, <2>3
<1> QED
  BY <1>3, <1>4 DEF IsFlat, IsRun

\* Whatever has this form is what FlattenSeq computes.
LEMMA FlatIs ==
  ASSUME NEW S, NEW q \in Seq(Seq(S)), NEW g, IsFlat(g, q, S)
  PROVE  FlattenSeq(q) = g[Len(q)] /\ FlattenSeq(q) \in Seq(S)
<1> DEFINE n == Len(q)
<1>1. n \in Nat /\ g \in [0..n -> Seq(S)] /\ g[0] = <<>>
      /\ \A k \in 1..n : g[k] = g[k - 1] \o q[k]
  BY LenProperties DEF IsFlat
<1>2. g[n] \in Seq(S)
  BY <1>1
<1>3. CASE n = 0
  <2>1. q = <<>>
    BY <1>3, EmptySeq
  <2> QED
    BY <1>1, <1>2, <1>3, <2>1 DEF FlattenSeq
<1>4. CASE n # 0
  <2> DEFINE Flat(f) == f = [k \in 1..n |-> IF k = 1 THEN q[k] ELSE f[k - 1] \o q[k]]
             h == [k \in 1..n |-> g[k]]
             c == CHOOSE f : Flat(f)
  <2>1. Flat(h)
    <3>1. ASSUME NEW k \in 1..n
          PROVE  g[k] = IF k = 1 THEN q[k] ELSE h[k - 1] \o q[k]
      <4>1. CASE k = 1
        <5>1. q[k] \in Seq(S)
          BY ElementOfSeq
        <5>2. g[k] = <<>> \o q[k]
          <6>1. g[k] = g[k - 1] \o q[k]
            BY <1>1, Zenon
          <6>2. k - 1 = 0
            BY <4>1
          <6> QED
            BY <1>1, <6>1, <6>2, Zenon
        <5> QED
          BY <4>1, <5>1, <5>2, ConcatEmptySeq
      <4>2. CASE k # 1
        <5>1. k - 1 \in 1..n
          BY <1>1, <4>2
        <5> QED
          BY <1>1, <4>2, <5>1
      <4> QED
        BY <4>1, <4>2
    <3> QED
      BY <3>1
  <2>2. Flat(c)
    <3> HIDE DEF h
    <3>1. \E f : Flat(f)
      BY <2>1
    <3> QED
      BY <3>1, Zenon
  <2> HIDE DEF c
  <2> DEFINE T == {k \in Nat : k \in 1..n => c[k] = g[k]}
  <2>3. 0 \in T
    OBVIOUS
  <2>4. ASSUME NEW k \in Nat, k \in T
        PROVE  k + 1 \in T
    <3> SUFFICES ASSUME k + 1 \in 1..n PROVE c[k + 1] = g[k + 1]
      OBVIOUS
    <3>1. c[k + 1] = IF k + 1 = 1 THEN q[k + 1] ELSE c[(k + 1) - 1] \o q[k + 1]
      BY <2>2
    <3>2. h[k + 1] = IF k + 1 = 1 THEN q[k + 1] ELSE h[(k + 1) - 1] \o q[k + 1]
      <4> HIDE DEF h
      <4> QED
        BY <2>1
    <3>3. k + 1 # 1 => c[k] = h[k] /\ (k + 1) - 1 = k
      BY <1>1, <2>4
    <3> QED
      BY <3>1, <3>2, <3>3
  <2>5. n \in T
    <3> HIDE DEF T
    <3>1. Nat \subseteq T
      BY <2>3, <2>4, NatSetInduction
    <3> QED
      BY <1>1, <3>1
  <2>6. c[n] = g[n]
    BY <1>1, <1>4, <2>5
  <2>7. FlattenSeq(q) = c[n]
    BY <1>4 DEF FlattenSeq, c
  <2> QED
    BY <1>2, <2>6, <2>7
<1> QED
  BY <1>3, <1>4

-----------------------------------------------------------------------------
(***************************************************************************)
(* The hunks of a patch.                                                   *)
(***************************************************************************)
HunkLines == {"+", "-", " "}
Readers == [in_file : BOOLEAN, in_hunk : BOOLEAN, hunks : Seq(Seq(HunkLines))]

\* The loop of parse_file_hunks takes s over these lines to t.
Reads(s, lines, t) ==
  \E f \in [0..Len(lines) -> Readers] :
    /\ f[0] = s /\ f[Len(lines)] = t
    /\ \A k \in 1..Len(lines) : f[k] = in_file_line(f[k - 1], lines[k])

Opening == [in_file |-> FALSE, in_hunk |-> FALSE, hunks |-> <<>>]

\* From the beginning, that is what the function computes.
LEMMA ReadsWhole ==
  ASSUME NEW lines \in Seq(Lines), NEW t, Reads(Opening, lines, t)
  PROVE  parse_file_hunks(lines) = t.hunks
<1> DEFINE n == Len(lines)
           Loop(f) == f = [k \in 0..n |->
              IF k = 0 THEN Opening ELSE in_file_line(f[k - 1], lines[k])]
           c == CHOOSE f : Loop(f)
<1>1. n \in Nat
  BY LenProperties
<1>2. PICK g \in [0..n -> Readers] :
        /\ g[0] = Opening /\ g[n] = t
        /\ \A k \in 1..n : g[k] = in_file_line(g[k - 1], lines[k])
  BY DEF Reads
<1>3. parse_file_hunks(lines) = c[n].hunks
  BY DEF parse_file_hunks, Opening
<1> HIDE DEF n
<1>4. Loop(g)
  <2>1. ASSUME NEW k \in 0..n
        PROVE  g[k] = IF k = 0 THEN Opening ELSE in_file_line(g[k - 1], lines[k])
    <3>1. CASE k = 0
      BY <1>2, <3>1
    <3>2. CASE k # 0
      <4>1. k \in 1..n
        BY <1>1, <3>2
      <4> QED
        BY <1>2, <3>2, <4>1
    <3> QED
      BY <3>1, <3>2
  <2>2. g = [k \in 0..n |-> g[k]]
    OBVIOUS
  <2> QED
    BY <2>1, <2>2
<1>5. Loop(c)
  <2>1. \E f : Loop(f)
    BY <1>4
  <2> QED
    BY <2>1, Zenon
<1> HIDE DEF c
<1> DEFINE T == {k \in Nat : k <= n => c[k] = g[k]}
<1>6. 0 \in T
  <2>1. 0 \in 0..n
    BY <1>1
  <2> QED
    BY <1>2, <1>5, <2>1
<1>7. ASSUME NEW k \in Nat, k \in T
      PROVE  k + 1 \in T
  <2> SUFFICES ASSUME k + 1 <= n PROVE c[k + 1] = g[k + 1]
    OBVIOUS
  <2>1. PICK j \in 1..n : j = k + 1 /\ j - 1 = k /\ j \in 0..n /\ j # 0
    BY <1>1
  <2>2. c[j] = in_file_line(c[j - 1], lines[j])
    BY <1>5, <2>1
  <2>3. g[j] = in_file_line(g[j - 1], lines[j])
    BY <1>2, <2>1
  <2>4. c[k] = g[k]
    BY <1>1, <1>7
  <2> QED
    BY <2>1, <2>2, <2>3, <2>4
<1>8. c[n] = g[n]
  <2> HIDE DEF T
  <2>1. Nat \subseteq T
    BY <1>6, <1>7, NatSetInduction
  <2>2. n \in T
    BY <1>1, <2>1
  <2> QED
    BY <1>1, <2>2 DEF T
<1> QED
  BY <1>2, <1>3, <1>8

\* One text after another.
LEMMA ReadsBoth ==
  ASSUME NEW a \in Seq(Lines), NEW b \in Seq(Lines), NEW s, NEW t, NEW u,
         Reads(s, a, t), Reads(t, b, u)
  PROVE  Reads(s, a \o b, u)
<1> DEFINE m == Len(a)
           n == Len(b)
           ab == a \o b
<1>1. m \in Nat /\ n \in Nat
  BY LenProperties
<1>2. PICK f \in [0..m -> Readers] :
        /\ f[0] = s /\ f[m] = t
        /\ \A k \in 1..m : f[k] = in_file_line(f[k - 1], a[k])
  BY DEF Reads
<1>3. PICK g \in [0..n -> Readers] :
        /\ g[0] = t /\ g[n] = u
        /\ \A k \in 1..n : g[k] = in_file_line(g[k - 1], b[k])
  BY DEF Reads
<1>4. /\ Len(ab) = m + n
      /\ \A k \in 1..m : ab[k] = a[k]
      /\ \A k \in 1..n : ab[m + k] = b[k]
  <2>1. ab \in Seq(Lines) /\ Len(ab) = m + n
        /\ \A i_1 \in 1..(m + n) : ab[i_1] = IF i_1 <= m THEN a[i_1] ELSE b[i_1 - m]
    BY ConcatProperties
  <2>2. ASSUME NEW k \in 1..m PROVE ab[k] = a[k]
    <3>1. k \in 1..(m + n) /\ k <= m
      BY <1>1
    <3> QED
      BY <2>1, <3>1
  <2>3. ASSUME NEW k \in 1..n PROVE ab[m + k] = b[k]
    <3>1. m + k \in 1..(m + n) /\ ~(m + k <= m) /\ (m + k) - m = k
      BY <1>1
    <3> QED
      BY <2>1, <3>1
  <2> QED
    BY <2>1, <2>2, <2>3
<1> DEFINE h == [k \in 0..(m + n) |-> IF k <= m THEN f[k] ELSE g[k - m]]
<1> HIDE DEF m, n, ab
<1>5. h \in [0..(m + n) -> Readers]
  <2>1. ASSUME NEW k \in 0..(m + n)
        PROVE  (IF k <= m THEN f[k] ELSE g[k - m]) \in Readers
    <3>1. CASE k <= m
      <4>1. k \in 0..m
        BY <1>1, <3>1
      <4> QED
        BY <3>1, <4>1
    <3>2. CASE ~(k <= m)
      <4>1. k - m \in 0..n
        BY <1>1, <3>2
      <4> QED
        BY <3>2, <4>1
    <3> QED
      BY <3>1, <3>2
  <2> QED
    BY <2>1
<1>6. h[0] = s /\ h[m + n] = u
  <2>1. h[0] = s
    BY <1>1, <1>2
  <2>2. CASE n = 0
    BY <1>1, <1>2, <1>3, <2>2
  <2>3. CASE n # 0
    <3>1. m + n \in 0..(m + n) /\ ~(m + n <= m) /\ (m + n) - m = n
      BY <1>1, <2>3
    <3> QED
      BY <1>3, <2>1, <3>1
  <2> QED
    BY <2>1, <2>2, <2>3
<1>7. ASSUME NEW k \in 1..(m + n)
      PROVE  h[k] = in_file_line(h[k - 1], ab[k])
  <2>1. k \in 0..(m + n) /\ k - 1 \in 0..(m + n)
    BY <1>1
  <2>2. CASE k <= m
    <3>1. k \in 1..m /\ k - 1 <= m
      BY <1>1, <2>2
    <3>2. h[k] = f[k] /\ h[k - 1] = f[k - 1]
      BY <2>1, <2>2, <3>1
    <3> HIDE DEF h
    <3> QED
      BY <1>2, <1>4, <3>1, <3>2
  <2>3. CASE ~(k <= m)
    <3>1. PICK j \in 1..n : k = m + j /\ k - m = j
      <4>1. k - m \in 1..n /\ k = m + (k - m)
        BY <1>1, <2>3
      <4> QED
        BY <4>1
    <3>2. h[k] = g[j]
      BY <2>1, <2>3, <3>1
    <3>3. h[k - 1] = g[j - 1]
      <4>1. CASE j = 1
        <5>1. k - 1 = m /\ j - 1 = 0
          BY <1>1, <3>1, <4>1
        <5> QED
          BY <1>1, <1>2, <1>3, <2>1, <5>1
      <4>2. CASE j # 1
        <5>1. ~(k - 1 <= m) /\ (k - 1) - m = j - 1
          BY <1>1, <3>1, <4>2
        <5> QED
          BY <2>1, <5>1
      <4> QED
        BY <4>1, <4>2
    <3>4. ab[k] = b[j]
      BY <1>4, <3>1
    <3> HIDE DEF h
    <3> QED
      BY <1>3, <3>2, <3>3, <3>4
  <2> QED
    BY <2>2, <2>3
<1>8. Len(ab) = m + n
  BY <1>4
<1> HIDE DEF h
<1> QED
  BY <1>5, <1>6, <1>7, <1>8 DEF Reads, ab

\* A line that begins a file, and the one after it.
LEMMA ReadsHeader ==
  ASSUME NEW s \in Readers, NEW w \in BOOLEAN
  PROVE  Reads(s, <<IF w THEN "--- a/sd.c" ELSE "--- a/other", "+++">>,
               [in_file |-> w, in_hunk |-> FALSE, hunks |-> s.hunks])
<1> DEFINE lines == <<IF w THEN "--- a/sd.c" ELSE "--- a/other", "+++">>
           t == [in_file |-> w, in_hunk |-> FALSE, hunks |-> s.hunks]
           f == [k \in 0..2 |-> IF k = 0 THEN s ELSE t]
<1>1. t \in Readers
  BY DEF Readers
<1>2. in_file_line(s, lines[1]) = t
  BY DEF in_file_line, Readers
<1>3. in_file_line(t, lines[2]) = t
  BY DEF in_file_line
<1> HIDE DEF t
<1>4. f \in [0..2 -> Readers] /\ f[0] = s /\ f[1] = t /\ f[2] = t
  BY <1>1
<1>5. Len(lines) = 2
  OBVIOUS
<1> HIDE DEF f, lines
<1>6. \A k \in 1..2 : f[k] = in_file_line(f[k - 1], lines[k])
  <2>1. f[1] = in_file_line(f[1 - 1], lines[1])
    BY <1>2, <1>4
  <2>2. f[2] = in_file_line(f[2 - 1], lines[2])
    BY <1>3, <1>4
  <2> QED
    BY <2>1, <2>2
<1> QED
  BY <1>4, <1>5, <1>6 DEF Reads, t, lines

\* A function of 1..n is a sequence.
LEMMA FunctionIsSeq ==
  ASSUME NEW S, NEW n \in Nat, NEW f \in [1..n -> S]
  PROVE  f \in Seq(S) /\ Len(f) = n
  OBVIOUS

\* One more element of a sequence that is appended.
LEMMA AppendedPrefix ==
  ASSUME NEW S, NEW r \in Seq(S), NEW q \in Seq(S), NEW j \in 1..Len(q)
  PROVE  r \o SubSeq(q, 1, j) = Append(r \o SubSeq(q, 1, j - 1), q[j])
<1>1. Len(q) \in Nat /\ \A k \in 1..Len(q) : q[k] \in S
  BY LenProperties, ElementOfSeq
<1> DEFINE a == SubSeq(q, 1, j - 1)
<1>2. a \in Seq(S)
  BY <1>1, SubSeqProperties
<1>3. SubSeq(q, 1, j) = a \o <<q[j]>>
  BY <1>1, SubSeqRecursiveSecond
<1> HIDE DEF a
<1>4. <<q[j]>> \in Seq(S)
  BY <1>1
<1>5. r \o (a \o <<q[j]>>) = (r \o a) \o <<q[j]>>
  BY <1>2, <1>4, ConcatAssociative
<1>6. r \o a \in Seq(S)
  BY <1>2, ConcatProperties
<1>7. (r \o a) \o <<q[j]>> = Append(r \o a, q[j])
  BY <1>1, <1>6, AppendIsConcat
<1> QED
  BY <1>3, <1>5, <1>7 DEF a

\* Another last element.
LEMMA LastReplaced ==
  ASSUME NEW S, NEW H \in Seq(S), NEW a \in S, NEW b \in S
  PROVE  [Append(H, a) EXCEPT ![Len(H) + 1] = b] = Append(H, b)
<1> DEFINE A == Append(H, a)
           B == Append(H, b)
           n == Len(H)
           E == [A EXCEPT ![n + 1] = b]
<1>1. /\ n \in Nat /\ A \in Seq(S) /\ Len(A) = n + 1
      /\ \A k \in 1..n : A[k] = H[k]
  BY LenProperties, AppendProperties
<1>2. /\ B \in Seq(S) /\ Len(B) = n + 1 /\ B[n + 1] = b
      /\ \A k \in 1..n : B[k] = H[k]
  BY LenProperties, AppendProperties
<1> HIDE DEF A, B, n
<1>3. /\ E \in Seq(S) /\ Len(E) = n + 1
      /\ \A k \in 1..(n + 1) : E[k] = IF k = n + 1 THEN b ELSE A[k]
  BY <1>1, ExceptSeq
<1> HIDE DEF E
<1>4. \A k \in 1..(n + 1) : E[k] = B[k]
  <2> SUFFICES ASSUME NEW k \in 1..(n + 1) PROVE E[k] = B[k]
    OBVIOUS
  <2>1. k = n + 1 \/ k \in 1..n
    BY <1>1
  <2>2. k \in 1..n => k # n + 1
    BY <1>1
  <2> QED
    BY <1>1, <1>2, <1>3, <2>1, <2>2
<1>5. E = B
  BY <1>2, <1>3, <1>4, SeqEqual
<1> QED
  BY <1>5 DEF A, B, n, E

\* A hunk of the wanted file.
LEMMA ReadsHunk ==
  ASSUME NEW s \in Readers, s.in_file, NEW h \in Seq(HunkLines)
  PROVE  Reads(s, <<"@@">> \o h,
               [in_file |-> TRUE, in_hunk |-> TRUE, hunks |-> Append(s.hunks, h)])
<1> DEFINE n == Len(h)
           lines == <<"@@">> \o h
           after(k) == [in_file |-> TRUE, in_hunk |-> TRUE,
                        hunks |-> Append(s.hunks, SubSeq(h, 1, k))]
           f == [k \in 0..(n + 1) |-> IF k = 0 THEN s ELSE after(k - 1)]
<1>1. n \in Nat /\ s.hunks \in Seq(Seq(HunkLines))
  BY LenProperties DEF Readers
<1>2. /\ Len(lines) = n + 1 /\ lines[1] = "@@"
      /\ \A k \in 1..n : lines[k + 1] = h[k]
  BY <1>1
<1>3. ASSUME NEW k \in 0..n
      PROVE  /\ SubSeq(h, 1, k) \in Seq(HunkLines) /\ after(k) \in Readers
  <2>1. SubSeq(h, 1, k) \in Seq(HunkLines)
    BY <1>1, SubSeqProperties
  <2>2. Append(s.hunks, SubSeq(h, 1, k)) \in Seq(Seq(HunkLines))
    BY <1>1, <2>1, AppendProperties
  <2> QED
    BY <2>1, <2>2 DEF Readers
<1>4. in_file_line(s, "@@") = after(0)
  <2>1. SubSeq(h, 1, 0) = <<>>
    BY SubSeqEmpty
  <2> QED
    BY <2>1 DEF in_file_line, Readers
<1>5. ASSUME NEW k \in 1..n
      PROVE  in_file_line(after(k - 1), h[k]) = after(k)
  <2>1. h[k] \in HunkLines
    BY ElementOfSeq
  <2> DEFINE a == SubSeq(h, 1, k - 1)
             H == Append(s.hunks, a)
  <2>2. k - 1 \in 0..n
    BY <1>1
  <2>3. a \in Seq(HunkLines)
    BY <1>3, <2>2
  <2>4. Append(a, h[k]) = SubSeq(h, 1, k)
    BY <1>1
  <2> HIDE DEF a
  <2>5. /\ Len(H) = Len(s.hunks) + 1 /\ Len(s.hunks) \in Nat
        /\ H[Len(H)] = a
    BY <1>1, <2>3, LenProperties
  <2>6. [H EXCEPT ![Len(H)] = Append(@, h[k])] = Append(s.hunks, Append(a, h[k]))
    <3>1. PICK b \in Seq(HunkLines) : b = Append(a, h[k])
      BY <2>1, <2>3, AppendProperties
    <3>2. [H EXCEPT ![Len(s.hunks) + 1] = b] = Append(s.hunks, b)
      <4>1. PICK G \in Seq(Seq(HunkLines)) : G = s.hunks
        BY <1>1
      <4>2. PICK R : R = Seq(HunkLines)
        OBVIOUS
      <4>3. G \in Seq(R) /\ a \in R /\ b \in R
        BY <2>3, <4>1, <4>2
      <4>4. [Append(G, a) EXCEPT ![Len(G) + 1] = b] = Append(G, b)
        BY <4>3, LastReplaced
      <4> QED
        BY <4>1, <4>4
    <3> HIDE DEF H
    <3> QED
      BY <2>5, <3>1, <3>2
  <2>7. after(k - 1) = [in_file |-> TRUE, in_hunk |-> TRUE, hunks |-> H]
    BY DEF a
  <2>8. in_file_line([in_file |-> TRUE, in_hunk |-> TRUE, hunks |-> H], h[k]) =
          [in_file |-> TRUE, in_hunk |-> TRUE,
           hunks |-> [H EXCEPT ![Len(H)] = Append(@, h[k])]]
    <3> HIDE DEF H
    <3> QED
      BY <2>1 DEF in_file_line, HunkLines
  <2> QED
    BY <2>4, <2>6, <2>7, <2>8
<1>6. f \in [0..(n + 1) -> Readers]
  <2>1. ASSUME NEW k \in 0..(n + 1)
        PROVE  (IF k = 0 THEN s ELSE after(k - 1)) \in Readers
    <3>1. k # 0 => k - 1 \in 0..n
      BY <1>1
    <3> HIDE DEF after
    <3> QED
      BY <1>3, <3>1
  <2> HIDE DEF after
  <2> QED
    BY <2>1
<1>7. SubSeq(h, 1, n) = h
  BY SubSeqFull
<1>8. f[0] = s /\ f[n + 1] = after(n)
  <2> HIDE DEF after
  <2>1. n + 1 \in 0..(n + 1) /\ n + 1 # 0 /\ (n + 1) - 1 = n /\ 0 \in 0..(n + 1)
    BY <1>1
  <2> QED
    BY <2>1
<1> HIDE DEF lines, after
<1>9. ASSUME NEW k \in 1..(n + 1)
      PROVE  f[k] = in_file_line(f[k - 1], lines[k])
  <2>1. k \in 0..(n + 1) /\ k - 1 \in 0..(n + 1) /\ k # 0
    BY <1>1
  <2>2. f[k] = after(k - 1)
    BY <2>1
  <2>3. CASE k = 1
    <3>1. f[k - 1] = s /\ f[k] = after(0) /\ lines[k] = "@@"
      BY <1>2, <2>1, <2>2, <2>3
    <3> QED
      BY <1>4, <3>1
  <2>4. CASE k # 1
    <3>1. PICK j \in 1..n : k = j + 1 /\ k - 1 = j /\ j # 0
      <4>1. k - 1 \in 1..n /\ k = (k - 1) + 1
        BY <1>1, <2>4
      <4> QED
        BY <4>1
    <3>2. f[k - 1] = after(j - 1)
      BY <2>1, <3>1
    <3>3. lines[k] = h[j]
      BY <1>2, <3>1
    <3> HIDE DEF f
    <3> QED
      BY <1>5, <2>2, <3>1, <3>2, <3>3
  <2> QED
    BY <2>3, <2>4
<1> HIDE DEF f
<1>10. Reads(s, lines, after(n))
  BY <1>2, <1>6, <1>8, <1>9 DEF Reads
<1> QED
  BY <1>7, <1>10 DEF lines, after

\* Lines of a file that is not wanted.
LEMMA ReadsOther ==
  ASSUME NEW s \in Readers, ~s.in_file, ~s.in_hunk,
         NEW lines \in Seq(HunkLines \cup {"@@"})
  PROVE  Reads(s, lines, s)
<1> DEFINE f == [k \in 0..Len(lines) |-> s]
<1>1. Len(lines) \in Nat
  BY LenProperties
<1>2. ASSUME NEW k \in 1..Len(lines)
      PROVE  in_file_line(s, lines[k]) = s
  <2>1. lines[k] \in HunkLines \cup {"@@"}
    BY ElementOfSeq
  <2> QED
    BY <2>1 DEF in_file_line, HunkLines
<1>3. ASSUME NEW k \in 1..Len(lines)
      PROVE  f[k] = s /\ f[k - 1] = s
  BY <1>1
<1>4. f \in [0..Len(lines) -> Readers] /\ f[0] = s /\ f[Len(lines)] = s
  BY <1>1
<1> HIDE DEF f
<1>5. \A k \in 1..Len(lines) : f[k] = in_file_line(f[k - 1], lines[k])
  BY <1>2, <1>3
<1> QED
  BY <1>4, <1>5 DEF Reads

\* No line.
LEMMA ReadsNothing ==
  ASSUME NEW s \in Readers
  PROVE  Reads(s, <<>>, s)
<1> DEFINE f == [k \in 0..0 |-> s]
<1>1. f \in [0..0 -> Readers] /\ f[0] = s
  OBVIOUS
<1>2. Len(<<>>) = 0
  OBVIOUS
<1>3. \A k \in 1..0 : f[k] = in_file_line(f[k - 1], <<>>[k])
  OBVIOUS
<1> HIDE DEF f
<1> QED
  BY <1>1, <1>2, <1>3 DEF Reads

Headed(hs) == [k \in DOMAIN hs |-> <<"@@">> \o hs[k]]

\* The lines of hunks, each below its heading.
LEMMA HeadedLines ==
  ASSUME NEW hs \in Seq(Seq(HunkLines))
  PROVE  /\ Headed(hs) \in Seq(Seq(HunkLines \cup {"@@"}))
         /\ Len(Headed(hs)) = Len(hs) /\ Len(hs) \in Nat
         /\ \A k \in 1..Len(hs) : Headed(hs)[k] = <<"@@">> \o hs[k]
<1> DEFINE R == Seq(HunkLines \cup {"@@"})
<1>1. Len(hs) \in Nat /\ DOMAIN hs = 1..Len(hs)
  BY LenProperties
<1>2. ASSUME NEW k \in 1..Len(hs)
      PROVE  <<"@@">> \o hs[k] \in R
  <2>1. hs[k] \in Seq(HunkLines)
    BY ElementOfSeq
  <2>2. hs[k] \in R
    BY <2>1, SeqMonotonic
  <2>3. <<"@@">> \in R
    OBVIOUS
  <2> QED
    BY <2>2, <2>3, ConcatProperties
<1> HIDE DEF R
<1>3. Headed(hs) \in [1..Len(hs) -> R]
  BY <1>1, <1>2 DEF Headed
<1>4. Headed(hs) \in Seq(R) /\ Len(Headed(hs)) = Len(hs)
  BY <1>1, <1>3, FunctionIsSeq
<1> QED
  BY <1>1, <1>4 DEF Headed, R

\* The hunks of the wanted file, one after another.
LEMMA ReadsHunks ==
  ASSUME NEW s \in Readers, s.in_file, NEW hs \in Seq(Seq(HunkLines))
  PROVE  \E t \in Readers : /\ t.hunks = s.hunks \o hs
                            /\ Reads(s, FlattenSeq(Headed(hs)), t)
<1> DEFINE n == Len(hs)
           q == Headed(hs)
           R == HunkLines \cup {"@@"}
           After(k, lines) ==
             \E t \in Readers : /\ t.in_file /\ t.hunks = s.hunks \o SubSeq(hs, 1, k)
                               /\ Reads(s, lines, t)
<1>1. /\ n \in Nat /\ q \in Seq(Seq(R)) /\ Len(q) = n
      /\ \A k \in 1..n : q[k] = <<"@@">> \o hs[k]
  BY HeadedLines
<1>2. s.hunks \in Seq(Seq(HunkLines))
  BY DEF Readers
<1> HIDE DEF q
<1>3. PICK g : IsFlat(g, q, R)
  BY <1>1, FlatExists
<1>4. FlattenSeq(q) = g[n]
  BY <1>1, <1>3, FlatIs
<1>5. \A k \in 0..n : g[k] \in Seq(R)
  BY <1>1, <1>3 DEF IsFlat
<1>6. \A k \in 0..n : g[k] \in Seq(Lines)
  <2>1. R \subseteq Lines
    BY DEF HunkLines, Lines
  <2> HIDE DEF R
  <2> QED
    BY <1>5, <2>1, SeqMonotonic
<1> HIDE DEF R, n
<1> DEFINE T == {k \in Nat : k <= n => After(k, g[k])}
<1> HIDE DEF After
<1>7. 0 \in T
  <2>1. g[0] = <<>>
    BY <1>3 DEF IsFlat
  <2>2. SubSeq(hs, 1, 0) = <<>>
    BY SubSeqEmpty
  <2>3. s.hunks \o <<>> = s.hunks
    BY <1>2, ConcatEmptySeq
  <2>4. Reads(s, <<>>, s)
    BY ReadsNothing
  <2> QED
    BY <2>1, <2>2, <2>3, <2>4 DEF After
<1>8. ASSUME NEW k \in Nat, k \in T
      PROVE  k + 1 \in T
  <2> SUFFICES ASSUME k + 1 <= n PROVE After(k + 1, g[k + 1])
    OBVIOUS
  <2>1. PICK j \in 1..n : j = k + 1 /\ j - 1 = k /\ k \in 0..n
    BY <1>1
  <2>2. PICK t \in Readers : /\ t.in_file /\ t.hunks = s.hunks \o SubSeq(hs, 1, k)
                            /\ Reads(s, g[k], t)
    <3>1. After(k, g[k])
      BY <1>1, <1>8, <2>1
    <3> QED
      BY <3>1 DEF After
  <2>3. hs[j] \in Seq(HunkLines)
    BY ElementOfSeq DEF n
  <2> DEFINE u == [in_file |-> TRUE, in_hunk |-> TRUE, hunks |-> Append(t.hunks, hs[j])]
             w == <<"@@">> \o hs[j]
  <2>4. u \in Readers
    <3>1. PICK Q : Q = Seq(HunkLines)
      OBVIOUS
    <3>2. t.hunks \in Seq(Q) /\ hs[j] \in Q
      BY <2>3, <3>1 DEF Readers
    <3>3. Append(t.hunks, hs[j]) \in Seq(Q)
      BY <3>2, AppendProperties
    <3> QED
      BY <3>1, <3>3 DEF Readers
  <2>5. Reads(t, w, u)
    BY <2>2, <2>3, ReadsHunk
  <2>6. w \in Seq(Lines)
    <3>1. HunkLines \subseteq Lines /\ "@@" \in Lines
      BY DEF HunkLines, Lines
    <3>2. hs[j] \in Seq(Lines) /\ <<"@@">> \in Seq(Lines)
      BY <2>3, <3>1, SeqMonotonic
    <3> QED
      BY <3>2, ConcatProperties
  <2>7. g[j] = g[k] \o w
    BY <1>1, <1>3, <2>1 DEF IsFlat
  <2> HIDE DEF w
  <2>8. g[k] \in Seq(Lines)
    BY <1>6, <2>1
  <2> HIDE DEF u
  <2>9. Reads(s, g[k] \o w, u)
    BY <2>2, <2>5, <2>6, <2>8, ReadsBoth
  <2>10. u.in_file /\ u.hunks = Append(t.hunks, hs[j])
    BY DEF u
  <2>11. Append(s.hunks \o SubSeq(hs, 1, k), hs[j]) = s.hunks \o SubSeq(hs, 1, j)
    <3>1. PICK Q : Q = Seq(HunkLines)
      OBVIOUS
    <3>2. s.hunks \in Seq(Q) /\ hs \in Seq(Q)
      BY <1>2, <3>1
    <3>3. s.hunks \o SubSeq(hs, 1, j) = Append(s.hunks \o SubSeq(hs, 1, j - 1), hs[j])
      BY <3>2, AppendedPrefix DEF n
    <3> QED
      BY <2>1, <3>3
  <2> QED
    BY <2>1, <2>2, <2>4, <2>7, <2>9, <2>10, <2>11 DEF After
<1>9. After(n, g[n])
  <2> HIDE DEF T
  <2>1. Nat \subseteq T
    BY <1>7, <1>8, NatSetInduction
  <2>2. n \in T
    BY <1>1, <2>1
  <2> QED
    BY <1>1, <2>2 DEF T
<1>10. SubSeq(hs, 1, n) = hs
  BY SubSeqFull DEF n
<1> QED
  BY <1>4, <1>9, <1>10 DEF q, After

-----------------------------------------------------------------------------
Files == Seq([wanted : BOOLEAN, hunks : Seq(Seq(HunkLines))])

Wanted(p) == [n \in DOMAIN p |-> IF p[n].wanted THEN p[n].hunks ELSE <<>>]

RenderedFile(f) ==
  <<IF f.wanted THEN "--- a/sd.c" ELSE "--- a/other", "+++">> \o FlattenSeq(Headed(f.hunks))

\* One file.
LEMMA ReadsFile ==
  ASSUME NEW s \in Readers, NEW w \in BOOLEAN, NEW hs \in Seq(Seq(HunkLines)),
         NEW f, f = [wanted |-> w, hunks |-> hs]
  PROVE  /\ RenderedFile(f) \in Seq(Lines)
         /\ \E t \in Readers : /\ t.hunks = s.hunks \o (IF w THEN hs ELSE <<>>)
                               /\ Reads(s, RenderedFile(f), t)
<1> DEFINE head == <<IF w THEN "--- a/sd.c" ELSE "--- a/other", "+++">>
           body == FlattenSeq(Headed(hs))
           u == [in_file |-> w, in_hunk |-> FALSE, hunks |-> s.hunks]
<1>1. RenderedFile(f) = head \o body
  BY DEF RenderedFile
<1>2. head \in Seq(Lines)
  BY DEF Lines
<1>3. body \in Seq(HunkLines \cup {"@@"}) /\ body \in Seq(Lines)
  <2> DEFINE R == HunkLines \cup {"@@"}
  <2>1. Headed(hs) \in Seq(Seq(R))
    BY HeadedLines
  <2>2. R \subseteq Lines
    BY DEF HunkLines, Lines
  <2> HIDE DEF R
  <2>3. PICK g : IsFlat(g, Headed(hs), R)
    BY <2>1, FlatExists
  <2>4. body \in Seq(R)
    BY <2>1, <2>3, FlatIs
  <2>5. body \in Seq(Lines)
    BY <2>2, <2>4, SeqMonotonic
  <2> QED
    BY <2>4, <2>5 DEF R
<1>4. u \in Readers /\ s.hunks \in Seq(Seq(HunkLines))
  BY DEF Readers
<1>5. Reads(s, head, u)
  BY ReadsHeader
<1>6. u.in_file = w /\ u.in_hunk = FALSE /\ u.hunks = s.hunks
  OBVIOUS
<1> HIDE DEF u, head, body
<1>7. PICK t \in Readers : /\ t.hunks = s.hunks \o (IF w THEN hs ELSE <<>>)
                          /\ Reads(u, body, t)
  <2>1. CASE w
    <3>1. u.in_file
      BY <1>6, <2>1
    <3>2. \E t \in Readers : t.hunks = u.hunks \o hs /\ Reads(u, FlattenSeq(Headed(hs)), t)
      BY <1>4, <3>1, ReadsHunks
    <3> QED
      BY <1>6, <2>1, <3>2 DEF body
  <2>2. CASE ~w
    <3>1. ~u.in_file /\ ~u.in_hunk
      BY <1>6, <2>2
    <3>2. Reads(u, body, u)
      BY <1>3, <1>4, <3>1, ReadsOther
    <3>3. s.hunks \o <<>> = s.hunks
      BY <1>4, ConcatEmptySeq
    <3> QED
      BY <1>4, <1>6, <2>2, <3>2, <3>3
  <2> QED
    BY <2>1, <2>2
<1>8. head \o body \in Seq(Lines)
  BY <1>2, <1>3, ConcatProperties
<1>9. Reads(s, head \o body, t)
  BY <1>2, <1>3, <1>5, <1>7, ReadsBoth
<1> QED
  BY <1>1, <1>7, <1>8, <1>9

\* What is read of a patch is the hunks of the wanted files.
LEMMA ReadsPatch ==
  ASSUME NEW p \in Files
  PROVE  /\ parse_file_hunks(Rendered(p)) = FlattenSeq(Wanted(p))
         /\ FlattenSeq(Wanted(p)) \in Seq(Seq(HunkLines))
<1> DEFINE n == Len(p)
           q == [k \in DOMAIN p |-> RenderedFile(p[k])]
           H == Seq(HunkLines)
<1>1. n \in Nat /\ DOMAIN p = 1..n
  BY LenProperties DEF Files
<1>2. ASSUME NEW k \in 1..n
      PROVE  /\ p[k].wanted \in BOOLEAN /\ p[k].hunks \in Seq(Seq(HunkLines))
             /\ p[k] = [wanted |-> p[k].wanted, hunks |-> p[k].hunks]
  <2>1. p[k] \in [wanted : BOOLEAN, hunks : Seq(Seq(HunkLines))]
    BY ElementOfSeq DEF Files
  <2> QED
    BY <2>1
<1>3. Rendered(p) = FlattenSeq(q)
  BY DEF Rendered, RenderedFile, Headed
<1>4. q \in Seq(Seq(Lines)) /\ Len(q) = n
  <2>1. ASSUME NEW k \in 1..n
        PROVE  RenderedFile(p[k]) \in Seq(Lines)
    <3>1. Opening \in Readers
      BY EmptySeq DEF Opening, Readers
    <3> QED
      BY <1>2, <3>1, ReadsFile
  <2>2. q \in [1..n -> Seq(Lines)]
    BY <1>1, <2>1
  <2> HIDE DEF q, n
  <2> QED
    BY <1>1, <2>2, FunctionIsSeq
<1>5. Wanted(p) \in Seq(Seq(H)) /\ Len(Wanted(p)) = n
  <2>1. ASSUME NEW k \in 1..n
        PROVE  (IF p[k].wanted THEN p[k].hunks ELSE <<>>) \in Seq(H)
    BY <1>2, EmptySeq
  <2>2. Wanted(p) \in [1..n -> Seq(H)]
    BY <1>1, <2>1 DEF Wanted
  <2> HIDE DEF n, H
  <2> QED
    BY <1>1, <2>2, FunctionIsSeq
<1>6. \A k \in 1..n : /\ q[k] = RenderedFile(p[k])
                      /\ Wanted(p)[k] = IF p[k].wanted THEN p[k].hunks ELSE <<>>
  BY <1>1 DEF Wanted
<1> HIDE DEF q, n, H
<1>7. PICK g : IsFlat(g, q, Lines)
  BY <1>4, FlatExists
<1>8. PICK h : IsFlat(h, Wanted(p), H)
  BY <1>5, FlatExists
<1>9. /\ FlattenSeq(q) = g[n] /\ FlattenSeq(q) \in Seq(Lines)
      /\ FlattenSeq(Wanted(p)) = h[n] /\ FlattenSeq(Wanted(p)) \in Seq(H)
  BY <1>4, <1>5, <1>7, <1>8, FlatIs
<1>10. Opening \in Readers
  BY EmptySeq DEF Opening, Readers
<1> DEFINE Is(k) == \E t \in Readers : t.hunks = h[k] /\ Reads(Opening, g[k], t)
           T == {k \in Nat : k <= n => Is(k)}
<1> HIDE DEF Is
<1>11. 0 \in T
  <2>1. g[0] = <<>> /\ h[0] = <<>>
    BY <1>7, <1>8 DEF IsFlat
  <2>2. Reads(Opening, <<>>, Opening) /\ Opening.hunks = <<>>
    BY <1>10, ReadsNothing DEF Opening
  <2> QED
    BY <1>10, <2>1, <2>2 DEF Is
<1>12. ASSUME NEW k \in Nat, k \in T
       PROVE  k + 1 \in T
  <2> SUFFICES ASSUME k + 1 <= n PROVE Is(k + 1)
    OBVIOUS
  <2>1. PICK j \in 1..n : j = k + 1 /\ j - 1 = k /\ k \in 0..n
    BY <1>1
  <2>2. PICK t \in Readers : t.hunks = h[k] /\ Reads(Opening, g[k], t)
    <3>1. Is(k)
      BY <1>1, <1>12, <2>1
    <3> QED
      BY <3>1 DEF Is
  <2>3. PICK w \in BOOLEAN, hs \in Seq(Seq(HunkLines)) :
          p[j] = [wanted |-> w, hunks |-> hs] /\ p[j].wanted = w /\ p[j].hunks = hs
    BY <1>2
  <2>4. RenderedFile(p[j]) \in Seq(Lines)
    BY <2>2, <2>3, ReadsFile
  <2>5. PICK u \in Readers : /\ u.hunks = t.hunks \o (IF w THEN hs ELSE <<>>)
                            /\ Reads(t, RenderedFile(p[j]), u)
    BY <2>2, <2>3, ReadsFile
  <2>6. g[j] = g[k] \o RenderedFile(p[j])
    BY <1>4, <1>6, <1>7, <2>1 DEF IsFlat
  <2>7. h[j] = h[k] \o (IF w THEN hs ELSE <<>>)
    BY <1>5, <1>6, <1>8, <2>1, <2>3 DEF IsFlat
  <2>8. g[k] \in Seq(Lines)
    BY <1>4, <1>7, <2>1 DEF IsFlat
  <2>9. Reads(Opening, g[j], u)
    BY <2>2, <2>4, <2>5, <2>6, <2>8, ReadsBoth
  <2>10. u.hunks = h[j]
    BY <2>2, <2>5, <2>7
  <2> QED
    BY <2>1, <2>9, <2>10 DEF Is
<1>13. Is(n)
  <2> HIDE DEF T
  <2>1. Nat \subseteq T
    BY <1>11, <1>12, NatSetInduction
  <2>2. n \in T
    BY <1>1, <2>1
  <2> QED
    BY <1>1, <2>2 DEF T
<1>14. PICK t : t.hunks = h[n] /\ Reads(Opening, g[n], t)
  BY <1>13 DEF Is
<1>15. parse_file_hunks(g[n]) = t.hunks
  BY <1>9, <1>14, ReadsWhole
<1> QED
  BY <1>3, <1>9, <1>14, <1>15 DEF H

-----------------------------------------------------------------------------
(***************************************************************************)
(* The runs of added lines.                                                *)
(***************************************************************************)
Begins(h) == {n \in Added(h) : n - 1 \notin Added(h)}
Ends(h) == {n \in Added(h) : n + 1 \notin Added(h)}
Upto(h, k) == {m \in Begins(h) : m <= k}

\* The lines from b to e are a run.
IsRunOf(h, b, e) ==
  b \in Begins(h) /\ e \in Ends(h) /\ b <= e /\ \A m \in b..e : m \in Added(h)

\* The added lines, and where runs begin and end, are places of the hunk.
LEMMA AddedFacts ==
  ASSUME NEW S, NEW h \in Seq(S)
  PROVE  /\ Len(h) \in Nat /\ Added(h) \subseteq 1..Len(h) /\ Begins(h) \subseteq 1..Len(h)
         /\ Ends(h) \subseteq 1..Len(h)
         /\ \A k \in 1..Len(h) : k \in Added(h) <=> h[k] = "+"
         /\ \A k : IsFiniteSet(Upto(h, k)) /\ Cardinality(Upto(h, k)) \in Nat
<1>1. Len(h) \in Nat /\ DOMAIN h = 1..Len(h)
  BY LenProperties
<1>2. Added(h) \subseteq 1..Len(h) /\ \A k \in 1..Len(h) : k \in Added(h) <=> h[k] = "+"
  BY <1>1 DEF Added
<1>3. Begins(h) \subseteq 1..Len(h) /\ Ends(h) \subseteq 1..Len(h)
  BY <1>2 DEF Begins, Ends
<1>4. ASSUME NEW k
      PROVE  IsFiniteSet(Upto(h, k)) /\ Cardinality(Upto(h, k)) \in Nat
  <2>1. Upto(h, k) \in SUBSET (1..Len(h))
    BY <1>3 DEF Upto
  <2>2. IsFiniteSet(1..Len(h))
    BY <1>1, FS_Interval
  <2>3. IsFiniteSet(Upto(h, k))
    BY <2>1, <2>2, FS_Subset
  <2> QED
    BY <2>3, FS_CardinalityType
<1> QED
  BY <1>1, <1>2, <1>3, <1>4

\* Of two runs the second has more that begin up to it.
LEMMA UptoGrows ==
  ASSUME NEW S, NEW h \in Seq(S), NEW m \in Begins(h), NEW n \in Begins(h), m < n
  PROVE  Cardinality(Upto(h, m)) # Cardinality(Upto(h, n))
<1> DEFINE A == Upto(h, m)
           B == Upto(h, n)
<1>1. m \in Int /\ n \in Int /\ \A k \in Begins(h) : k \in Int
  BY AddedFacts
<1>2. n \notin A /\ A \cup {n} \in SUBSET B
  <2>1. ~(n <= m) /\ n <= n /\ \A k \in Begins(h) : k <= m => k <= n
    BY <1>1
  <2> QED
    BY <2>1 DEF Upto
<1>3. IsFiniteSet(A) /\ IsFiniteSet(B) /\ Cardinality(A) \in Nat /\ Cardinality(B) \in Nat
  BY AddedFacts
<1> HIDE DEF A, B
<1>4. Cardinality(A \cup {n}) = Cardinality(A) + 1
  BY <1>2, <1>3, FS_AddElement
<1>5. Cardinality(A \cup {n}) <= Cardinality(B)
  BY <1>2, <1>3, FS_Subset
<1>6. Cardinality(A) # Cardinality(B)
  BY <1>3, <1>4, <1>5
<1> QED
  BY <1>6 DEF A, B

\* What the loop of addition_runs knows after k lines: the runs that have
\* ended, and how many lines the one that has not has so far.
Counted(h, k, r, c) ==
  /\ c <= k /\ k - c \notin Added(h) /\ \A m \in (k - c + 1)..k : m \in Added(h)
  /\ Cardinality(Upto(h, k)) = Len(r) + (IF c > 0 THEN 1 ELSE 0)
  /\ \A j \in 1..Len(r) : \E b \in Begins(h), e \in Ends(h) :
       IsRunOf(h, b, e) /\ Cardinality(Upto(h, b)) = j /\ r[j] = e - b + 1

\* A line that is added.
LEMMA CountedAdded ==
  ASSUME NEW S, NEW h \in Seq(S), NEW k \in Nat, NEW r \in Seq(Nat), NEW c \in Nat,
         Counted(h, k, r, c), k + 1 \in Added(h)
  PROVE  Counted(h, k + 1, r, c + 1)
<1> DEFINE A == Added(h)
<1>1. c <= k /\ k - c \notin A /\ \A m \in (k - c + 1)..k : m \in A
  BY DEF Counted
<1>2. c + 1 <= k + 1 /\ (k + 1) - (c + 1) = k - c
  BY <1>1
<1>3. \A m \in ((k + 1) - (c + 1) + 1)..(k + 1) : m \in A
  <2> SUFFICES ASSUME NEW m \in ((k + 1) - (c + 1) + 1)..(k + 1) PROVE m \in A
    OBVIOUS
  <2>1. m = k + 1 \/ m \in (k - c + 1)..k
    BY <1>1
  <2> QED
    BY <1>1, <2>1
<1>4. Cardinality(Upto(h, k + 1)) = Len(r) + 1
  <2>1. Cardinality(Upto(h, k)) = Len(r) + (IF c > 0 THEN 1 ELSE 0) /\ Len(r) \in Nat
    BY LenProperties DEF Counted
  <2>2. \A m \in Begins(h) : m \in Nat
    BY AddedFacts
  <2>3. CASE c > 0
    <3>1. k \in A
      <4>1. k \in (k - c + 1)..k
        BY <1>1, <2>3
      <4> QED
        BY <1>1, <4>1
    <3>2. k + 1 \notin Begins(h)
      <4>1. (k + 1) - 1 = k
        OBVIOUS
      <4> QED
        BY <3>1, <4>1 DEF Begins
    <3>3. Upto(h, k + 1) = Upto(h, k)
      <4>1. \A m \in Begins(h) : m <= k + 1 <=> m <= k
        BY <2>2, <3>2
      <4> QED
        BY <4>1 DEF Upto
    <3> QED
      BY <2>1, <2>3, <3>3
  <2>4. CASE c = 0
    <3>1. k \notin A
      BY <1>1, <2>4
    <3>2. k + 1 \in Begins(h)
      <4>1. (k + 1) - 1 = k
        OBVIOUS
      <4> QED
        BY <3>1, <4>1 DEF Begins
    <3>3. Upto(h, k + 1) = Upto(h, k) \cup {k + 1} /\ k + 1 \notin Upto(h, k)
      <4>1. \A m \in Begins(h) : m <= k + 1 <=> (m <= k \/ m = k + 1)
        BY <2>2
      <4>2. ~(k + 1 <= k)
        OBVIOUS
      <4> QED
        BY <3>2, <4>1, <4>2 DEF Upto
    <3>4. IsFiniteSet(Upto(h, k))
      BY AddedFacts
    <3>5. Cardinality(Upto(h, k) \cup {k + 1}) = Cardinality(Upto(h, k)) + 1
      BY <3>3, <3>4, FS_AddElement
    <3> QED
      <4>1. Cardinality(Upto(h, k)) = Len(r)
        BY <2>1, <2>4
      <4> QED
        BY <3>3, <3>5, <4>1, Zenon
  <2> QED
    BY <2>3, <2>4
<1>5. c + 1 > 0
  OBVIOUS
<1>6. \A j \in 1..Len(r) : \E b \in Begins(h), e \in Ends(h) :
        IsRunOf(h, b, e) /\ Cardinality(Upto(h, b)) = j /\ r[j] = e - b + 1
  BY DEF Counted
<1> HIDE DEF A
<1>7. (k + 1) - (c + 1) \notin Added(h)
  BY <1>1, <1>2 DEF A
<1>8. Cardinality(Upto(h, k + 1)) = Len(r) + (IF c + 1 > 0 THEN 1 ELSE 0)
  BY <1>4, <1>5
<1> QED
  BY <1>2, <1>3, <1>6, <1>7, <1>8 DEF Counted, A

\* A line that is not, after none that was.
LEMMA CountedOther ==
  ASSUME NEW S, NEW h \in Seq(S), NEW k \in Nat, NEW r \in Seq(Nat),
         Counted(h, k, r, 0), k + 1 \notin Added(h)
  PROVE  Counted(h, k + 1, r, 0)
<1>1. \A m \in Begins(h) : m \in Nat /\ m \in Added(h)
  BY AddedFacts DEF Begins
<1>2. Upto(h, k + 1) = Upto(h, k)
  <2>1. \A m \in Begins(h) : m <= k + 1 <=> m <= k
    BY <1>1
  <2> QED
    BY <2>1 DEF Upto
<1>3. (k + 1) - 0 \notin Added(h) /\ 0 <= k + 1
  OBVIOUS
<1>4. \A m \in ((k + 1) - 0 + 1)..(k + 1) : m \in Added(h)
  OBVIOUS
<1>5. /\ Cardinality(Upto(h, k)) = Len(r) + (IF 0 > 0 THEN 1 ELSE 0)
      /\ \A j \in 1..Len(r) : \E b \in Begins(h), e \in Ends(h) :
           IsRunOf(h, b, e) /\ Cardinality(Upto(h, b)) = j /\ r[j] = e - b + 1
  BY DEF Counted
<1> QED
  BY <1>2, <1>3, <1>4, <1>5 DEF Counted

\* The end of a run.
LEMMA CountedEnd ==
  ASSUME NEW S, NEW h \in Seq(S), NEW k \in Nat, NEW r \in Seq(Nat), NEW c \in Nat,
         Counted(h, k, r, c), k + 1 \notin Added(h), c > 0
  PROVE  Append(r, c) \in Seq(Nat) /\ Counted(h, k + 1, Append(r, c), 0)
<1> DEFINE A == Added(h)
           b == k - c + 1
           s == Append(r, c)
<1>1. c <= k /\ k - c \notin A /\ \A m \in b..k : m \in A
  BY DEF Counted
<1>2. b \in b..k /\ k \in b..k /\ b - 1 = k - c /\ b \in Nat /\ k - b + 1 = c
  BY <1>1
<1>3. b \in Begins(h) /\ k \in Ends(h)
  BY <1>1, <1>2 DEF Begins, Ends
<1>4. IsRunOf(h, b, k)
  BY <1>1, <1>2, <1>3 DEF IsRunOf
<1>5. \A m \in Begins(h) : m \in Nat /\ m \in A /\ m - 1 \notin A
  BY AddedFacts DEF Begins
<1>6. Upto(h, k + 1) = Upto(h, k)
  <2>1. \A m \in Begins(h) : m <= k + 1 <=> m <= k
    BY <1>5
  <2> QED
    BY <2>1 DEF Upto
<1>7. Upto(h, b) = Upto(h, k)
  <2>1. ASSUME NEW m \in Begins(h), m <= k
        PROVE  m <= b
    <3>1. ~(m - 1 \in b..k)
      BY <1>1, <1>5
    <3> QED
      BY <1>2, <1>5, <2>1, <3>1
  <2>2. ASSUME NEW m \in Begins(h), m <= b
        PROVE  m <= k
    BY <1>2, <1>5, <2>2
  <2> QED
    BY <2>1, <2>2 DEF Upto
<1>8. /\ s \in Seq(Nat) /\ Len(r) \in Nat /\ Len(s) = Len(r) + 1 /\ s[Len(r) + 1] = c
      /\ \A j \in 1..Len(r) : s[j] = r[j]
  BY AppendProperties, LenProperties
<1>9. Cardinality(Upto(h, k)) = Len(r) + 1
  <2>1. Cardinality(Upto(h, k)) = Len(r) + (IF c > 0 THEN 1 ELSE 0)
    BY DEF Counted
  <2> QED
    BY <2>1
<1>10. \A j \in 1..Len(r) : \E x \in Begins(h), e \in Ends(h) :
         IsRunOf(h, x, e) /\ Cardinality(Upto(h, x)) = j /\ r[j] = e - x + 1
  BY DEF Counted
<1> HIDE DEF A, b, s
<1>11. ASSUME NEW j \in 1..Len(s)
       PROVE  \E x \in Begins(h), e \in Ends(h) :
                IsRunOf(h, x, e) /\ Cardinality(Upto(h, x)) = j /\ s[j] = e - x + 1
  <2>1. CASE j \in 1..Len(r)
    BY <1>8, <1>10, <2>1
  <2>2. CASE j = Len(r) + 1
    <3>1. Cardinality(Upto(h, b)) = j /\ s[j] = k - b + 1
      BY <1>2, <1>7, <1>8, <1>9, <2>2
    <3> QED
      BY <1>3, <1>4, <3>1
  <2> QED
    BY <1>8, <2>1, <2>2
<1>12. (k + 1) - 0 \notin Added(h) /\ 0 <= k + 1
  OBVIOUS
<1>13. \A m \in ((k + 1) - 0 + 1)..(k + 1) : m \in Added(h)
  OBVIOUS
<1>14. Cardinality(Upto(h, k + 1)) = Len(s) + (IF 0 > 0 THEN 1 ELSE 0)
  BY <1>6, <1>8, <1>9
<1>15. Counted(h, k + 1, s, 0)
  BY <1>11, <1>12, <1>13, <1>14 DEF Counted
<1> QED
  BY <1>8, <1>15 DEF s

Counters == [runs : Seq(Nat), current : Nat]

\* The loop over the lines.
LEMMA AdditionLoop ==
  ASSUME NEW S, NEW h \in Seq(S)
  PROVE  \E f \in [0..Len(h) -> Counters] :
           /\ f[0] = [runs |-> <<>>, current |-> 0]
           /\ \A k \in 1..Len(h) : f[k] = addition_line(f[k - 1], h[k])
           /\ addition_runs(h) = IF f[Len(h)].current > 0
                                   THEN Append(f[Len(h)].runs, f[Len(h)].current)
                                 ELSE f[Len(h)].runs
<1> DEFINE n == Len(h)
           a == [runs |-> <<>>, current |-> 0]
           step == [x \in Counters \X (1..n) |-> addition_line(x[1], h[x[2]])]
           Loop(f) == f = [k \in 0..n |-> IF k = 0 THEN a ELSE addition_line(f[k - 1], h[k])]
           c == CHOOSE f : Loop(f)
<1>1. n \in Nat /\ a \in Counters
  BY LenProperties, EmptySeq DEF Counters
<1>2. step \in [Counters \X (1..n) -> Counters]
  <2>1. ASSUME NEW s \in Counters, NEW line
        PROVE  addition_line(s, line) \in Counters
    <3>1. s.runs \in Seq(Nat) /\ s.current \in Nat
      BY DEF Counters
    <3>2. Append(s.runs, s.current) \in Seq(Nat) /\ s.current + 1 \in Nat
      BY <3>1, AppendProperties
    <3>3. [s EXCEPT !.current = s.current + 1] = [runs |-> s.runs, current |-> s.current + 1]
      BY DEF Counters
    <3>4. [s EXCEPT !.current = s.current + 1] \in Counters
      BY <3>1, <3>2, <3>3 DEF Counters
    <3>5. [runs |-> Append(s.runs, s.current), current |-> 0] \in Counters
      BY <3>2 DEF Counters
    <3> QED
      BY <3>4, <3>5 DEF addition_line
  <2> QED
    BY <2>1
<1>3. addition_runs(h) = IF c[n].current > 0 THEN Append(c[n].runs, c[n].current)
                         ELSE c[n].runs
  BY DEF addition_runs
<1> HIDE DEF n, a, c
<1>4. PICK f \in [0..n -> Counters] : IsRun(f, a, n, step)
  <2> HIDE DEF step
  <2> QED
    BY <1>1, <1>2, Iteration
<1>5. f[0] = a /\ \A k \in 1..n : f[k] = addition_line(f[k - 1], h[k])
  <2> SUFFICES ASSUME NEW k \in 1..n PROVE f[k] = addition_line(f[k - 1], h[k])
    BY <1>4 DEF IsRun
  <2>1. k - 1 \in 0..n
    BY <1>1
  <2>2. f[k - 1] \in Counters
    BY <2>1
  <2> QED
    BY <1>4, <2>2 DEF IsRun
<1>6. Loop(f)
  <2>1. ASSUME NEW k \in 0..n
        PROVE  f[k] = IF k = 0 THEN a ELSE addition_line(f[k - 1], h[k])
    <3>1. k # 0 => k \in 1..n
      BY <1>1
    <3> QED
      BY <1>5, <3>1
  <2>2. f = [k \in 0..n |-> f[k]]
    OBVIOUS
  <2> QED
    BY <2>1, <2>2
<1>7. Loop(c)
  <2>1. \E g : Loop(g)
    BY <1>6
  <2> QED
    BY <2>1, Zenon DEF c
<1> DEFINE T == {k \in Nat : k <= n => c[k] = f[k]}
<1>8. 0 \in T
  <2>1. 0 \in 0..n
    BY <1>1
  <2> QED
    BY <1>5, <1>7, <2>1
<1>9. ASSUME NEW k \in Nat, k \in T
      PROVE  k + 1 \in T
  <2> SUFFICES ASSUME k + 1 <= n PROVE c[k + 1] = f[k + 1]
    OBVIOUS
  <2>1. PICK j \in 1..n : j = k + 1 /\ j - 1 = k /\ j \in 0..n /\ j # 0
    BY <1>1
  <2>2. c[j] = addition_line(c[j - 1], h[j]) /\ f[j] = addition_line(f[j - 1], h[j])
    BY <1>5, <1>7, <2>1
  <2>3. c[k] = f[k]
    BY <1>1, <1>9
  <2> QED
    BY <2>1, <2>2, <2>3
<1>10. c[n] = f[n]
  <2> HIDE DEF T
  <2>1. Nat \subseteq T
    BY <1>8, <1>9, NatSetInduction
  <2>2. n \in T
    BY <1>1, <2>1
  <2> QED
    BY <1>1, <2>2 DEF T
<1> QED
  BY <1>3, <1>4, <1>5, <1>10 DEF n, a

\* What is counted at the end is every run.
LEMMA RunsAre ==
  ASSUME NEW S, NEW h \in Seq(S), NEW r \in Seq(Nat),
         NEW end \in Nat, Len(h) <= end, Counted(h, end, r, 0)
  PROVE  r = Runs(h)
<1> DEFINE last(n) == CHOOSE m \in Ends(h) : m >= n /\ \A k \in Ends(h) : k >= n => k >= m
           nth(k) == CHOOSE n \in Begins(h) : Cardinality(Upto(h, n)) = k
<1>1. /\ Len(h) \in Nat /\ Len(r) \in Nat
      /\ \A m \in Begins(h) : m \in Nat /\ m <= Len(h)
      /\ \A m \in Ends(h) : m \in Nat
  BY AddedFacts, LenProperties
<1>2. Upto(h, end) = Begins(h)
  BY <1>1 DEF Upto
<1>3. Cardinality(Begins(h)) = Len(r)
  <2>1. Cardinality(Upto(h, end)) = Len(r) + (IF 0 > 0 THEN 1 ELSE 0)
    BY DEF Counted
  <2> QED
    BY <1>1, <1>2, <2>1
<1>4. Runs(h) = [k \in 1..Len(r) |-> last(nth(k)) - nth(k) + 1]
  BY <1>3 DEF Runs, Begins, Ends, Upto
<1>5. ASSUME NEW j \in 1..Len(r)
      PROVE  r[j] = last(nth(j)) - nth(j) + 1
  <2>1. PICK b \in Begins(h), e \in Ends(h) :
          IsRunOf(h, b, e) /\ Cardinality(Upto(h, b)) = j /\ r[j] = e - b + 1
    BY DEF Counted
  <2>2. nth(j) = b
    <3>1. ASSUME NEW n \in Begins(h), Cardinality(Upto(h, n)) = j
          PROVE  n = b
      <4>1. ~(n < b) /\ ~(b < n)
        BY <2>1, <3>1, UptoGrows
      <4> QED
        BY <1>1, <4>1
    <3> QED
      BY <2>1, <3>1
  <2>3. last(b) = e
    <3> DEFINE P(m) == m >= b /\ \A k \in Ends(h) : k >= b => k >= m
    <3>1. P(e)
      <4> SUFFICES ASSUME NEW k \in Ends(h), k >= b, ~(k >= e) PROVE FALSE
        BY <1>1, <2>1 DEF IsRunOf
      <4>1. k + 1 \in b..e
        BY <1>1, <2>1
      <4> QED
        BY <2>1, <4>1 DEF IsRunOf, Ends
    <3>2. ASSUME NEW m \in Ends(h), P(m)
          PROVE  m = e
      <4>1. m >= e /\ e >= m
        BY <3>1, <3>2
      <4> QED
        BY <1>1, <4>1
    <3> HIDE DEF P
    <3>3. (CHOOSE m \in Ends(h) : P(m)) = e
      BY <3>1, <3>2, Zenon
    <3> QED
      BY <3>3 DEF P
  <2> HIDE DEF nth, last
  <2> QED
    BY <2>1, <2>2, <2>3
<1> HIDE DEF nth, last
<1>6. r = [k \in 1..Len(r) |-> r[k]]
  BY LenProperties
<1> QED
  BY <1>4, <1>5, <1>6

\* addition_runs finds the runs as they are.
LEMMA AdditionRuns ==
  ASSUME NEW S, NEW h \in Seq(S)
  PROVE  addition_runs(h) = Runs(h)
<1> DEFINE n == Len(h)
<1>1. n \in Nat /\ \A k \in 1..n : k \in Added(h) <=> h[k] = "+"
  BY AddedFacts
<1>2. 0 \notin Added(h) /\ n + 1 \notin Added(h)
  <2>1. 0 \notin 1..Len(h) /\ n + 1 \notin 1..Len(h)
    BY <1>1
  <2> QED
    BY <2>1, AddedFacts
<1>3. PICK f \in [0..n -> Counters] :
        /\ f[0] = [runs |-> <<>>, current |-> 0]
        /\ \A k \in 1..n : f[k] = addition_line(f[k - 1], h[k])
        /\ addition_runs(h) = IF f[n].current > 0 THEN Append(f[n].runs, f[n].current)
                              ELSE f[n].runs
  BY AdditionLoop
<1>4. \A k \in 0..n : f[k].runs \in Seq(Nat) /\ f[k].current \in Nat
  BY DEF Counters
<1> HIDE DEF n
<1> DEFINE Is(k) == Counted(h, k, f[k].runs, f[k].current)
           T == {k \in Nat : k <= n => Is(k)}
<1> HIDE DEF Is
<1>5. 0 \in T
  <2>1. f[0].runs = <<>> /\ f[0].current = 0 /\ Len(<<>>) = 0
    BY <1>3
  <2>2. Upto(h, 0) = {}
    <3>1. \A m \in Begins(h) : ~(m <= 0)
      BY AddedFacts
    <3> QED
      BY <3>1 DEF Upto
  <2>3. Cardinality(Upto(h, 0)) = 0
    BY <2>2, FS_EmptySet
  <2>4. Counted(h, 0, <<>>, 0)
    <3>1. 0 - 0 \notin Added(h) /\ \A m \in (0 - 0 + 1)..0 : m \in Added(h)
      BY <1>2
    <3>2. Cardinality(Upto(h, 0)) = Len(<<>>) + (IF 0 > 0 THEN 1 ELSE 0)
      BY <2>1, <2>3
    <3>3. \A j \in 1..Len(<<>>) : FALSE
      BY <2>1
    <3> QED
      BY <3>1, <3>2, <3>3 DEF Counted
  <2> QED
    BY <2>1, <2>4 DEF Is
<1>6. ASSUME NEW k \in Nat, k \in T
      PROVE  k + 1 \in T
  <2> SUFFICES ASSUME k + 1 <= n PROVE Is(k + 1)
    OBVIOUS
  <2>1. PICK j \in 1..n : j = k + 1 /\ j - 1 = k /\ k \in 0..n
    BY <1>1
  <2>2. PICK r \in Seq(Nat), c \in Nat :
          r = f[k].runs /\ c = f[k].current /\ f[k] \in Counters
    BY <1>4, <2>1
  <2>3. Counted(h, k, r, c)
    <3>1. Is(k)
      BY <1>1, <1>6, <2>1
    <3> QED
      BY <2>2, <3>1 DEF Is
  <2>4. f[j] = addition_line(f[k], h[j])
    BY <1>3, <2>1
  <2>5. CASE h[j] = "+"
    <3>1. f[j].runs = r /\ f[j].current = c + 1
      BY <2>2, <2>4, <2>5 DEF addition_line, Counters
    <3>2. k + 1 \in Added(h)
      BY <1>1, <2>1, <2>5
    <3>3. Counted(h, k + 1, r, c + 1)
      BY <2>3, <3>2, CountedAdded
    <3> QED
      BY <2>1, <3>1, <3>3 DEF Is
  <2>6. CASE h[j] # "+"
    <3>1. k + 1 \notin Added(h)
      BY <1>1, <2>1, <2>6
    <3>2. CASE c > 0
      <4>1. f[j].runs = Append(r, c) /\ f[j].current = 0
        BY <2>2, <2>4, <2>6, <3>2 DEF addition_line
      <4>2. Counted(h, k + 1, Append(r, c), 0)
        BY <2>3, <3>1, <3>2, CountedEnd
      <4> QED
        BY <2>1, <4>1, <4>2 DEF Is
    <3>3. CASE ~(c > 0)
      <4>1. f[j] = f[k] /\ c = 0
        BY <2>2, <2>4, <2>6, <3>3 DEF addition_line
      <4>2. Counted(h, k, r, 0)
        BY <2>3, <4>1
      <4>3. Counted(h, k + 1, r, 0)
        BY <3>1, <4>2, CountedOther
      <4> QED
        BY <2>1, <2>2, <4>1, <4>3 DEF Is
    <3> QED
      BY <3>2, <3>3
  <2> QED
    BY <2>5, <2>6
<1>7. Is(n)
  <2> HIDE DEF T
  <2>1. Nat \subseteq T
    BY <1>5, <1>6, NatSetInduction
  <2>2. n \in T
    BY <1>1, <2>1
  <2> QED
    BY <1>1, <2>2 DEF T
<1>8. PICK r \in Seq(Nat), c \in Nat : r = f[n].runs /\ c = f[n].current
  <2>1. n \in 0..n
    BY <1>1
  <2> QED
    BY <1>4, <2>1
<1>9. Counted(h, n, r, c)
  BY <1>7, <1>8 DEF Is
<1>10. CASE c > 0
  <2>1. Append(r, c) \in Seq(Nat) /\ Counted(h, n + 1, Append(r, c), 0)
    BY <1>1, <1>2, <1>9, <1>10, CountedEnd
  <2>2. Append(r, c) = Runs(h)
    <3>1. n + 1 \in Nat /\ Len(h) <= n + 1
      BY <1>1 DEF n
    <3> QED
      BY <2>1, <3>1, RunsAre
  <2> QED
    BY <1>3, <1>8, <1>10, <2>2
<1>11. CASE ~(c > 0)
  <2>1. Counted(h, n, r, 0)
    <3>1. c = 0
      BY <1>11
    <3> QED
      BY <1>9, <3>1
  <2>2. r = Runs(h)
    <3>1. Len(h) <= n
      BY <1>1 DEF n
    <3> QED
      BY <1>1, <2>1, <3>1, RunsAre
  <2> QED
    BY <1>3, <1>8, <1>11, <2>2
<1> QED
  BY <1>10, <1>11

-----------------------------------------------------------------------------
(***************************************************************************)
(* Where the tokens of a text are.                                         *)
(***************************************************************************)
\* a[n] is where token n of q begins in s, and s ends before a[Len(q) + 1].
Laid(a, q, s) ==
  /\ s \in Seq(Chars) /\ Len(s) \in Nat /\ Len(q) \in Nat
  /\ a \in [1..(Len(q) + 1) -> Nat \ {0}]
  /\ a[1] = 1 /\ a[Len(q) + 1] = Len(s) + 1
  /\ \A n \in 1..Len(q) : a[n + 1] = a[n] + Len(q[n])
  /\ \A n \in 1..Len(q), c \in Nat :
       1 <= c /\ c <= Len(q[n]) => s[a[n] + c - 1] = q[n][c]

\* The text so far stays as it is when more is added.
LEMMA FlatKeeps ==
  ASSUME NEW S, NEW q \in Seq(Seq(S)), NEW g, IsFlat(g, q, S),
         NEW m \in 0..Len(q), NEW j \in Nat, 1 <= j, j <= Len(g[m])
  PROVE  \A k \in m..Len(q) : g[k][j] = g[m][j] /\ j <= Len(g[k])
<1> DEFINE n == Len(q)
<1>1. n \in Nat /\ m \in 0..n /\ g \in [0..n -> Seq(S)]
      /\ \A k \in 1..n : g[k] = g[k - 1] \o q[k]
  BY LenProperties DEF IsFlat
<1>2. ASSUME NEW k \in 1..n
      PROVE  q[k] \in Seq(S) /\ Len(q[k]) \in Nat
  BY <1>2, ElementOfSeq, LenProperties
<1> HIDE DEF n
<1> DEFINE Is(k) == g[k][j] = g[m][j] /\ j <= Len(g[k])
           T == {k \in Nat : m + k <= n => Is(m + k)}
<1>3. 0 \in T
  BY <1>1
<1>4. ASSUME NEW k \in Nat, k \in T
      PROVE  k + 1 \in T
  <2> SUFFICES ASSUME m + (k + 1) <= n PROVE Is(m + (k + 1))
    OBVIOUS
  <2>1. PICK p \in 1..n : p = m + (k + 1) /\ p - 1 = m + k /\ p - 1 \in 0..n
    BY <1>1
  <2>2. Is(p - 1)
    BY <1>1, <1>4, <2>1
  <2>3. PICK u \in Seq(S), v \in Seq(S) : u = g[p - 1] /\ v = q[p] /\ g[p] = u \o v
    BY <1>1, <1>2, <2>1
  <2>4. Len(u) \in Nat /\ Len(v) \in Nat /\ Len(u \o v) = Len(u) + Len(v)
    BY <2>3, LenProperties, ConcatProperties
  <2>5. j \in 1..Len(u)
    BY <2>2, <2>3, <2>4
  <2>6. (u \o v)[j] = u[j]
    <3>1. j \in 1..(Len(u) + Len(v)) /\ j <= Len(u)
      BY <2>4, <2>5
    <3> QED
      BY <2>3, <3>1, ConcatProperties
  <2>7. j <= Len(u \o v)
    BY <2>4, <2>5
  <2> QED
    BY <2>1, <2>2, <2>3, <2>6, <2>7
<1>5. Nat \subseteq T
  <2> HIDE DEF T
  <2> QED
    BY <1>3, <1>4, NatSetInduction
<1>6. ASSUME NEW k \in m..n
      PROVE  Is(k)
  <2>1. k - m \in Nat /\ m + (k - m) = k /\ k <= n
    BY <1>1
  <2>2. k - m \in T
    BY <1>5, <2>1
  <2> QED
    BY <2>1, <2>2
<1> QED
  BY <1>6 DEF n

\* The tokens of a text have places in it.
LEMMA LaidExists ==
  ASSUME NEW q \in Seq(Seq(Chars))
  PROVE  \E a : Laid(a, q, FlattenSeq(q))
<1> DEFINE n == Len(q)
           s == FlattenSeq(q)
<1>1. PICK g : IsFlat(g, q, Chars)
  BY FlatExists
<1>2. s = g[n] /\ s \in Seq(Chars)
  BY <1>1, FlatIs
<1>3. n \in Nat /\ g \in [0..n -> Seq(Chars)] /\ g[0] = <<>>
      /\ \A k \in 1..n : g[k] = g[k - 1] \o q[k]
  BY <1>1, LenProperties DEF IsFlat
<1>4. ASSUME NEW k \in 1..n
      PROVE  q[k] \in Seq(Chars) /\ Len(q[k]) \in Nat
  BY <1>4, ElementOfSeq, LenProperties
<1>5. \A k \in 0..n : Len(g[k]) \in Nat
  BY <1>3, LenProperties
<1> HIDE DEF n, s
<1> DEFINE a == [k \in 1..(n + 1) |-> Len(g[k - 1]) + 1]
<1>6. ASSUME NEW k \in 1..n
      PROVE  Len(g[k]) = Len(g[k - 1]) + Len(q[k])
  <2>1. k - 1 \in 0..n
    BY <1>3
  <2>2. g[k - 1] \in Seq(Chars) /\ q[k] \in Seq(Chars) /\ g[k] = g[k - 1] \o q[k]
    BY <1>3, <1>4, <2>1
  <2> QED
    BY <2>2, ConcatProperties
<1>7. a \in [1..(n + 1) -> Nat \ {0}]
  <2>1. ASSUME NEW k \in 1..(n + 1)
        PROVE  Len(g[k - 1]) + 1 \in Nat \ {0}
    <3>1. k - 1 \in 0..n
      BY <1>3
    <3> QED
      BY <1>5, <3>1
  <2> QED
    BY <2>1
<1>8. a[1] = 1
  <2>1. 1 \in 1..(n + 1) /\ 1 - 1 = 0
    BY <1>3
  <2>2. Len(g[0]) = 0
    BY <1>3
  <2> QED
    BY <2>1, <2>2
<1>9. a[n + 1] = Len(s) + 1
  <2>1. n + 1 \in 1..(n + 1) /\ (n + 1) - 1 = n
    BY <1>3
  <2> QED
    BY <1>2, <2>1
<1>10. ASSUME NEW k \in 1..n
       PROVE  a[k + 1] = a[k] + Len(q[k])
  <2>1. k + 1 \in 1..(n + 1) /\ k \in 1..(n + 1) /\ (k + 1) - 1 = k /\ k - 1 \in 0..n
        /\ k \in 0..n
    BY <1>3
  <2>2. a[k + 1] = Len(g[k]) + 1 /\ a[k] = Len(g[k - 1]) + 1
    BY <2>1
  <2>3. PICK x \in Nat, y \in Nat, z \in Nat :
          x = Len(g[k - 1]) /\ y = Len(q[k]) /\ z = Len(g[k]) /\ z = x + y
    BY <1>4, <1>5, <1>6, <2>1
  <2> HIDE DEF a
  <2>4. a[k + 1] = z + 1 /\ a[k] = x + 1
    BY <2>2, <2>3
  <2>5. \A b, c, d \in Nat : d = b + c => d + 1 = (b + 1) + c
    OBVIOUS
  <2>6. z + 1 = (x + 1) + y
    BY <2>3, <2>5
  <2> QED
    BY <2>3, <2>4, <2>6
<1>11. ASSUME NEW k \in 1..n, NEW c \in Nat, 1 <= c, c <= Len(q[k])
       PROVE  s[a[k] + c - 1] = q[k][c]
  <2>1. k \in 1..(n + 1) /\ k - 1 \in 0..n /\ k \in 0..n /\ n \in k..n
    BY <1>3
  <2>2. PICK u \in Seq(Chars), v \in Seq(Chars) :
          u = g[k - 1] /\ v = q[k] /\ g[k] = u \o v
    BY <1>3, <1>4, <2>1
  <2>3. PICK p \in Nat : p = Len(u) + c
    BY <2>2, LenProperties
  <2>4. Len(u) \in Nat /\ Len(v) \in Nat /\ c <= Len(v)
    BY <1>11, <2>2, LenProperties
  <2>5. a[k] + c - 1 = p
    BY <2>1, <2>2, <2>3, <2>4
  <2>6. p \in 1..(Len(u) + Len(v)) /\ ~(p <= Len(u)) /\ p - Len(u) = c
    BY <1>11, <2>3, <2>4
  <2>7. (u \o v)[p] = v[c] /\ Len(u \o v) = Len(u) + Len(v)
    <3>1. (u \o v)[p] = IF p <= Len(u) THEN u[p] ELSE v[p - Len(u)]
      BY <2>2, <2>6, ConcatProperties
    <3>2. Len(u \o v) = Len(u) + Len(v)
      BY <2>2, ConcatProperties
    <3> QED
      BY <2>6, <3>1, <3>2
  <2>8. 1 <= p /\ p <= Len(g[k])
    <3>1. PICK x \in Nat, y \in Nat : x = Len(u) /\ y = Len(v)
      BY <2>4
    <3>2. 1 <= p /\ p <= x + y
      BY <2>6, <3>1
    <3>3. Len(g[k]) = x + y
      BY <2>2, <2>7, <3>1
    <3> QED
      BY <3>2, <3>3
  <2>9. g[n][p] = g[k][p]
    BY <1>1, <2>1, <2>3, <2>8, FlatKeeps DEF n
  <2> QED
    BY <1>2, <2>2, <2>5, <2>7, <2>9
<1>12. Len(s) \in Nat
  BY <1>2, LenProperties
<1> HIDE DEF a
<1>13. Laid(a, q, s)
  BY <1>2, <1>3, <1>7, <1>8, <1>9, <1>10, <1>11, <1>12 DEF Laid, n
<1> QED
  BY <1>13 DEF s

\* No token is empty.
Solid(q) == \A n \in 1..Len(q) : Len(q[n]) \in Nat \ {0}

\* A token is in the text as a whole, before the next one.
LEMMA LaidOrder ==
  ASSUME NEW a, NEW q, NEW s, Laid(a, q, s), Solid(q),
         NEW n \in 1..Len(q), NEW m \in Nat, n < m, m <= Len(q) + 1
  PROVE  a[n] + Len(q[n]) <= a[m]
<1> DEFINE l == Len(q)
           T == {k \in Nat : n + 1 + k <= l + 1 => a[n + 1] <= a[n + 1 + k]}
<1>1. l \in Nat /\ n \in 1..l /\ m <= l + 1
  BY DEF Laid
<1>2. ASSUME NEW k \in 1..l
      PROVE  a[k + 1] = a[k] + Len(q[k]) /\ Len(q[k]) \in Nat \ {0}
  BY <1>2 DEF Laid, Solid
<1>3. \A k \in 1..(l + 1) : a[k] \in Nat
  BY DEF Laid
<1> HIDE DEF l
<1>4. 0 \in T
  <2>1. n + 1 + 0 = n + 1 /\ n + 1 \in 1..(l + 1)
    BY <1>1
  <2>2. a[n + 1] \in Nat
    BY <1>3, <2>1
  <2> QED
    BY <2>1, <2>2
<1>5. ASSUME NEW k \in Nat, k \in T
      PROVE  k + 1 \in T
  <2> SUFFICES ASSUME n + 1 + (k + 1) <= l + 1 PROVE a[n + 1] <= a[n + 1 + (k + 1)]
    OBVIOUS
  <2>1. PICK p \in 1..l : p = n + 1 + k /\ p + 1 = n + 1 + (k + 1)
    BY <1>1
  <2>2. a[n + 1] <= a[p]
    BY <1>1, <1>5, <2>1
  <2>3. p \in 1..(l + 1) /\ n + 1 \in 1..(l + 1) /\ p + 1 \in 1..(l + 1)
    BY <1>1
  <2>4. PICK x \in Nat, y \in Nat, z \in Nat, w \in Nat :
          x = a[n + 1] /\ y = a[p] /\ z = a[p + 1] /\ w = Len(q[p]) /\ z = y + w
    BY <1>2, <1>3, <2>3
  <2>5. x <= y
    BY <2>2, <2>4
  <2>6. x <= z
    BY <2>4, <2>5
  <2> QED
    BY <2>1, <2>4, <2>6
<1>6. Nat \subseteq T
  <2> HIDE DEF T
  <2> QED
    BY <1>4, <1>5, NatSetInduction
<1>7. a[n + 1] <= a[m]
  <2>1. m - (n + 1) \in Nat /\ n + 1 + (m - (n + 1)) = m
    BY <1>1
  <2>2. m - (n + 1) \in T
    BY <1>6, <2>1
  <2> QED
    BY <1>1, <2>1, <2>2
<1> QED
  BY <1>1, <1>2, <1>7

\* Every character of the text is one of a token.
LEMMA LaidPlace ==
  ASSUME NEW a, NEW q, NEW s, Laid(a, q, s), Solid(q), NEW j \in 1..Len(s)
  PROVE  \E n \in 1..Len(q) : \E c \in Nat :
           1 <= c /\ c <= Len(q[n]) /\ j = a[n] + c - 1 /\ s[j] = q[n][c]
<1> DEFINE l == Len(q)
           T == {k \in Nat : k <= l => (j < a[k + 1]
                   => \E n \in 1..l : a[n] <= j /\ j < a[n + 1])}
<1>1. l \in Nat /\ a[1] = 1 /\ a[l + 1] = Len(s) + 1 /\ j \in Nat /\ 1 <= j
      /\ j < a[l + 1]
  BY DEF Laid
<1>2. ASSUME NEW k \in 1..l
      PROVE  a[k + 1] = a[k] + Len(q[k]) /\ Len(q[k]) \in Nat \ {0}
  BY <1>2 DEF Laid, Solid
<1>3. \A k \in 1..(l + 1) : a[k] \in Nat
  BY DEF Laid
<1> HIDE DEF l
<1>4. 0 \in T
  BY <1>1
<1>5. ASSUME NEW k \in Nat, k \in T
      PROVE  k + 1 \in T
  <2> SUFFICES ASSUME k + 1 <= l, j < a[k + 1 + 1]
               PROVE  \E n \in 1..l : a[n] <= j /\ j < a[n + 1]
    OBVIOUS
  <2>1. PICK p \in 1..l : p = k + 1
    BY <1>1
  <2>2. a[p] \in Nat
    <3>1. p \in 1..(l + 1)
      BY <1>1
    <3> QED
      BY <1>3, <3>1
  <2>3. CASE j < a[p]
    BY <1>1, <1>5, <2>1, <2>3
  <2>4. CASE ~(j < a[p])
    <3>1. a[p] <= j
      BY <1>1, <2>2, <2>4
    <3> QED
      BY <2>1, <3>1
  <2> QED
    BY <2>3, <2>4
<1>6. l \in T
  <2> HIDE DEF T
  <2>1. Nat \subseteq T
    BY <1>4, <1>5, NatSetInduction
  <2> QED
    BY <1>1, <2>1
<1>7. PICK n \in 1..l : a[n] <= j /\ j < a[n + 1]
  BY <1>1, <1>6
<1>8. PICK x \in Nat, y \in Nat \ {0} :
        x = a[n] /\ y = Len(q[n]) /\ a[n + 1] = x + y /\ x <= j /\ j < x + y
  <2>1. n \in 1..(l + 1)
    BY <1>1
  <2> QED
    BY <1>2, <1>3, <1>7, <2>1
<1>9. PICK c \in Nat : c = j - x + 1 /\ 1 <= c /\ c <= y /\ j = x + c - 1
  <2>1. \A b, d, e \in Nat : b <= e /\ e < b + d =>
          /\ e - b + 1 \in Nat /\ 1 <= e - b + 1 /\ e - b + 1 <= d
          /\ e = b + (e - b + 1) - 1
    OBVIOUS
  <2>2. j - x + 1 \in Nat /\ 1 <= j - x + 1 /\ j - x + 1 <= y
        /\ j = x + (j - x + 1) - 1
    BY <1>1, <1>8, <2>1
  <2> QED
    BY <2>2
<1>10. s[a[n] + c - 1] = q[n][c]
  BY <1>8, <1>9 DEF Laid, l
<1> QED
  BY <1>8, <1>9, <1>10 DEF l

-----------------------------------------------------------------------------
(***************************************************************************)
(* The tokens of C.                                                        *)
(***************************************************************************)
\* A token of one character.
Single(x) == <<x>>

Anchors == {"guard", "label", "destroy", "call", "cleanup"}
Definition == <<"signature", "{">>
Declaration == <<"signature", ";">>
Quotient2 == <<"/", "x">>
Spanning == LineComment \cup BlockComment \cup Literal("quote") \cup Literal("tick")

\* A token is a character, a pair, or a comment or literal.
LEMMA TokenKinds ==
  ASSUME NEW t \in Token
  PROVE  \/ \E c \in Chars \ {"quote", "tick", "/", "signature"} : t = <<c>>
         \/ t \in {Definition, Declaration, Quotient2}
         \/ t \in Spanning
BY DEF Token, Definition, Declaration, Quotient2, Spanning

\* Comments and literals have two characters or more, and no piece.
LEMMA SpanningFacts ==
  ASSUME NEW t \in Spanning
  PROVE  t \in Seq(Plain) /\ Len(t) \in Nat /\ Len(t) >= 2
<1>1. t \in Seq(Plain)
  BY DEF Spanning, LineComment, BlockComment, Literal
<1>2. Len(t) \in Nat
  BY <1>1, LenProperties
<1>3. Len(t) >= 2 \/ Len(t) >= 3 \/ Len(t) >= 4
  BY DEF Spanning, LineComment, BlockComment, Literal
<1> QED
  BY <1>1, <1>2, <1>3

\* No piece is a character of a comment or literal.
LEMMA PlainChars == Plain \subseteq Chars /\ Anchors \cap Plain = {} /\ "signature" \notin Plain
BY DEF Plain, Chars, Anchors

\* No token is empty.
LEMMA TokenFacts ==
  ASSUME NEW t \in Token
  PROVE  t \in Seq(Chars) /\ Len(t) \in Nat \ {0}
<1>1. CASE t \in Spanning
  <2>1. t \in Seq(Plain) /\ Len(t) \in Nat /\ Len(t) >= 2
    BY <1>1, SpanningFacts
  <2>2. Seq(Plain) \subseteq Seq(Chars)
    BY PlainChars, SeqMonotonic
  <2> QED
    BY <2>1, <2>2
<1>2. CASE \E c \in Chars : t = <<c>>
  BY <1>2
<1>3. CASE t \in {Definition, Declaration, Quotient2}
  <2>1. PICK c \in Chars, d \in Chars : t = <<c, d>>
    BY <1>3 DEF Definition, Declaration, Quotient2, Chars
  <2> QED
    BY <2>1
<1> QED
  BY <1>1, <1>2, <1>3, TokenKinds

\* An anchor is a token of its own, and a signature begins one.
LEMMA TokenPieces ==
  ASSUME NEW t \in Token, NEW c \in Nat, 1 <= c, c <= Len(t)
  PROVE  /\ t[c] \in Anchors => c = 1 /\ t = <<t[c]>>
         /\ t[c] = "signature" => c = 1 /\ t \in {Definition, Declaration}
<1>1. CASE t \in Spanning
  <2>1. t \in Seq(Plain)
    BY <1>1, SpanningFacts
  <2>2. c \in 1..Len(t)
    BY LenProperties, <2>1
  <2>3. t[c] \in Plain
    BY <2>1, <2>2, ElementOfSeq
  <2> QED
    BY <2>3, PlainChars
<1>2. CASE \E x \in Chars \ {"quote", "tick", "/", "signature"} : t = <<x>>
  <2>1. PICK x \in Chars \ {"quote", "tick", "/", "signature"} : t = <<x>>
    BY <1>2
  <2>2. Len(t) = 1 /\ t[1] = x
    BY <2>1
  <2>3. c = 1
    BY <2>2
  <2> QED
    BY <2>1, <2>2, <2>3
<1>3. CASE t \in {Definition, Declaration, Quotient2}
  <2>1. /\ Len(t) = 2 /\ t[1] \in {"signature", "/"} /\ t[2] \in {"{", ";", "x"}
        /\ (t[1] = "signature" => t \in {Definition, Declaration})
    <3>1. CASE t = Definition
      BY <3>1 DEF Definition
    <3>2. CASE t = Declaration
      BY <3>2 DEF Declaration
    <3>3. CASE t = Quotient2
      BY <3>3 DEF Quotient2
    <3> QED
      BY <1>3, <3>1, <3>2, <3>3
  <2>2. c = 1 \/ c = 2
    <3>1. \A n \in Nat : 1 <= n /\ n <= 2 => n = 1 \/ n = 2
      OBVIOUS
    <3>2. c <= 2
      BY <2>1
    <3> QED
      BY <3>1, <3>2
  <2> QED
    BY <2>1, <2>2 DEF Anchors
<1> QED
  BY <1>1, <1>2, <1>3, TokenKinds

\* So the places of tokens of C grow.
LEMMA TokensSolid ==
  ASSUME NEW q \in Seq(Token)
  PROVE  /\ Solid(q) /\ q \in Seq(Seq(Chars))
         /\ \A n \in 1..Len(q) : q[n] \in Token
<1>1. ASSUME NEW n \in 1..Len(q)
      PROVE  q[n] \in Token
  BY ElementOfSeq
<1>2. Token \subseteq Seq(Chars)
  BY TokenFacts
<1>3. q \in Seq(Seq(Chars))
  BY <1>2, SeqMonotonic
<1> QED
  BY <1>1, <1>3, TokenFacts DEF Solid

\* A character of a token is in the text.
LEMMA TokenInText ==
  ASSUME NEW a, NEW q, NEW s, Laid(a, q, s), Solid(q),
         NEW n \in 1..Len(q), NEW c \in Nat, 1 <= c, c <= Len(q[n])
  PROVE  /\ a[n] + c - 1 \in 1..Len(s) /\ s[a[n] + c - 1] = q[n][c]
         /\ a[n] \in Nat \ {0}
<1>1. a[n] \in Nat \ {0} /\ Len(s) \in Nat /\ a[Len(q) + 1] = Len(s) + 1 /\ Len(q) \in Nat
      /\ Len(q[n]) \in Nat
  BY DEF Laid, Solid
<1>2. a[n] + Len(q[n]) <= a[Len(q) + 1]
  BY <1>1, LaidOrder
<1>3. \A b, d, e, f \in Nat : b # 0 /\ 1 <= e /\ e <= d /\ b + d <= f + 1 => b + e - 1 \in 1..f
  OBVIOUS
<1>4. a[n] + Len(q[n]) <= Len(s) + 1
  BY <1>1, <1>2
<1>5. a[n] + c - 1 \in 1..Len(s)
  BY <1>1, <1>3, <1>4
<1>6. s[a[n] + c - 1] = q[n][c]
  BY DEF Laid
<1> QED
  BY <1>1, <1>5, <1>6

\* Where an anchor is.
LEMMA AnchorOf ==
  ASSUME NEW a, NEW q \in Seq(Token), NEW s, Laid(a, q, s), NEW j \in 1..Len(s)
  PROVE  s[j] \in Anchors => \E n \in 1..Len(q) : q[n] = Single(s[j]) /\ a[n] = j
<1>0. Solid(q)
  BY TokensSolid
<1>1. Solid(q) /\ \A n \in 1..Len(q) : q[n] \in Token
  BY TokensSolid
<1>2. PICK n \in 1..Len(q) : \E c \in Nat :
        1 <= c /\ c <= Len(q[n]) /\ j = a[n] + c - 1 /\ s[j] = q[n][c]
  BY <1>0, LaidPlace
<1>3. PICK c \in Nat : 1 <= c /\ c <= Len(q[n]) /\ j = a[n] + c - 1 /\ s[j] = q[n][c]
  BY <1>2
<1>4. a[n] \in Nat
  BY <1>1, <1>3, TokenInText
<1>5. ASSUME s[j] \in Anchors
      PROVE  q[n] = Single(s[j]) /\ a[n] = j
  <2>1. c = 1 /\ q[n] = Single(q[n][c])
    BY <1>1, <1>3, <1>5, TokenPieces DEF Single
  <2>2. j = a[n]
    BY <1>3, <1>4, <2>1
  <2> QED
    BY <1>3, <2>1, <2>2
<1> QED
  BY <1>5

\* A token of one character is where that character is.
LEMMA AnchorAt ==
  ASSUME NEW a, NEW q \in Seq(Token), NEW s, Laid(a, q, s), NEW n \in 1..Len(q)
  PROVE  /\ a[n] \in 1..Len(s) /\ a[n] \in Nat
         /\ \A x : q[n] = Single(x) => s[a[n]] = x
<1>1. Solid(q)
  BY TokensSolid
<1>2. 1 <= 1 /\ 1 <= Len(q[n]) /\ 1 \in Nat
  BY <1>1 DEF Solid
<1>3. a[n] + 1 - 1 \in 1..Len(s) /\ s[a[n] + 1 - 1] = q[n][1] /\ a[n] \in Nat
  BY <1>1, <1>2, TokenInText
<1>4. a[n] + 1 - 1 = a[n]
  BY <1>3
<1>5. ASSUME NEW x, q[n] = Single(x)
      PROVE  s[a[n]] = x
  BY <1>3, <1>4, <1>5 DEF Single
<1> QED
  BY <1>3, <1>4, <1>5

\* Where a definition of the function is.
LEMMA DefinitionAt ==
  ASSUME NEW a, NEW q \in Seq(Token), NEW s, Laid(a, q, s), NEW n \in 1..Len(q),
         Len(q[n]) = 2
  PROVE  /\ a[n] \in 1..Len(s) /\ s[a[n]] = q[n][1]
         /\ a[n] + 1 \in 1..Len(s) /\ s[a[n] + 1] = q[n][2]
<1>1. Solid(q)
  BY TokensSolid
<1>2. /\ a[n] + 1 - 1 \in 1..Len(s) /\ s[a[n] + 1 - 1] = q[n][1] /\ a[n] \in Nat
  BY <1>1, TokenInText
<1>3. /\ a[n] + 2 - 1 \in 1..Len(s) /\ s[a[n] + 2 - 1] = q[n][2]
  <2>1. 1 <= 2 /\ 2 <= Len(q[n]) /\ 2 \in Nat
    OBVIOUS
  <2> QED
    BY <1>1, <2>1, TokenInText
<1>4. a[n] + 1 - 1 = a[n] /\ a[n] + 2 - 1 = a[n] + 1
  BY <1>2
<1> QED
  BY <1>2, <1>3, <1>4

Defined(a, q, s, j) ==
  s[j] = "signature" /\ s[j + 1] = "{"
    => \E n \in 1..Len(q) : q[n] = Definition /\ a[n] = j

\* A signature followed by a brace is the token of a definition.
LEMMA DefinitionOf ==
  ASSUME NEW a, NEW q \in Seq(Token), NEW s, Laid(a, q, s), NEW j \in 1..Len(s)
  PROVE  Defined(a, q, s, j)
<1>0. Solid(q)
  BY TokensSolid
<1>1. Solid(q) /\ \A n \in 1..Len(q) : q[n] \in Token
  BY TokensSolid
<1>2. Len(Definition) = 2 /\ Len(Declaration) = 2 /\ Declaration[2] = ";"
  BY DEF Definition, Declaration
<1>3. PICK n \in 1..Len(q) : \E c \in Nat :
        1 <= c /\ c <= Len(q[n]) /\ j = a[n] + c - 1 /\ s[j] = q[n][c]
  BY <1>0, LaidPlace
<1>4. PICK c \in Nat : 1 <= c /\ c <= Len(q[n]) /\ j = a[n] + c - 1 /\ s[j] = q[n][c]
  BY <1>3
<1>5. a[n] \in Nat
  BY <1>1, <1>4, TokenInText
<1>6. Len(q[n]) = 2 => s[a[n] + 1] = q[n][2]
  <2> SUFFICES ASSUME Len(q[n]) = 2 PROVE s[a[n] + 1] = q[n][2]
    OBVIOUS
  <2> QED
    BY DefinitionAt
<1>7. ASSUME s[j] = "signature", s[j + 1] = "{"
      PROVE  q[n] = Definition /\ a[n] = j
  <2>1. c = 1 /\ q[n] \in {Definition, Declaration}
    BY <1>1, <1>4, <1>7, TokenPieces
  <2>2. j = a[n]
    BY <1>4, <1>5, <2>1
  <2>3. s[j + 1] = q[n][2]
    BY <1>2, <1>6, <2>1, <2>2
  <2>4. q[n] # Declaration
    BY <1>2, <1>7, <2>3
  <2> QED
    BY <2>1, <2>2, <2>4
<1> QED
  BY <1>7 DEF Defined

-----------------------------------------------------------------------------
(***************************************************************************)
(* Types, and what was read of the patch.                                  *)
(***************************************************************************)
\* The script gets as far as the insertion with a patch of MinHunks hunks.
EnoughHunks == [n \in {1} |-> [wanted |-> TRUE, hunks |-> [k \in 1..MinHunks |-> <<>>]]]

\* Where the scanner is: it begins at the brace of the definition, with a
\* depth of 0, and has a depth of 1 or more after it.
Scanning ==
  /\ start \in DOMAIN text /\ start + 1 <= i
  /\ text[start] = "signature" /\ CharAt(start + 1) = "{"
  /\ i = start + 1 => depth = 0 /\ mode = "code"

TextInv ==
  /\ TypeOK
  /\ patch \in Files /\ tokens \in Seq(Seq(Chars)) /\ job \in Jobs
  /\ pc \in {"scan", "insert"} => Scanning
  /\ pc = "scan" /\ i # start + 1 => depth >= 1
  /\ pc = "insert" => i <= Len(text)
  /\ HunksRead

\* The patches of the model are lines of hunks, by file.
LEMMA FilesGiven == Patches \subseteq Files /\ EnoughHunks \in Files
<1>1. Patches \subseteq Files
  BY TextAssumption DEF Files, HunkLines
<1>2. EnoughHunks \in Files
  <2> DEFINE H == Seq(HunkLines)
             P == [wanted : BOOLEAN, hunks : Seq(H)]
             r == [k \in 1..MinHunks |-> <<>>]
             f == [wanted |-> TRUE, hunks |-> r]
  <2>1. <<>> \in H /\ MinHunks \in Nat
    BY TextAssumption, EmptySeq
  <2> HIDE DEF H
  <2>2. r \in [1..MinHunks -> H]
    BY <2>1
  <2> HIDE DEF r
  <2>3. r \in Seq(H)
    BY <2>1, <2>2, FunctionIsSeq
  <2>4. f \in P
    BY <2>3
  <2>5. EnoughHunks = [n \in {1} |-> f]
    BY DEF EnoughHunks, r
  <2> HIDE DEF f, P
  <2>6. EnoughHunks \in [1..1 -> P]
    <3>1. 1..1 = {1}
      OBVIOUS
    <3> QED
      BY <2>4, <2>5, <3>1
  <2>7. EnoughHunks \in Seq(P)
    BY <2>6, FunctionIsSeq
  <2> QED
    BY <2>7 DEF Files, P, H
<1> QED
  BY <1>1, <1>2

\* Flattening puts the elements into one sequence.
LEMMA FlattenedType ==
  ASSUME NEW S, NEW q \in Seq(Seq(S))
  PROVE  FlattenSeq(q) \in Seq(S)
<1>1. PICK g : IsFlat(g, q, S)
  BY FlatExists
<1> QED
  BY <1>1, FlatIs

\* The invariant holds at first.
LEMMA TextInit == Init => TextInv
<1> SUFFICES ASSUME Init PROVE TextInv
  OBVIOUS
<1>1. patch \in Files /\ tokens \in Seq(Seq(Chars)) /\ job \in Jobs
  <2>1. CASE patch \in Patches /\ tokens = <<>>
    BY <2>1, FilesGiven, EmptySeq DEF Init
  <2>2. CASE patch = EnoughHunks /\ tokens \in Sources
    <3>1. tokens \in Seq(Token)
      BY <2>2, TextAssumption
    <3>2. tokens \in Seq(Seq(Chars))
      BY <3>1, TokensSolid
    <3> QED
      BY <2>2, <3>2, FilesGiven DEF Init
  <2> QED
    BY <2>1, <2>2 DEF Init, EnoughHunks
<1>2. text \in Seq(Chars) /\ Len(text) \in Nat
  BY <1>1, FlattenedType, LenProperties DEF Init
<1>3. hunks = <<>> /\ start = 0 /\ i = 0 /\ depth = 0 /\ mode = "code" /\ escape = FALSE
      /\ pc = "read"
  BY DEF Init
<1>4. hunks \in Seq(Seq(Lines))
  BY <1>3, EmptySeq
<1>5. start \in 0..Len(text) /\ i \in 0..(Len(text) + 1) /\ depth \in Nat
  <2> DEFINE l == Len(text)
  <2>1. l \in Nat
    BY <1>2
  <2> HIDE DEF l
  <2>2. 0 \in 0..l /\ 0 \in 0..(l + 1)
    BY <2>1
  <2> QED
    BY <1>3, <2>2 DEF l
<1>6. TypeOK
  BY <1>2, <1>3, <1>4, <1>5 DEF TypeOK, Modes
<1> QED
  BY <1>1, <1>3, <1>6 DEF TextInv, HunksRead

\* An insertion makes a text longer by one.
LEMMA TextInsert ==
  ASSUME NEW s \in Seq(Chars), NEW k \in 1..(Len(s) + 1), NEW c \in Chars
  PROVE  InsertAt(s, k, c) \in Seq(Chars) /\ Len(InsertAt(s, k, c)) = Len(s) + 1
<1> DEFINE a == SubSeq(s, 1, k - 1)
           b == SubSeq(s, k, Len(s))
<1>1. Len(s) \in Nat /\ \A m \in 1..Len(s) : s[m] \in Chars
  BY LenProperties, ElementOfSeq
<1>2. a \in Seq(Chars) /\ Len(a) = k - 1
  <2>1. k - 1 \in Int /\ 1 \in Int /\ \A m \in 1..(k - 1) : s[m] \in Chars
    BY <1>1
  <2>2. a \in Seq(Chars) /\ Len(a) = IF 1 <= k - 1 THEN (k - 1) - 1 + 1 ELSE 0
    BY <2>1, SubSeqProperties
  <2> QED
    BY <1>1, <2>2
<1>3. b \in Seq(Chars) /\ Len(b) = Len(s) - k + 1
  <2>1. k \in Int /\ Len(s) \in Int /\ \A m \in k..Len(s) : s[m] \in Chars
    BY <1>1
  <2>2. b \in Seq(Chars) /\ Len(b) = IF k <= Len(s) THEN Len(s) - k + 1 ELSE 0
    BY <2>1, SubSeqProperties
  <2> QED
    BY <1>1, <2>2
<1>4. <<c>> \in Seq(Chars) /\ Len(<<c>>) = 1
  OBVIOUS
<1>5. InsertAt(s, k, c) = (a \o <<c>>) \o b
  BY DEF InsertAt
<1> HIDE DEF a, b
<1>6. a \o <<c>> \in Seq(Chars) /\ Len(a \o <<c>>) = (k - 1) + 1
  BY <1>2, <1>4, ConcatProperties
<1>7. /\ (a \o <<c>>) \o b \in Seq(Chars)
      /\ Len((a \o <<c>>) \o b) = Len(a \o <<c>>) + Len(b)
  BY <1>3, <1>6, ConcatProperties
<1>8. Len((a \o <<c>>) \o b) = ((k - 1) + 1) + (Len(s) - k + 1)
  BY <1>3, <1>6, <1>7
<1>9. ((k - 1) + 1) + (Len(s) - k + 1) = Len(s) + 1
  BY <1>1
<1> QED
  BY <1>5, <1>7, <1>8, <1>9

\* What parse_file_hunks returns, and the runs in it.
LEMMA HunksGiven ==
  ASSUME NEW p \in Files, NEW h, h = parse_file_hunks(Rendered(p))
  PROVE  /\ h \in Seq(Seq(Lines)) /\ h = FlattenSeq(Wanted(p))
         /\ \A n \in DOMAIN h : addition_runs(h[n]) = Runs(h[n])
<1>1. h = FlattenSeq(Wanted(p)) /\ h \in Seq(Seq(HunkLines))
  BY ReadsPatch
<1>2. ASSUME NEW n \in DOMAIN h
      PROVE  addition_runs(h[n]) = Runs(h[n])
  <2>1. h[n] \in Seq(HunkLines)
    BY <1>1, ElementOfSeq, LenProperties
  <2> QED
    BY <2>1, AdditionRuns
<1>3. h \in Seq(Seq(Lines))
  <2>1. HunkLines \subseteq Lines
    BY DEF HunkLines, Lines
  <2>2. Seq(HunkLines) \subseteq Seq(Lines)
    BY <2>1, SeqMonotonic
  <2> QED
    BY <1>1, <2>2, SeqMonotonic
<1> QED
  BY <1>1, <1>2, <1>3

-----------------------------------------------------------------------------
(***************************************************************************)
(* Each action.                                                            *)
(***************************************************************************)
LEMMA StepRead == TextInv /\ read_patch => TextInv'
<1> SUFFICES ASSUME TextInv, read_patch PROVE TextInv'
  OBVIOUS
<1>1. /\ pc = "read" /\ pc' \in {"died", "find"}
      /\ hunks' = parse_file_hunks(Rendered(patch))
      /\ UNCHANGED <<patch, tokens, text, job, start, i, depth, mode, escape>>
  BY DEF read_patch, scanner
<1>2. /\ hunks' \in Seq(Seq(Lines)) /\ hunks' = FlattenSeq(Wanted(patch'))
      /\ \A n \in DOMAIN hunks' : addition_runs(hunks'[n]) = Runs(hunks'[n])
  BY <1>1, HunksGiven DEF TextInv
<1>3. TypeOK'
  BY <1>1, <1>2 DEF TextInv, TypeOK
<1>4. HunksRead'
  BY <1>2 DEF HunksRead, Wanted
<1> QED
  BY <1>1, <1>3, <1>4 DEF TextInv

\* A place of a sequence is a number up to its length.
LEMMA Places ==
  ASSUME NEW S, NEW s \in Seq(S), NEW k \in DOMAIN s
  PROVE  k \in Nat /\ 1 <= k /\ k <= Len(s)
<1> DEFINE l == Len(s)
<1>1. l \in Nat /\ k \in 1..l
  BY LenProperties
<1> HIDE DEF l
<1>2. k \in Nat /\ 1 <= k /\ k <= l
  BY <1>1
<1> QED
  BY <1>2 DEF l

\* Nothing changes but the scanner's state, and the program counter.
LEMMA StepScanner ==
  ASSUME TextInv, UNCHANGED <<patch, hunks, tokens, text, job>>, pc # "read",
         start' \in 0..Len(text), i' \in 0..(Len(text) + 1), depth' \in Nat,
         mode' \in Modes, escape' \in BOOLEAN,
         pc' \in {"scan", "insert", "done", "died"},
         pc' \in {"scan", "insert"} => Scanning',
         pc' = "scan" /\ i' # start' + 1 => depth' >= 1,
         pc' = "insert" => i' <= Len(text)
  PROVE  TextInv'
<1>1. HunksRead'
  BY DEF TextInv, HunksRead
<1>2. TypeOK'
  BY DEF TextInv, TypeOK
<1> QED
  BY <1>1, <1>2 DEF TextInv

\* find keeps the invariant: the scan begins at a definition.
LEMMA StepFind == TextInv /\ find => TextInv'
<1> SUFFICES ASSUME TextInv, find PROVE TextInv'
  OBVIOUS
<1>1. UNCHANGED <<patch, hunks, tokens, text, job>> /\ pc = "find"
  BY DEF find
<1>2. /\ start \in 0..Len(text) /\ i \in 0..(Len(text) + 1) /\ depth \in Nat
      /\ mode \in Modes /\ escape \in BOOLEAN /\ text \in Seq(Chars)
  BY DEF TextInv, TypeOK
<1>3. CASE UNCHANGED scanner /\ pc' \in {"done", "died"}
  BY <1>1, <1>2, <1>3, StepScanner DEF scanner
<1>4. CASE ~(UNCHANGED scanner /\ pc' \in {"done", "died"})
  <2>1. PICK k \in Definitions : start' = k /\ i' = k + 1
    BY <1>4 DEF find
  <2>2. depth' = 0 /\ mode' = "code" /\ escape' = FALSE /\ pc' = "scan"
    BY <1>4 DEF find
  <2>3. Len(text) \in Nat /\ DOMAIN text = 1..Len(text)
    BY <1>2, LenProperties
  <2>4. k \in 1..Len(text) /\ text[k] = "signature" /\ CharAt(k + 1) = "{"
    BY <2>3 DEF Definitions
  <2>5. k \in 0..Len(text) /\ k + 1 \in 0..(Len(text) + 1)
    <3> DEFINE l == Len(text)
    <3>1. l \in Nat /\ k \in 1..l
      BY <2>3, <2>4
    <3> HIDE DEF l
    <3>2. k \in 0..l /\ k + 1 \in 0..(l + 1)
      BY <3>1
    <3> QED
      BY <3>2 DEF l
  <2>6. Scanning'
    <3>1. text'[start'] = "signature" /\ start' \in DOMAIN text'
      BY <1>1, <2>1, <2>3, <2>4
    <3>2. CharAt(start + 1)' = "{"
      BY <1>1, <2>1, <2>4 DEF CharAt
    <3>3. start' + 1 <= i'
      <4>1. k \in Nat
        BY <1>2, <2>3, <2>4, Places
      <4> QED
        BY <2>1, <4>1
    <3> QED
      BY <2>2, <3>1, <3>2, <3>3 DEF Scanning
  <2> QED
    BY <1>1, <2>1, <2>2, <2>5, <2>6, StepScanner DEF Modes
<1> QED
  BY <1>3, <1>4

\* Scanning stays so after a step that moves on.
LEMMA Onward ==
  ASSUME Scanning, text' = text, start' = start, text \in Seq(Chars),
         i \in Nat, i' \in Nat, i' > i
  PROVE  Scanning' /\ i' # start' + 1
<1>1. start \in Nat /\ start + 1 <= i
  BY Places DEF Scanning
<1>2. start' + 1 <= i' /\ i' # start' + 1
  BY <1>1
<1>3. text'[start'] = "signature" /\ start' \in DOMAIN text'
  BY DEF Scanning
<1>4. CharAt(start + 1)' = "{"
  BY DEF Scanning, CharAt
<1> QED
  BY <1>2, <1>3, <1>4 DEF Scanning

\* The scan keeps the invariant: a depth of 0 ends it.
LEMMA StepScan == TextInv /\ find_function_span => TextInv'
<1> SUFFICES ASSUME TextInv, find_function_span PROVE TextInv'
  OBVIOUS
<1> DEFINE l == Len(text)
<1>1. UNCHANGED <<patch, hunks, tokens, text, job, start>> /\ pc = "scan"
  BY DEF find_function_span
<1>2. /\ start \in 0..l /\ i \in 0..(l + 1) /\ depth \in Nat
      /\ mode \in Modes /\ escape \in BOOLEAN /\ text \in Seq(Chars)
      /\ Scanning /\ (i # start + 1 => depth >= 1)
  BY <1>1 DEF TextInv, TypeOK
<1>3. l \in Nat /\ DOMAIN text = 1..l
  BY <1>2, LenProperties
<1> HIDE DEF l
<1>4. i \in Nat /\ start \in Nat /\ start + 1 <= i
  <2>1. i \in Nat
    BY <1>2, <1>3
  <2>2. start \in DOMAIN text /\ start + 1 <= i
    BY <1>2 DEF Scanning
  <2> QED
    BY <1>2, <2>1, <2>2, Places
<1>5. ASSUME NEW d \in {1, 2}, i' = i + d, i' <= l + 1, pc' = "scan", mode' \in Modes,
             escape' \in BOOLEAN, depth' \in Nat, depth' >= 1
      PROVE  TextInv'
  <2>1. i' \in 0..(l + 1) /\ i' \in Nat /\ i' > i
    BY <1>3, <1>4, <1>5
  <2>2. Scanning'
    BY <1>1, <1>2, <1>4, <2>1, Onward
  <2>3. pc # "read" /\ start' \in 0..l
    BY <1>1, <1>2
  <2> QED
    BY <1>1, <1>5, <2>1, <2>2, <2>3, StepScanner DEF l
<1>6. CharAt(i + 1) # "end" => i + 2 <= l + 1
  BY <1>3, <1>4 DEF CharAt
<1>7. i = start + 1 => (mode = "code" /\ i <= l /\ text[i] = "{" /\ depth = 0)
  <2> SUFFICES ASSUME i = start + 1
               PROVE  mode = "code" /\ i <= l /\ text[i] = "{" /\ depth = 0
    OBVIOUS
  <2>1. mode = "code" /\ depth = 0 /\ CharAt(i) = "{"
    BY <1>2 DEF Scanning
  <2>2. i \in DOMAIN text /\ text[i] = "{"
    BY <2>1 DEF CharAt
  <2>3. i <= l
    BY <1>2, <2>2, Places DEF l
  <2> QED
    BY <2>1, <2>2, <2>3
<1>8. CASE unterminated
  <2>1. pc' = "died" /\ UNCHANGED <<i, depth, mode, escape>> /\ pc # "read"
    BY <1>1, <1>8 DEF unterminated
  <2>2. start' \in 0..l /\ i' \in 0..(l + 1) /\ depth' \in Nat /\ mode' \in Modes
        /\ escape' \in BOOLEAN
    BY <1>1, <1>2, <2>1
  <2> QED
    BY <1>1, <2>1, <2>2, StepScanner DEF l
<1>9. CASE i <= l /\ in_comment
  <2>1. depth >= 1 /\ depth' = depth /\ escape' = escape /\ pc' = "scan"
    BY <1>2, <1>7, <1>9 DEF in_comment, Scan
  <2>2. mode' \in Modes
    BY <1>2, <1>9 DEF in_comment, Scan, Modes
  <2>3. i' = i + 1 \/ (i' = i + 2 /\ CharAt(i + 1) = "/")
    BY <1>9 DEF in_comment, Scan
  <2>4. PICK d \in {1, 2} : i' = i + d /\ i' <= l + 1
    BY <1>3, <1>4, <1>6, <1>9, <2>3
  <2> QED
    BY <1>2, <1>5, <2>1, <2>2, <2>4
<1>10. CASE i <= l /\ in_literal
  <2>1. depth >= 1 /\ depth' = depth /\ pc' = "scan" /\ i' = i + 1 /\ escape' \in BOOLEAN
    BY <1>2, <1>7, <1>10 DEF in_literal, Scan
  <2>2. mode' \in Modes
    BY <1>2, <1>10 DEF in_literal, Scan, Modes
  <2>3. i' <= l + 1 /\ 1 \in {1, 2}
    BY <1>3, <1>4, <1>10, <2>1
  <2> QED
    BY <1>2, <1>5, <2>1, <2>2, <2>3
<1>11. CASE i <= l /\ opens_comment
  <2>1. depth >= 1 /\ depth' = depth /\ escape' = escape /\ pc' = "scan" /\ i' = i + 2
    BY <1>2, <1>7, <1>11 DEF opens_comment, Scan
  <2>2. mode' \in Modes
    BY <1>11 DEF opens_comment, Scan, Modes
  <2>3. i' <= l + 1 /\ 2 \in {1, 2}
    BY <1>6, <1>11, <2>1 DEF opens_comment
  <2> QED
    BY <1>2, <1>5, <2>1, <2>2, <2>3
<1>12. CASE i <= l /\ in_code
  <2>1. /\ escape' = escape
        /\ depth' = CASE text[i] = "{" -> depth + 1
                      [] text[i] = "}" -> depth - 1
                      [] OTHER -> depth
    BY <1>12 DEF in_code
  <2>2. depth' \in Nat /\ (depth' >= 1 \/ (text[i] = "}" /\ depth' = 0))
    <3>1. CASE text[i] = "{"
      <4>1. depth' = depth + 1
        BY <2>1, <3>1
      <4>2. depth' \in Nat /\ depth' >= 1
        BY <1>2, <4>1
      <4> QED
        BY <4>2
    <3>2. CASE text[i] = "}"
      <4>1. depth' = depth - 1
        BY <2>1, <3>2
      <4>2. depth >= 1
        BY <1>2, <1>7, <3>2
      <4>3. depth' \in Nat /\ (depth' >= 1 \/ depth' = 0)
        BY <1>2, <4>1, <4>2
      <4> QED
        BY <3>2, <4>3
    <3>3. CASE text[i] # "{" /\ text[i] # "}"
      <4>1. depth' = depth
        BY <2>1, <3>3
      <4>2. depth >= 1
        BY <1>2, <1>7, <3>3
      <4> QED
        BY <1>2, <4>1, <4>2
    <3> QED
      BY <3>1, <3>2, <3>3
  <2>3. CASE text[i] = "}" /\ depth' = 0
    <3>1. pc' = "insert" /\ i' = i /\ mode' = mode /\ pc # "read"
      BY <1>1, <1>12, <2>3 DEF in_code
    <3>2. Scanning'
      <4>1. i # start + 1
        BY <1>7, <2>3
      <4> QED
        BY <1>1, <1>2, <3>1, <4>1 DEF Scanning, CharAt
    <3>3. start' \in 0..l /\ i' \in 0..(l + 1) /\ i' <= l
      BY <1>1, <1>2, <1>12, <3>1
    <3>4. mode' \in Modes /\ escape' \in BOOLEAN
      BY <1>2, <2>1, <3>1
    <3> QED
      BY <1>1, <2>2, <3>1, <3>2, <3>3, <3>4, StepScanner DEF l
  <2>4. CASE ~(text[i] = "}" /\ depth' = 0)
    <3>1. /\ i' = i + 1 /\ pc' = "scan"
          /\ mode' = CASE text[i] = "quote" -> "string"
                       [] text[i] = "tick" -> "char"
                       [] OTHER -> "code"
      BY <1>12, <2>4 DEF in_code, Scan
    <3>2. mode' \in Modes
      BY <3>1 DEF Modes
    <3>3. depth' >= 1 /\ escape' \in BOOLEAN
      BY <1>2, <2>1, <2>2, <2>4
    <3>4. i' <= l + 1 /\ 1 \in {1, 2}
      BY <1>3, <1>4, <1>12, <3>1
    <3> QED
      BY <1>5, <2>2, <3>1, <3>2, <3>3, <3>4
  <2> QED
    BY <2>3, <2>4
<1> QED
  BY <1>8, <1>9, <1>10, <1>11, <1>12 DEF find_function_span, l

\* insert keeps the invariant.
LEMMA StepInsert == TextInv /\ insert => TextInv'
<1> SUFFICES ASSUME TextInv, insert PROVE TextInv'
  OBVIOUS
<1> DEFINE l == Len(text)
<1>1. /\ pc = "insert" /\ pc' \in {"done", "died"}
      /\ UNCHANGED <<patch, hunks, tokens, job, start, i, depth, mode, escape>>
  BY DEF insert, scanner
<1>2. /\ text \in Seq(Chars) /\ start \in 0..l /\ i \in 0..(l + 1) /\ i <= l
      /\ start \in DOMAIN text /\ l \in Nat
  BY <1>1, LenProperties DEF TextInv, TypeOK, Scanning
<1>3. text' \in Seq(Chars) /\ (Len(text') = l \/ Len(text') = l + 1)
  <2>1. CASE text' = text
    BY <1>2, <2>1
  <2>2. CASE \E k \in places : text' = InsertAt(text, k, Marker)
    <3>1. PICK k \in places : text' = InsertAt(text, k, Marker)
      BY <2>2
    <3>2. k \in 1..(l + 1)
      <4>1. CASE k \in after_guard
        <5>1. PICK j \in start..i : k = j + 1
          BY <4>1 DEF after_guard, FirstFrom
        <5> HIDE DEF l
        <5> QED
          BY <1>2, <5>1
      <4>2. CASE k \in before_destroy
        <5>1. PICK j \in start..i : k \in j..i
          BY <4>2 DEF before_destroy, FirstFrom
        <5>2. start \in Nat /\ 1 <= start
          BY <1>2, Places
        <5> HIDE DEF l
        <5> QED
          BY <1>2, <5>1, <5>2
      <4> QED
        BY <4>1, <4>2 DEF places
    <3>3. Marker \in Chars
      BY DEF Marker, Chars
    <3> QED
      BY <1>2, <3>1, <3>2, <3>3, TextInsert
  <2> QED
    BY <2>1, <2>2 DEF insert
<1>4. start' \in 0..Len(text') /\ i' \in 0..(Len(text') + 1)
  <2> DEFINE m == Len(text')
  <2>1. m = l \/ m = l + 1
    BY <1>3
  <2> HIDE DEF m, l
  <2>2. start' \in 0..m /\ i' \in 0..(m + 1)
    BY <1>1, <1>2, <2>1
  <2> QED
    BY <2>2 DEF m
<1>5. HunksRead'
  BY <1>1 DEF TextInv, HunksRead
<1>6. TypeOK'
  BY <1>1, <1>3, <1>4 DEF TextInv, TypeOK
<1> QED
  BY <1>1, <1>5, <1>6 DEF TextInv

\* So does every step.
LEMMA TextStep == TextInv /\ [Next]_vars => TextInv'
<1> SUFFICES ASSUME TextInv, [Next]_vars PROVE TextInv'
  OBVIOUS
<1>1. CASE UNCHANGED vars
  <2>1. UNCHANGED <<patch, hunks, tokens, text, job, start, i, depth, mode, escape, pc>>
    BY <1>1 DEF vars, scanner
  <2>2. TypeOK' /\ HunksRead' /\ (Scanning' = Scanning)
    BY <2>1 DEF TextInv, TypeOK, HunksRead, Scanning, CharAt
  <2> QED
    BY <2>1, <2>2 DEF TextInv
<1>2. CASE Next
  BY <1>2, StepRead, StepFind, StepScan, StepInsert DEF Next
<1> QED
  BY <1>1, <1>2

\* TextInv is an invariant of the script.
LEMMA TextInvariant == Spec => []TextInv
BY TextInit, TextStep, PTL DEF Spec

\* The scanner never leaves the text by more than one character, and
\* never closes a brace that it did not see opened.
THEOREM TextTypes == Spec => []TypeOK
<1>1. TextInv => TypeOK
  BY DEF TextInv
<1> QED
  BY <1>1, TextInvariant, PTL

\* parse_file_hunks reads every hunk of sd.c, in order and whole, and no line
\* of another file; addition_runs finds the lengths of its runs.
THEOREM HunksAreRead == Spec => []HunksRead
<1>1. TextInv => HunksRead
  BY DEF TextInv
<1> QED
  BY <1>1, TextInvariant, PTL
-----------------------------------------------------------------------------
(***************************************************************************)
(* Searches in the text are searches among the tokens.                     *)
(***************************************************************************)
\* a gives the places of the tokens in the text.
Source(a) == tokens \in Seq(Token) /\ Laid(a, tokens, text)

\* Tokens and their places have the same order.
LEMMA SourceOrder ==
  ASSUME NEW a, Source(a), NEW n \in 1..Len(tokens), NEW m \in 1..Len(tokens)
  PROVE  (a[n] <= a[m] <=> n <= m) /\ (a[n] = a[m] <=> n = m) /\ a[n] \in Nat
<1>1. Laid(a, tokens, text) /\ Solid(tokens) /\ Len(tokens) \in Nat
  BY TokensSolid DEF Source, Laid
<1>2. \A k \in 1..Len(tokens) : a[k] \in Nat /\ Len(tokens[k]) \in Nat \ {0}
  BY <1>1 DEF Laid, Solid
<1>3. ASSUME NEW k \in 1..Len(tokens), NEW l \in 1..Len(tokens), k < l
      PROVE  a[k] < a[l]
  <2>1. l \in Nat /\ l <= Len(tokens) + 1
    BY <1>1
  <2>2. a[k] + Len(tokens[k]) <= a[l]
    BY <1>1, <1>3, <2>1, LaidOrder
  <2> QED
    BY <1>2, <2>2
<1>4. n \in Nat /\ m \in Nat
  BY <1>1
<1>5. CASE n < m
  BY <1>2, <1>3, <1>4, <1>5
<1>6. CASE m < n
  BY <1>2, <1>3, <1>4, <1>6
<1>7. CASE n = m
  BY <1>2, <1>4, <1>7
<1> QED
  BY <1>4, <1>5, <1>6, <1>7

\* The first anchor in a part of the text is the first such token there.
LEMMA FirstPlaces ==
  ASSUME NEW a, Source(a), NEW x \in Anchors,
         NEW lo \in 1..Len(tokens), NEW hi \in 1..Len(tokens)
  PROVE  FirstFrom(x, a[lo], a[hi]) = {a[n] : n \in First(Single(x), lo..hi)}
<1> DEFINE l == Len(tokens)
<1>1. tokens \in Seq(Token) /\ Laid(a, tokens, text) /\ l \in Nat /\ Len(text) \in Nat
  BY DEF Source, Laid
<1>2. \A n \in 1..l : a[n] \in Nat
  BY SourceOrder
<1>3. Solid(tokens)
  BY <1>1, TokensSolid
<1>4. DOMAIN tokens = 1..l
  BY <1>1, LenProperties
<1>5. \A n \in 1..l, m \in 1..l : (a[n] <= a[m] <=> n <= m) /\ (a[n] = a[m] <=> n = m)
  BY SourceOrder
<1>6. ASSUME NEW j \in a[lo]..a[hi], text[j] = x
      PROVE  \E n \in 1..l : tokens[n] = Single(x) /\ a[n] = j
  <2>1. a[lo] \in 1..Len(text) /\ a[hi] \in 1..Len(text)
    BY <1>1, AnchorAt
  <2>2. j \in 1..Len(text)
    BY <1>1, <2>1
  <2>3. text[j] \in Anchors
           => \E n \in 1..Len(tokens) : tokens[n] = Single(text[j]) /\ a[n] = j
    BY <1>1, <2>2, AnchorOf
  <2> QED
    BY <1>6, <2>3
<1>9. ASSUME NEW n \in 1..l, tokens[n] = Single(x)
      PROVE  text[a[n]] = x
  <2>1. \A y : tokens[n] = Single(y) => text[a[n]] = y
    BY <1>1, AnchorAt
  <2> QED
    BY <1>9, <2>1
<1> HIDE DEF l
<1>7. ASSUME NEW j \in FirstFrom(x, a[lo], a[hi])
      PROVE  \E n \in First(Single(x), lo..hi) : j = a[n]
  <2>1. j \in a[lo]..a[hi] /\ text[j] = x /\ \A k \in a[lo]..(j - 1) : text[k] # x
    BY DEF FirstFrom
  <2>2. PICK n \in 1..l : tokens[n] = Single(x) /\ a[n] = j
    BY <1>6, <2>1
  <2>3. a[lo] \in Nat /\ a[hi] \in Nat /\ a[n] \in Nat /\ lo \in Nat /\ hi \in Nat
        /\ n \in Nat /\ lo \in 1..l /\ hi \in 1..l
    BY <1>1, <1>2 DEF l
  <2>4. n \in lo..hi
    BY <1>5, <2>1, <2>2, <2>3
  <2>5. ASSUME NEW m \in Tokens(Single(x)) \cap (lo..hi)
        PROVE  n <= m
    <3>1. m \in 1..l /\ tokens[m] = Single(x) /\ m \in Nat /\ lo <= m /\ m <= hi
      BY <1>4, <2>3, <2>5 DEF Tokens
    <3>2. a[m] \in Nat /\ a[lo] <= a[m] /\ a[m] <= a[hi]
      BY <1>2, <1>5, <2>3, <3>1
    <3>3. a[m] \in a[lo]..a[hi]
      BY <2>3, <3>2
    <3>4. text[a[m]] = x
      BY <1>9, <3>1
    <3>5. ~(a[m] \in a[lo]..(a[n] - 1))
      BY <2>1, <2>2, <3>4
    <3>6. a[n] <= a[m]
      BY <2>3, <3>2, <3>5
    <3> QED
      BY <1>5, <3>1, <3>6
  <2>6. n \in Tokens(Single(x))
    BY <1>4, <2>2 DEF Tokens
  <2> QED
    BY <2>2, <2>4, <2>5, <2>6 DEF First
<1>8. ASSUME NEW n \in First(Single(x), lo..hi)
      PROVE  a[n] \in FirstFrom(x, a[lo], a[hi])
  <2>1. /\ n \in 1..l /\ tokens[n] = Single(x) /\ n \in lo..hi
        /\ \A m \in Tokens(Single(x)) \cap (lo..hi) : n <= m
    BY <1>4 DEF First, Tokens
  <2>2. a[lo] \in Nat /\ a[hi] \in Nat /\ a[n] \in Nat /\ lo \in Nat /\ hi \in Nat
        /\ n \in Nat /\ lo \in 1..l /\ hi \in 1..l /\ lo <= n /\ n <= hi
    BY <1>1, <1>2, <2>1 DEF l
  <2>3. a[n] \in a[lo]..a[hi]
    <3>1. a[lo] <= a[n] /\ a[n] <= a[hi]
      BY <1>5, <2>1, <2>2
    <3> QED
      BY <2>2, <3>1
  <2>4. text[a[n]] = x
    BY <1>9, <2>1
  <2>5. ASSUME NEW k \in a[lo]..(a[n] - 1), text[k] = x
        PROVE  FALSE
    <3>1. k \in a[lo]..a[hi] /\ k < a[n] /\ a[lo] <= k /\ k <= a[hi]
      BY <2>2, <2>3
    <3>2. PICK m \in 1..l : tokens[m] = Single(x) /\ a[m] = k
      BY <1>6, <2>5, <3>1
    <3>3. m \in lo..hi
      <4>1. lo <= m /\ m <= hi
        BY <1>5, <2>2, <3>1, <3>2
      <4>2. m \in Nat
        BY <1>1
      <4> QED
        BY <2>2, <4>1, <4>2
    <3>4. n <= m
      BY <1>4, <2>1, <3>2, <3>3 DEF Tokens
    <3>5. a[n] <= a[m]
      BY <1>5, <2>1, <3>4
    <3>6. a[m] \in Nat
      BY <1>2
    <3> QED
      BY <2>2, <3>1, <3>2, <3>5, <3>6
  <2> QED
    BY <2>3, <2>4, <2>5 DEF FirstFrom
<1> QED
  BY <1>7, <1>8

-----------------------------------------------------------------------------
(***************************************************************************)
(* Braces.                                                                 *)
(***************************************************************************)
Between(S, d, n) == {m \in S : d < m /\ m <= n}
Opened(d, n) == Cardinality(Between(Tokens(Single("{")), d, n)) + 1
Closed(d, n) == Cardinality(Between(Tokens(Single("}")), d, n))

\* A count over an interval grows by one with each of its members.
LEMMA BetweenFacts ==
  ASSUME NEW S, \A m \in S : m \in Nat, NEW d \in Nat, NEW n \in Nat, d <= n
  PROVE  /\ IsFiniteSet(Between(S, d, n)) /\ Cardinality(Between(S, d, n)) \in Nat
         /\ Between(S, d, d) = {}
         /\ n + 1 \notin S => Between(S, d, n + 1) = Between(S, d, n)
         /\ n + 1 \in S => Cardinality(Between(S, d, n + 1)) = Cardinality(Between(S, d, n)) + 1
<1>1. IsFiniteSet(Between(S, d, n))
  <2>1. IsFiniteSet(0..n)
    BY FS_Interval
  <2>2. Between(S, d, n) \subseteq 0..n
    BY DEF Between
  <2> QED
    BY <2>1, <2>2, FS_Subset
<1>2. Cardinality(Between(S, d, n)) \in Nat
  BY <1>1, FS_CardinalityType
<1>3. Between(S, d, d) = {}
  BY DEF Between
<1>4. ASSUME n + 1 \notin S
      PROVE  Between(S, d, n + 1) = Between(S, d, n)
  <2>1. \A m \in S : m <= n + 1 <=> m <= n
    BY <1>4
  <2> QED
    BY <2>1 DEF Between
<1>5. ASSUME n + 1 \in S
      PROVE  Cardinality(Between(S, d, n + 1)) = Cardinality(Between(S, d, n)) + 1
  <2>1. \A m \in S : m <= n + 1 <=> m <= n \/ m = n + 1
    OBVIOUS
  <2>3. d < n + 1 /\ n + 1 <= n + 1
    OBVIOUS
  <2>4. \A m : m \in Between(S, d, n + 1) <=> m \in Between(S, d, n) \/ m = n + 1
    BY <1>5, <2>1, <2>3 DEF Between
  <2>5. Between(S, d, n + 1) = Between(S, d, n) \cup {n + 1}
    BY <2>4
  <2>2. n + 1 \notin Between(S, d, n)
    BY DEF Between
  <2> QED
    BY <1>1, <2>2, <2>5, FS_AddElement
<1> QED
  BY <1>1, <1>2, <1>3, <1>4, <1>5

\* The body begins with one brace open.
LEMMA Braces ==
  ASSUME tokens \in Seq(Token), NEW d \in 1..Len(tokens)
  PROVE  /\ Opened(d, d) = 1 /\ Closed(d, d) = 0
         /\ \A n \in d..Len(tokens) : Opened(d, n) \in Nat /\ Closed(d, n) \in Nat
<1> DEFINE O == Tokens(Single("{"))
           C == Tokens(Single("}"))
<1>1. d \in Nat /\ d <= d /\ Len(tokens) \in Nat
  BY LenProperties
<1>5. (\A m \in O : m \in Nat) /\ (\A m \in C : m \in Nat)
  <2>1. \A m \in DOMAIN tokens : m \in Nat
    BY Places
  <2>2. \A x : \A m \in Tokens(x) : m \in DOMAIN tokens
    BY DEF Tokens
  <2> QED
    BY <2>1, <2>2
<1> HIDE DEF O, C
<1>2. Between(O, d, d) = {} /\ Between(C, d, d) = {}
  BY <1>1, <1>5, BetweenFacts
<1>3. Cardinality({}) = 0
  BY FS_EmptySet
<1>4. ASSUME NEW n \in d..Len(tokens)
      PROVE  Cardinality(Between(O, d, n)) \in Nat /\ Cardinality(Between(C, d, n)) \in Nat
  <2>1. n \in Nat /\ d <= n
    BY <1>1
  <2> QED
    BY <1>1, <1>5, <2>1, BetweenFacts
<1>6. Opened(d, d) = 1 /\ Closed(d, d) = 0
  <2>1. Opened(d, d) = Cardinality(Between(O, d, d)) + 1
        /\ Closed(d, d) = Cardinality(Between(C, d, d))
    BY DEF Opened, Closed, O, C
  <2> QED
    BY <1>2, <1>3, <2>1
<1>7. ASSUME NEW n \in d..Len(tokens)
      PROVE  Opened(d, n) \in Nat /\ Closed(d, n) \in Nat
  <2>1. Opened(d, n) = Cardinality(Between(O, d, n)) + 1
        /\ Closed(d, n) = Cardinality(Between(C, d, n))
    BY DEF Opened, Closed, O, C
  <2>2. Cardinality(Between(O, d, n)) \in Nat /\ Cardinality(Between(C, d, n)) \in Nat
    BY <1>4
  <2> QED
    BY <2>1, <2>2
<1> QED
  BY <1>6, <1>7

\* Only a brace that is a token changes the count of braces.
LEMMA NextBrace ==
  ASSUME tokens \in Seq(Token), NEW d \in 1..Len(tokens), NEW n \in 1..Len(tokens), d < n
  PROVE  /\ tokens[n] = Single("{") => /\ Opened(d, n) = Opened(d, n - 1) + 1
                                      /\ Closed(d, n) = Closed(d, n - 1)
         /\ tokens[n] = Single("}") => /\ Opened(d, n) = Opened(d, n - 1)
                                      /\ Closed(d, n) = Closed(d, n - 1) + 1
         /\ tokens[n] \notin {Single("{"), Single("}")} =>
              Opened(d, n) = Opened(d, n - 1) /\ Closed(d, n) = Closed(d, n - 1)
<1> DEFINE O == Tokens(Single("{"))
           C == Tokens(Single("}"))
<1>1. Len(tokens) \in Nat /\ DOMAIN tokens = 1..Len(tokens)
  BY LenProperties
<1>9. (\A m \in O : m \in Nat) /\ (\A m \in C : m \in Nat)
  <2>1. \A m \in DOMAIN tokens : m \in Nat
    BY Places
  <2>2. \A x : \A m \in Tokens(x) : m \in DOMAIN tokens
    BY DEF Tokens
  <2> QED
    BY <2>1, <2>2
<1>10. (n \in O <=> tokens[n] = Single("{")) /\ (n \in C <=> tokens[n] = Single("}"))
  BY <1>1 DEF Tokens
<1>2. Single("{") # Single("}")
  BY DEF Single
<1> HIDE DEF O, C
<1>3. PICK m \in Nat : m = n - 1 /\ m + 1 = n /\ d <= m /\ d \in Nat
  <2>1. n - 1 \in Nat /\ (n - 1) + 1 = n /\ d <= n - 1 /\ d \in Nat
    BY <1>1
  <2> QED
    BY <2>1
<1>4. /\ n \notin O => Between(O, d, n) = Between(O, d, m)
      /\ n \in O => Cardinality(Between(O, d, n)) = Cardinality(Between(O, d, m)) + 1
      /\ Cardinality(Between(O, d, m)) \in Nat
  <2>1. /\ m + 1 \notin O => Between(O, d, m + 1) = Between(O, d, m)
        /\ m + 1 \in O => Cardinality(Between(O, d, m + 1)) = Cardinality(Between(O, d, m)) + 1
        /\ Cardinality(Between(O, d, m)) \in Nat
    <3>1. (\A k \in O : k \in Nat) /\ d \in Nat /\ d <= m
      BY <1>3, <1>9
    <3> QED
      BY <3>1, BetweenFacts
  <2> QED
    BY <1>3, <2>1
<1>5. /\ n \notin C => Between(C, d, n) = Between(C, d, m)
      /\ n \in C => Cardinality(Between(C, d, n)) = Cardinality(Between(C, d, m)) + 1
  <2>1. /\ m + 1 \notin C => Between(C, d, m + 1) = Between(C, d, m)
        /\ m + 1 \in C => Cardinality(Between(C, d, m + 1)) = Cardinality(Between(C, d, m)) + 1
    <3>1. (\A k \in C : k \in Nat) /\ d \in Nat /\ d <= m
      BY <1>3, <1>9
    <3> QED
      BY <3>1, BetweenFacts
  <2> QED
    BY <1>3, <2>1
<1>6. CASE tokens[n] = Single("{")
  <2>1. n \in O /\ n \notin C
    BY <1>2, <1>6, <1>10
  <2> QED
    BY <1>2, <1>3, <1>4, <1>5, <1>6, <2>1 DEF Opened, Closed, O, C
<1>7. CASE tokens[n] = Single("}")
  <2>1. n \notin O /\ n \in C
    BY <1>2, <1>7, <1>10
  <2> QED
    BY <1>2, <1>3, <1>4, <1>5, <1>7, <2>1 DEF Opened, Closed, O, C
<1>8. CASE tokens[n] \notin {Single("{"), Single("}")}
  <2>1. n \notin O /\ n \notin C
    BY <1>8, <1>10
  <2> QED
    BY <1>3, <1>4, <1>5, <1>8, <2>1 DEF Opened, Closed, O, C
<1> QED
  BY <1>6, <1>7, <1>8

-----------------------------------------------------------------------------
(***************************************************************************)
(* Where the scanner is.                                                   *)
(***************************************************************************)
InLiteral(t, c, closing, es) ==
  /\ t \in Literal(closing) /\ 2 <= c
  /\ \E E \in SUBSET (3..Len(t)) :
       /\ Escaped(E, t)
       /\ \A k \in 2..Len(t) : (t[k] = closing /\ k \notin E) <=> k = Len(t)
       /\ es \in BOOLEAN /\ (es <=> c \in E)

\* The scanner is going to read character c of token t, not the first.
InToken(t, c, md, es) ==
  \/ t \in {Definition, Declaration, Quotient2} /\ c = 2 /\ md = "code" /\ es = FALSE
  \/ t \in LineComment /\ 3 <= c /\ md = "line comment" /\ es = FALSE
  \/ t \in BlockComment /\ 3 <= c /\ c < Len(t) /\ md = "block comment" /\ es = FALSE
  \/ InLiteral(t, c, "quote", es) /\ md = "string"
  \/ InLiteral(t, c, "tick", es) /\ md = "char"

\* It is at character c of token n, in the body of the definition d, and has
\* seen no balance of braces.
ScannedTo(a, d, n, c) ==
  /\ n \in d..(Len(tokens) + 1) /\ c \in Nat \ {0}
  /\ i = a[n] + c - 1
  /\ \/ c = 1 /\ mode = "code" /\ escape = FALSE
     \/ /\ n <= Len(tokens) /\ c <= Len(tokens[n])
        /\ InToken(tokens[n], c, mode, escape)
  /\ n = d => c = 2 /\ depth = 0
  /\ n > d => depth + Closed(d, n - 1) = Opened(d, n - 1)
  /\ \A m \in (d + 1)..(n - 1) : Opened(d, m) # Closed(d, m)

\* The counts depend on the tokens only.
LEMMA BracesSame ==
  ASSUME tokens' = tokens, NEW d, NEW n
  PROVE  Opened(d, n)' = Opened(d, n) /\ Closed(d, n)' = Closed(d, n)
BY DEF Opened, Closed, Between, Tokens

\* The character read is the one of the token.
LEMMA Current ==
  ASSUME NEW a, Source(a), NEW d \in 1..Len(tokens), NEW n, NEW c, ScannedTo(a, d, n, c),
         i <= Len(text)
  PROVE  /\ n \in 1..Len(tokens) /\ 1 <= c /\ c <= Len(tokens[n]) /\ c \in Nat
         /\ tokens[n] \in Token /\ text[i] = tokens[n][c]
         /\ c + 1 <= Len(tokens[n]) => CharAt(i + 1) = tokens[n][c + 1]
<1>1. tokens \in Seq(Token) /\ Laid(a, tokens, text) /\ Len(tokens) \in Nat /\ Len(text) \in Nat
      /\ a[Len(tokens) + 1] = Len(text) + 1
  BY DEF Source, Laid
<1>2. Solid(tokens) /\ \A m \in 1..Len(tokens) : tokens[m] \in Token
  BY <1>1, TokensSolid
<1>3. n \in d..(Len(tokens) + 1) /\ c \in Nat \ {0} /\ i = a[n] + c - 1
  BY DEF ScannedTo
<1>4. n # Len(tokens) + 1
  <2> SUFFICES ASSUME n = Len(tokens) + 1 PROVE FALSE
    OBVIOUS
  <2>1. c = 1
    BY <1>1 DEF ScannedTo
  <2>2. i = Len(text) + 1
    BY <1>1, <1>3, <2>1
  <2> QED
    BY <1>1, <2>2
<1>5. n \in 1..Len(tokens)
  BY <1>1, <1>3, <1>4
<1>6. Len(tokens[n]) \in Nat \ {0} /\ tokens[n] \in Token
  BY <1>2, <1>5 DEF Solid
<1>7. 1 <= c /\ c <= Len(tokens[n]) /\ c \in Nat
  BY <1>3, <1>6 DEF ScannedTo
<1>8. text[i] = tokens[n][c] /\ a[n] \in Nat
  BY <1>1, <1>2, <1>3, <1>5, <1>7, TokenInText
<1>9. ASSUME c + 1 <= Len(tokens[n])
      PROVE  CharAt(i + 1) = tokens[n][c + 1]
  <2>1. c + 1 \in Nat /\ 1 <= c + 1 /\ c + 1 <= Len(tokens[n])
    BY <1>7, <1>9
  <2>2. a[n] + (c + 1) - 1 \in 1..Len(text)
        /\ text[a[n] + (c + 1) - 1] = tokens[n][c + 1]
    BY <1>1, <1>2, <1>5, <2>1, TokenInText
  <2>3. a[n] + (c + 1) - 1 = i + 1
    BY <1>3, <1>7, <1>8
  <2>4. i + 1 \in DOMAIN text
    BY <2>2, <2>3, LenProperties, <1>1 DEF Laid
  <2> QED
    BY <2>2, <2>3, <2>4 DEF CharAt
<1> QED
  BY <1>5, <1>6, <1>7, <1>8, <1>9

\* On to character e of the same token.
LEMMA MoveWithin ==
  ASSUME NEW a, Source(a), NEW d \in 1..Len(tokens), NEW n \in 1..Len(tokens), d < n,
         NEW c, NEW e \in Nat, ScannedTo(a, d, n, c), tokens' = tokens,
         1 <= e, e <= Len(tokens[n]), i' = a[n] + e - 1, depth' = depth,
         InToken(tokens[n], e, mode', escape')
  PROVE  ScannedTo(a, d, n, e)'
<1>1. \A m : Opened(d, m)' = Opened(d, m) /\ Closed(d, m)' = Closed(d, m)
  BY BracesSame
<1>2. /\ n \in d..(Len(tokens) + 1) /\ Len(tokens) \in Nat
      /\ depth + Closed(d, n - 1) = Opened(d, n - 1)
      /\ \A m \in (d + 1)..(n - 1) : Opened(d, m) # Closed(d, m)
  BY DEF ScannedTo, Source, Laid
<1>3. n <= Len(tokens') /\ e <= Len(tokens'[n]) /\ InToken(tokens'[n], e, mode', escape')
      /\ n \in d..(Len(tokens') + 1) /\ e \in Nat \ {0} /\ n # d
  BY <1>2
<1>4. InToken(tokens[n], e, mode, escape)'
  BY <1>3 DEF InToken, InLiteral
<1> QED
  BY <1>1, <1>2, <1>3, <1>4 DEF ScannedTo

\* On to the next token.
LEMMA MoveOn ==
  ASSUME NEW a, Source(a), NEW d \in 1..Len(tokens), NEW n \in 1..Len(tokens), d <= n,
         NEW c, ScannedTo(a, d, n, c), tokens' = tokens,
         i' = a[n] + Len(tokens[n]), mode' = "code", escape' = FALSE,
         depth' + Closed(d, n) = Opened(d, n), n = d \/ Opened(d, n) # Closed(d, n)
  PROVE  ScannedTo(a, d, n + 1, 1)'
<1>1. \A m : Opened(d, m)' = Opened(d, m) /\ Closed(d, m)' = Closed(d, m)
  BY BracesSame
<1>2. /\ Len(tokens) \in Nat /\ d \in Nat /\ n \in Nat
      /\ \A m \in (d + 1)..(n - 1) : Opened(d, m) # Closed(d, m)
      /\ a[n + 1] = a[n] + Len(tokens[n])
  BY DEF ScannedTo, Source, Laid
<1>3. /\ n + 1 \in d..(Len(tokens') + 1) /\ n + 1 # d /\ (n + 1) - 1 = n /\ 1 \in Nat \ {0}
  BY <1>2
<1>4. ASSUME NEW m \in (d + 1)..((n + 1) - 1)
      PROVE  Opened(d, m) # Closed(d, m)
  <2>1. m = n \/ m \in (d + 1)..(n - 1)
    BY <1>2
  <2>2. m # d
    BY <1>2
  <2> QED
    BY <1>2, <2>1, <2>2
<1>5. i' = a[n + 1] + 1 - 1
  <2>1. a[n + 1] \in Nat
    <3>1. n + 1 \in 1..(Len(tokens) + 1)
      BY <1>2
    <3> QED
      BY <3>1 DEF Source, Laid
  <2> QED
    BY <1>2, <2>1
<1> QED
  BY <1>1, <1>3, <1>4, <1>5 DEF ScannedTo

\* The one definition of the function is d.
Only(d) ==
  /\ d \in 1..Len(tokens) /\ tokens[d] = Definition
  /\ \A m \in 1..Len(tokens) : tokens[m] = Definition => m = d

\* Character c of token n, of the body of d, is read next.
Reading(a, d, n, c) ==
  /\ Source(a) /\ Only(d) /\ ScannedTo(a, d, n, c) /\ i <= Len(text)
  /\ depth \in Nat /\ (n > d => depth >= 1)

\* The scan goes on, at a character of a token.
Moved(a, d) == pc' = "scan" /\ \E n, c : ScannedTo(a, d, n, c)'

\* Arithmetic: a token behind the definition.
LEMMA Ordered ==
  ASSUME tokens \in Seq(Token), NEW d \in 1..Len(tokens), NEW n \in 1..Len(tokens), d < n
  PROVE  /\ d \in Nat /\ n \in Nat /\ d <= n /\ n \in d..Len(tokens)
         /\ d + 1 <= n /\ n \in (d + 1)..Len(tokens) /\ n # d
<1> DEFINE l == Len(tokens)
<1>1. l \in Nat
  BY LenProperties
<1> HIDE DEF l
<1>2. /\ d \in Nat /\ n \in Nat /\ d <= n /\ n \in d..l
      /\ d + 1 <= n /\ n \in (d + 1)..l /\ n # d
  BY <1>1 DEF l
<1> QED
  BY <1>2 DEF l

\* Comments, literals and pairs are no braces.
LEMMA NoBrace ==
  ASSUME NEW t, t \in Spanning \cup {Definition, Declaration, Quotient2}
  PROVE  t \notin {Single("{"), Single("}")}
<1>1. \A x : Len(Single(x)) = 1
  BY DEF Single
<1>2. CASE t \in Spanning
  <2>1. Len(t) \in Nat /\ Len(t) >= 2
    BY <1>2, SpanningFacts
  <2>2. Len(t) # 1
    <3>1. \A b \in Nat : b >= 2 => b # 1
      OBVIOUS
    <3> QED
      BY <2>1, <3>1
  <2>3. \A x : t # Single(x)
    BY <1>1, <2>2
  <2> QED
    BY <2>3
<1>3. CASE t \in {Definition, Declaration, Quotient2}
  <2>1. Len(Definition) = 2 /\ Len(Declaration) = 2 /\ Len(Quotient2) = 2
    BY DEF Definition, Declaration, Quotient2
  <2>2. Len(t) = 2
    BY <1>3, <2>1
  <2>3. \A x : t # Single(x)
    BY <1>1, <2>2
  <2> QED
    BY <2>3
<1> QED
  BY <1>2, <1>3

\* Arithmetic: a positive depth is no balance.
LEMMA SumDiffers ==
  ASSUME NEW m \in Nat, NEW n \in Nat, m >= 1
  PROVE  m + n # n
OBVIOUS

\* A token that is no brace leaves the depth as it is.
LEMMA Skip ==
  ASSUME NEW a, NEW d, NEW n, NEW c, Reading(a, d, n, c), d < n, tokens' = tokens,
         tokens[n] \notin {Single("{"), Single("}")}, i' = a[n] + Len(tokens[n]),
         mode' = "code", escape' = FALSE, depth' = depth
  PROVE  ScannedTo(a, d, n + 1, 1)'
<1>1. /\ Source(a) /\ d \in 1..Len(tokens) /\ ScannedTo(a, d, n, c) /\ i <= Len(text)
      /\ tokens \in Seq(Token)
  BY DEF Reading, Only, Source
<1>2. n \in 1..Len(tokens)
  BY <1>1, Current
<1>3. Opened(d, n) = Opened(d, n - 1) /\ Closed(d, n) = Closed(d, n - 1)
  BY <1>1, <1>2, NextBrace
<1>4. depth + Closed(d, n - 1) = Opened(d, n - 1) /\ depth \in Nat /\ depth >= 1
  BY DEF Reading, ScannedTo
<1>7. d \in Nat /\ n \in Nat /\ d <= n /\ n \in d..Len(tokens)
  BY <1>1, <1>2, Ordered
<1>5. Closed(d, n) \in Nat
  BY <1>1, <1>7, Braces
<1>6. depth' + Closed(d, n) = Opened(d, n) /\ Opened(d, n) # Closed(d, n)
  <2>1. PICK x \in Nat : x = Closed(d, n)
    BY <1>5
  <2>2. Opened(d, n) = depth + x /\ depth' = depth
    BY <1>3, <1>4, <2>1
  <2>3. depth + x # x
    <3>1. depth \in Nat /\ depth >= 1
      BY <1>4
    <3> QED
      BY <2>1, <3>1, SumDiffers
  <2> QED
    BY <2>1, <2>2, <2>3
<1> QED
  BY <1>1, <1>2, <1>6, <1>7, MoveOn

\* A character of a literal moves the scanner on in it, or behind it.
LEMMA ScanLiteral ==
  ASSUME NEW a, NEW d, NEW n, NEW c, Reading(a, d, n, c), d < n, tokens' = tokens,
         NEW closing, InLiteral(tokens[n], c, closing, escape),
         (mode = "string" /\ closing = "quote") \/ (mode = "char" /\ closing = "tick"),
         in_literal
  PROVE  Moved(a, d)
<1> DEFINE t == tokens[n]
<1>1. /\ Source(a) /\ d \in 1..Len(tokens) /\ ScannedTo(a, d, n, c) /\ i <= Len(text)
  BY DEF Reading, Only
<1>2. n \in 1..Len(tokens) /\ c \in Nat /\ c <= Len(t) /\ text[i] = t[c]
  BY <1>1, Current
<1>3. PICK E \in SUBSET (3..Len(t)) :
        /\ Escaped(E, t)
        /\ \A k \in 2..Len(t) : (t[k] = closing /\ k \notin E) <=> k = Len(t)
        /\ escape \in BOOLEAN /\ (escape <=> c \in E)
  BY DEF InLiteral
<1>4. t \in Literal(closing) /\ 2 <= c
  BY DEF InLiteral
<1>5. t \in Spanning
  BY <1>4 DEF Spanning
<1>6. Len(t) \in Nat /\ a[n] \in Nat
  BY <1>1, <1>2, <1>5, SpanningFacts, SourceOrder
<1>7. i = a[n] + c - 1
  BY <1>1 DEF ScannedTo
<1>8. /\ escape' = (~escape /\ t[c] = "backslash") /\ depth' = depth /\ i' = i + 1 /\ pc' = "scan"
      /\ mode' = IF ~escape /\ t[c] = closing THEN "code" ELSE mode
  BY <1>2 DEF in_literal, Scan
<1>9. closing # "backslash"
  OBVIOUS
<1>10. c \in 2..Len(t)
  BY <1>2, <1>4, <1>6
<1> HIDE DEF t
<1>11. CASE ~escape /\ t[c] = closing
  <2>1. c = Len(t)
    BY <1>3, <1>10, <1>11
  <2>2. mode' = "code" /\ escape' = FALSE
    BY <1>8, <1>9, <1>11
  <2>3. i' = a[n] + Len(t)
    BY <1>2, <1>6, <1>7, <1>8, <2>1
  <2>4. tokens[n] \notin {Single("{"), Single("}")}
    BY <1>5, NoBrace DEF t
  <2>5. ScannedTo(a, d, n + 1, 1)'
    BY <1>8, <2>2, <2>3, <2>4, Skip DEF t
  <2> QED
    BY <1>8, <2>5 DEF Moved
<1>12. CASE ~(~escape /\ t[c] = closing)
  <2>1. c # Len(t)
    BY <1>3, <1>10, <1>12
  <2>2. c + 1 \in 3..Len(t) /\ (c + 1) - 1 = c /\ c + 1 \in Nat /\ 1 <= c + 1 /\ c + 1 <= Len(t)
        /\ 2 <= c + 1
    BY <1>2, <1>4, <1>6, <2>1
  <2>3. escape' \in BOOLEAN /\ (escape' <=> c + 1 \in E)
    <3>1. c + 1 \in E <=> (c \notin E /\ t[c] = "backslash")
      BY <1>3, <2>2 DEF Escaped
    <3> QED
      BY <1>3, <1>8, <3>1
  <2>4. mode' = mode /\ i' = a[n] + (c + 1) - 1
    BY <1>2, <1>6, <1>7, <1>8, <1>12
  <2>5. InLiteral(t, c + 1, closing, escape')
    BY <1>3, <1>4, <2>2, <2>3 DEF InLiteral
  <2>6. InToken(t, c + 1, mode', escape')
    BY <2>4, <2>5 DEF InToken
  <2>7. ScannedTo(a, d, n, c + 1)'
    BY <1>1, <1>2, <1>8, <2>2, <2>4, <2>6, MoveWithin DEF t
  <2> QED
    BY <1>8, <2>7 DEF Moved
<1> QED
  BY <1>11, <1>12

-----------------------------------------------------------------------------
(***************************************************************************)
(* The scanner in a comment or a literal.                                  *)
(***************************************************************************)
\* Arithmetic: the next character of a token, or the next token.
LEMMA Steps ==
  ASSUME NEW p \in Nat, NEW l \in Nat, NEW c \in Nat, c <= l, 3 <= c
  PROVE  /\ c \in 3..l /\ c + 1 \in Nat /\ 1 <= c + 1 /\ 3 <= c + 1
         /\ (p + c - 1) + 1 = p + (c + 1) - 1
         /\ c # l => c + 1 <= l
         /\ c = l => (p + c - 1) + 1 = p + l
         /\ c < l => c \in 3..(l - 1) /\ c + 1 <= l
         /\ c = l - 1 => (p + c - 1) + 2 = p + l
         /\ c < l /\ c # l - 1 => c + 1 < l
OBVIOUS

\* Arithmetic: the first characters of a token.
LEMMA FirstSteps ==
  ASSUME NEW p \in Nat
  PROVE  /\ p + 1 - 1 = p /\ p + 2 = p + 3 - 1 /\ p + 1 = p + 2 - 1
         /\ \A l \in Nat : l >= 4 => 3 <= l /\ 3 < l
         /\ \A l \in Nat : l >= 3 => 3 <= l
         /\ \A l \in Nat : l >= 2 => 2 <= l
OBVIOUS

\* The scanner is in a comment of the body.
InComment(a, d, n, c) ==
  /\ Reading(a, d, n, c) /\ d < n
  /\ InToken(tokens[n], c, mode, escape) /\ mode \in {"line comment", "block comment"}

\* A character of a comment moves the scanner on in it, or behind it.
LEMMA ScanComment ==
  ASSUME NEW a, NEW d, NEW n, NEW c, InComment(a, d, n, c), tokens' = tokens, in_comment
  PROVE  Moved(a, d)
<1>1. /\ Source(a) /\ d \in 1..Len(tokens) /\ ScannedTo(a, d, n, c) /\ i <= Len(text)
      /\ Reading(a, d, n, c) /\ d < n
  BY DEF InComment, Reading, Only
<1>2. PICK t : t = tokens[n]
  OBVIOUS
<1>3. n \in 1..Len(tokens) /\ c \in Nat /\ c <= Len(t) /\ text[i] = t[c]
      /\ (c + 1 <= Len(t) => CharAt(i + 1) = t[c + 1])
  <2>1. n \in 1..Len(tokens) /\ c \in Nat /\ c <= Len(tokens[n]) /\ text[i] = tokens[n][c]
        /\ (c + 1 <= Len(tokens[n]) => CharAt(i + 1) = tokens[n][c + 1])
    <3>1. n \in 1..Len(tokens) /\ c \in Nat /\ c <= Len(tokens[n]) /\ text[i] = tokens[n][c]
      BY <1>1, Current
    <3>2. c + 1 <= Len(tokens[n]) => CharAt(i + 1) = tokens[n][c + 1]
      BY <1>1, Current
    <3> QED
      BY <3>1, <3>2, Zenon
  <2> QED
    BY <1>2, <2>1, Zenon
<1>4. /\ escape = FALSE /\ 3 <= c
      /\ \/ mode = "line comment" /\ t \in LineComment
         \/ mode = "block comment" /\ t \in BlockComment /\ c < Len(t)
  <2>1. InToken(t, c, mode, escape) /\ mode \in {"line comment", "block comment"}
    BY <1>2 DEF InComment
  <2> QED
    BY <2>1 DEF InToken
<1>5. t \in Spanning
  BY <1>4 DEF Spanning
<1>6. Len(t) \in Nat /\ a[n] \in Nat /\ tokens[n] \notin {Single("{"), Single("}")}
  BY <1>1, <1>2, <1>3, <1>5, SpanningFacts, SourceOrder, NoBrace
<1>7. i = a[n] + c - 1
  BY <1>1 DEF ScannedTo
<1>8. depth' = depth /\ escape' = FALSE /\ pc' = "scan"
  BY <1>4 DEF in_comment, Scan
<1>9. PICK l \in Nat, p \in Nat : l = Len(t) /\ p = a[n]
  BY <1>6
<1>10. c <= l /\ i = p + c - 1 /\ c \in Nat /\ 3 <= c
  BY <1>3, <1>4, <1>7, <1>9
<1>15. /\ c \in 3..l /\ c + 1 \in Nat /\ 1 <= c + 1 /\ 3 <= c + 1
       /\ (p + c - 1) + 1 = p + (c + 1) - 1
       /\ c # l => c + 1 <= l
       /\ c = l => (p + c - 1) + 1 = p + l
       /\ c < l => c \in 3..(l - 1) /\ c + 1 <= l
       /\ c = l - 1 => (p + c - 1) + 2 = p + l
       /\ c < l /\ c # l - 1 => c + 1 < l
  <2>1. c \in Nat /\ c <= l /\ 3 <= c
    BY <1>10
  <2> QED
    BY <1>9, <2>1, Steps
<1>11. ASSUME i' = p + l, mode' = "code"
       PROVE  Moved(a, d)
  <2>1. i' = a[n] + Len(tokens[n])
    BY <1>2, <1>9, <1>11
  <2>2. ScannedTo(a, d, n + 1, 1)'
    BY <1>1, <1>6, <1>8, <1>11, <2>1, Skip
  <2> QED
    BY <1>8, <2>2 DEF Moved
<1>12. ASSUME c + 1 <= l, i' = i + 1, InToken(t, c + 1, mode', escape')
       PROVE  Moved(a, d)
  <2>1. c + 1 \in Nat /\ 1 <= c + 1 /\ i' = p + (c + 1) - 1
    BY <1>10, <1>12, <1>15, Zenon
  <2>2. /\ i' = a[n] + (c + 1) - 1 /\ c + 1 <= Len(tokens[n])
        /\ InToken(tokens[n], c + 1, mode', escape')
    BY <1>2, <1>9, <1>12, <2>1
  <2>3. ScannedTo(a, d, n, c + 1)'
    BY <1>1, <1>3, <1>8, <2>1, <2>2, MoveWithin
  <2> QED
    BY <1>8, <2>3 DEF Moved
<1>13. CASE mode = "line comment"
  <2>1. t \in LineComment
    BY <1>4, <1>13
  <2>2. \A k \in 3..l : t[k] = "newline" <=> k = l
    BY <1>9, <2>1 DEF LineComment
  <2>3. c \in 3..l
    BY <1>15, Zenon
  <2>4. i' = i + 1
    BY <1>13 DEF in_comment, Scan
  <2>5. mode' = IF t[c] = "newline" THEN "code" ELSE mode
    BY <1>3, <1>13 DEF in_comment, Scan
  <2>6. CASE c = l
    <3>1. mode' = "code"
      BY <2>2, <2>3, <2>5, <2>6
    <3>2. i' = p + l
      BY <1>10, <1>15, <2>4, <2>6, Zenon
    <3> QED
      BY <1>11, <3>1, <3>2
  <2>7. CASE c # l
    <3>1. mode' = mode
      BY <2>2, <2>3, <2>5, <2>7
    <3>2. c + 1 <= l /\ 3 <= c + 1
      BY <1>15, <2>7, Zenon
    <3>3. InToken(t, c + 1, mode', escape')
      BY <1>8, <1>13, <2>1, <3>1, <3>2 DEF InToken
    <3> QED
      BY <1>12, <2>4, <3>2, <3>3
  <2> QED
    BY <2>6, <2>7
<1>14. CASE mode = "block comment"
  <2>1. t \in BlockComment /\ c < Len(t)
    BY <1>4, <1>14
  <2>2. \A k \in 3..(l - 1) : (t[k] = "*" /\ t[k + 1] = "/") <=> k = l - 1
    BY <1>9, <2>1 DEF BlockComment
  <2>3. c \in 3..(l - 1) /\ c + 1 <= l
    <3>1. c < l
      BY <1>9, <2>1, Zenon
    <3> QED
      BY <1>15, <3>1, Zenon
  <2>4. CharAt(i + 1) = t[c + 1]
    BY <1>3, <1>9, <2>3
  <2>5. CASE c = l - 1
    <3>1. text[i] = "*" /\ CharAt(i + 1) = "/"
      BY <1>3, <2>2, <2>3, <2>4, <2>5
    <3>2. i' = i + 2 /\ mode' = "code"
      BY <1>14, <3>1 DEF in_comment, Scan
    <3>3. i' = p + l
      BY <1>10, <1>15, <2>5, <3>2, Zenon
    <3> QED
      BY <1>11, <3>2, <3>3
  <2>6. CASE c # l - 1
    <3>1. ~(text[i] = "*" /\ CharAt(i + 1) = "/")
      BY <1>3, <2>2, <2>3, <2>4, <2>6
    <3>2. i' = i + 1 /\ mode' = mode
      BY <1>14, <3>1 DEF in_comment, Scan
    <3>3. c + 1 < l /\ 3 <= c + 1
      <4>1. c < l
        BY <1>9, <2>1, Zenon
      <4> QED
        BY <1>15, <2>6, <4>1, Zenon
    <3>4. InToken(t, c + 1, mode', escape')
      BY <1>8, <1>9, <1>14, <2>1, <3>2, <3>3 DEF InToken
    <3> QED
      BY <1>12, <2>3, <3>2, <3>4
  <2> QED
    BY <2>5, <2>6
<1> QED
  BY <1>4, <1>13, <1>14

\* A comment or a literal begins.
LEMMA ScanBegins ==
  ASSUME NEW a, NEW d, NEW n, Reading(a, d, n, 1), d < n, tokens' = tokens,
         tokens[n] \in Spanning, mode = "code", escape = FALSE,
         opens_comment \/ in_code
  PROVE  Moved(a, d)
<1>1. /\ Source(a) /\ d \in 1..Len(tokens) /\ ScannedTo(a, d, n, 1) /\ i <= Len(text)
  BY DEF Reading, Only
<1>2. PICK t : t = tokens[n]
  OBVIOUS
<1>3. t \in Spanning /\ Len(t) \in Nat /\ Len(t) >= 2
  BY <1>2, SpanningFacts
<1>4. n \in 1..Len(tokens) /\ text[i] = t[1]
      /\ (1 + 1 <= Len(t) => CharAt(i + 1) = t[1 + 1])
  BY <1>1, <1>2, Current
<1>5. PICK l \in Nat, p \in Nat : l = Len(t) /\ p = a[n] /\ l >= 2
  BY <1>1, <1>3, <1>4, SourceOrder
<1>6. CharAt(i + 1) = t[2]
  <2>1. 1 + 1 = 2 /\ 2 <= l
    BY <1>5
  <2> QED
    BY <1>4, <1>5, <2>1
<1>13. /\ p + 1 - 1 = p /\ p + 2 = p + 3 - 1 /\ p + 1 = p + 2 - 1
       /\ \A k \in Nat : k >= 4 => 3 <= k /\ 3 < k
       /\ \A k \in Nat : k >= 3 => 3 <= k
       /\ \A k \in Nat : k >= 2 => 2 <= k
  BY FirstSteps
<1>7. i = p
  <2>1. i = p + 1 - 1
    BY <1>1, <1>5 DEF ScannedTo
  <2> QED
    BY <2>1
<1>8. ASSUME NEW e \in Nat, 1 <= e, e <= l, i' = p + e - 1, InToken(t, e, mode', escape'),
             depth' = depth, pc' = "scan"
      PROVE  Moved(a, d)
  <2>1. i' = a[n] + e - 1 /\ e <= Len(tokens[n]) /\ InToken(tokens[n], e, mode', escape')
    BY <1>2, <1>5, <1>8
  <2>2. ScannedTo(a, d, n, e)'
    BY <1>1, <1>4, <1>8, <2>1, MoveWithin
  <2> QED
    BY <1>8, <2>2 DEF Moved
<1>9. ASSUME t[1] = "/", t[2] \in {"/", "*"}
      PROVE  /\ i' = p + 3 - 1 /\ pc' = "scan" /\ depth' = depth /\ escape' = FALSE
             /\ mode' = IF t[2] = "/" THEN "line comment" ELSE "block comment"
  <2>1. opens_comment
    BY <1>4, <1>6, <1>9 DEF in_code
  <2>2. /\ i' = i + 2 /\ pc' = "scan" /\ depth' = depth /\ escape' = FALSE
        /\ mode' = IF t[2] = "/" THEN "line comment" ELSE "block comment"
    BY <1>6, <2>1 DEF opens_comment, Scan
  <2>3. i' = p + 3 - 1
    BY <1>7, <1>13, <2>2, Zenon
  <2> QED
    BY <2>2, <2>3
<1>10. CASE t \in LineComment
  <2>1. l >= 3 /\ t[1] = "/" /\ t[2] = "/"
    BY <1>5, <1>10 DEF LineComment
  <2>2. InToken(t, 3, mode', escape')
    <3>1. mode' = IF t[2] = "/" THEN "line comment" ELSE "block comment"
      BY <1>9, <2>1
    <3>2. mode' = "line comment"
      BY <2>1, <3>1
    <3>3. escape' = FALSE
      BY <1>9, <2>1
    <3>4. 3 <= 3
      BY <1>13
    <3> QED
      BY <1>10, <3>2, <3>3, <3>4 DEF InToken
  <2>3. 3 \in Nat /\ 1 <= 3 /\ 3 <= l
    BY <1>13, <2>1
  <2> QED
    BY <1>8, <1>9, <2>1, <2>2, <2>3
<1>11. CASE t \in BlockComment
  <2>1. l >= 4 /\ t[1] = "/" /\ t[2] = "*"
    BY <1>5, <1>11 DEF BlockComment
  <2>3. 3 \in Nat /\ 1 <= 3 /\ 3 <= l /\ 3 < l
    BY <1>13, <2>1
  <2>2. InToken(t, 3, mode', escape')
    <3>1. mode' = IF t[2] = "/" THEN "line comment" ELSE "block comment"
      BY <1>9, <2>1
    <3>2. mode' = "block comment"
      BY <2>1, <3>1
    <3>3. escape' = FALSE
      BY <1>9, <2>1
    <3>4. 3 <= 3
      BY <1>13
    <3>5. 3 < Len(t)
      BY <1>5, <2>3, Zenon
    <3> QED
      BY <1>11, <3>2, <3>3, <3>4, <3>5 DEF InToken
  <2> QED
    BY <1>8, <1>9, <2>1, <2>2, <2>3
<1>12. ASSUME NEW closing \in {"quote", "tick"}, t \in Literal(closing)
       PROVE  Moved(a, d)
  <2>1. t[1] = closing
    BY <1>12 DEF Literal
  <2>2. in_code
    BY <1>4, <2>1 DEF opens_comment
  <2>3. /\ i' = i + 1 /\ pc' = "scan" /\ depth' = depth /\ escape' = FALSE
        /\ mode' = IF closing = "quote" THEN "string" ELSE "char"
    BY <1>4, <2>1, <2>2 DEF in_code, Scan
  <2>4. InLiteral(t, 2, closing, FALSE)
    <3>1. PICK E \in SUBSET (3..Len(t)) :
            /\ Escaped(E, t)
            /\ \A k \in 2..Len(t) : (t[k] = closing /\ k \notin E) <=> k = Len(t)
      BY <1>12 DEF Literal
    <3>2. 2 \notin E
      BY <1>3
    <3>3. FALSE \in BOOLEAN /\ (FALSE <=> 2 \in E) /\ 2 <= 2
      BY <3>2
    <3> QED
      BY <1>12, <3>1, <3>3 DEF InLiteral
  <2>5. InToken(t, 2, mode', escape')
    BY <2>3, <2>4 DEF InToken
  <2>6. i' = p + 2 - 1 /\ 2 \in Nat /\ 1 <= 2 /\ 2 <= l
    BY <1>5, <1>7, <2>3
  <2> QED
    BY <1>8, <2>3, <2>5, <2>6
<1> QED
  BY <1>3, <1>10, <1>11, <1>12 DEF Spanning

-----------------------------------------------------------------------------
(***************************************************************************)
(* The scanner in code.                                                    *)
(***************************************************************************)
\* The scanner is in the code of the body, at character c of token n.
InCode(a, d, n, c) ==
  /\ Reading(a, d, n, c) /\ mode = "code" /\ escape = FALSE
  /\ opens_comment \/ in_code

\* p is the place of the token and l its length.
CodeFacts(a, d, n, c, p, l) ==
  /\ Source(a) /\ Reading(a, d, n, c) /\ ScannedTo(a, d, n, c)
  /\ p \in Nat /\ l \in Nat /\ p = a[n] /\ l = Len(tokens[n]) /\ i = p + c - 1
  /\ d \in 1..Len(tokens) /\ n \in 1..Len(tokens) /\ d <= n /\ c \in Nat
  /\ tokens[n] \in Token /\ text[i] = tokens[n][c] /\ tokens \in Seq(Token)
  /\ mode = "code" /\ escape = FALSE /\ (opens_comment \/ in_code)
  /\ n = d => c = 2 /\ depth = 0
  /\ depth \in Nat /\ (n # d => d < n /\ depth >= 1)
  /\ c + 1 <= l => CharAt(i + 1) = tokens[n][c + 1]

\* What is known at a character of the code.
LEMMA InCodeFacts ==
  ASSUME NEW a, NEW d, NEW n, NEW c, InCode(a, d, n, c)
  PROVE  \E p, l : CodeFacts(a, d, n, c, p, l)
<1>1. /\ Source(a) /\ ScannedTo(a, d, n, c) /\ d \in 1..Len(tokens) /\ i <= Len(text)
      /\ Reading(a, d, n, c) /\ tokens \in Seq(Token)
  BY DEF InCode, Reading, Only, Source
<1>2. n \in 1..Len(tokens) /\ c \in Nat /\ text[i] = tokens[n][c] /\ tokens[n] \in Token
      /\ (c + 1 <= Len(tokens[n]) => CharAt(i + 1) = tokens[n][c + 1])
  BY <1>1, Current
<1>3. i = a[n] + c - 1 /\ n \in d..(Len(tokens) + 1) /\ (n = d => c = 2 /\ depth = 0)
  BY <1>1 DEF ScannedTo
<1>4. a[n] \in Nat
  BY <1>1, <1>2, SourceOrder
<1>5. Len(tokens) \in Nat
  BY <1>1, LenProperties
<1>6. d <= n /\ (n # d => d < n)
  BY <1>1, <1>2, <1>3, <1>5
<1>7. depth \in Nat /\ (n > d => depth >= 1)
  BY <1>1 DEF Reading
<1>8. n # d => depth >= 1
  BY <1>1, <1>2, <1>5, <1>6, <1>7
<1>9. Len(tokens[n]) \in Nat
  BY <1>2, TokenFacts
<1>10. CodeFacts(a, d, n, c, a[n], Len(tokens[n]))
  BY <1>1, <1>2, <1>3, <1>4, <1>6, <1>7, <1>8, <1>9 DEF CodeFacts, InCode
<1> QED
  BY <1>10

\* A character that is no brace and begins nothing.
LEMMA OtherCharacter ==
  ASSUME opens_comment \/ in_code, mode = "code", escape = FALSE,
         text[i] \notin {"{", "}", "quote", "tick"},
         text[i] = "/" => CharAt(i + 1) \notin {"/", "*"}
  PROVE  i' = i + 1 /\ mode' = "code" /\ escape' = FALSE /\ depth' = depth /\ pc' = "scan"
<1>1. in_code
  BY DEF opens_comment
<1>2. depth' = depth /\ escape' = FALSE
  BY <1>1 DEF in_code
<1>3. i' = i + 1 /\ pc' = "scan" /\ mode' = "code"
  BY <1>1 DEF in_code, Scan
<1> QED
  BY <1>2, <1>3

\* A token of two characters that are in code.
Pair(t) == t \in {Definition, Declaration, Quotient2}

\* The two characters of a pair; only a definition ends with a brace.
LEMMA PairFacts ==
  ASSUME NEW t, Pair(t)
  PROVE  /\ Len(t) = 2 /\ t[1] \in {"signature", "/"} /\ t[2] \in {"{", ";", "x"}
         /\ (t # Definition => t[2] # "{")
<1>1. CASE t = Definition
  BY <1>1 DEF Definition
<1>2. CASE t = Declaration
  BY <1>2 DEF Declaration
<1>3. CASE t = Quotient2
  BY <1>3 DEF Quotient2
<1> QED
  BY <1>1, <1>2, <1>3 DEF Pair

\* The first character of a pair leads to its second.
LEMMA PairBegins ==
  ASSUME NEW a, NEW d, NEW n, InCode(a, d, n, 1), tokens' = tokens, Pair(tokens[n])
  PROVE  Moved(a, d)
<1>1. PICK p, l : CodeFacts(a, d, n, 1, p, l)
  BY InCodeFacts
<1>2. n # d /\ 1 + 1 = 2 /\ d < n
  BY <1>1 DEF CodeFacts
<1>3. Len(tokens[n]) = 2 /\ tokens[n][1] \in {"signature", "/"} /\ tokens[n][2] \in {"{", ";", "x"}
  BY PairFacts
<1>4. CharAt(i + 1) = tokens[n][2]
  <2>1. 1 + 1 <= 2
    OBVIOUS
  <2> QED
    BY <1>1, <1>2, <1>3, <2>1, Zenon DEF CodeFacts
<1>5. i' = i + 1 /\ mode' = "code" /\ escape' = FALSE /\ depth' = depth /\ pc' = "scan"
  <2>1. opens_comment \/ in_code
    BY <1>1 DEF CodeFacts
  <2>2. text[i] \notin {"{", "}", "quote", "tick"} /\ CharAt(i + 1) \notin {"/", "*"}
    BY <1>1, <1>3, <1>4 DEF CodeFacts
  <2>3. mode = "code" /\ escape = FALSE
    BY <1>1 DEF CodeFacts
  <2> QED
    BY <2>1, <2>2, <2>3, OtherCharacter
<1>6. InToken(tokens[n], 2, mode', escape')
  BY <1>5 DEF InToken, Pair
<1>7. i' = a[n] + 2 - 1
  <2>1. p \in Nat /\ i = p + 1 - 1 /\ p = a[n]
    BY <1>1 DEF CodeFacts
  <2>2. i' = p + 2 - 1
    BY <1>5, <2>1
  <2> QED
    BY <2>1, <2>2
<1>8. 2 \in Nat /\ 1 <= 2 /\ 2 <= 2
  OBVIOUS
<1>9. ScannedTo(a, d, n, 2)'
  <2>1. Source(a) /\ d \in 1..Len(tokens) /\ n \in 1..Len(tokens) /\ ScannedTo(a, d, n, 1)
    BY <1>1 DEF CodeFacts
  <2>2. 2 <= Len(tokens[n])
    BY <1>3, <1>8, Zenon
  <2> QED
    BY <1>2, <1>5, <1>6, <1>7, <1>8, <2>1, <2>2, MoveWithin
<1> QED
  BY <1>5, <1>9 DEF Moved

\* The second character of a pair leads to the next token.
LEMMA PairEnds ==
  ASSUME NEW a, NEW d, NEW n, InCode(a, d, n, 2), tokens' = tokens, Pair(tokens[n])
  PROVE  Moved(a, d)
<1>1. PICK p, l : CodeFacts(a, d, n, 2, p, l)
  BY InCodeFacts
<1>2. /\ Len(tokens[n]) = 2 /\ tokens[n][2] \in {"{", ";", "x"}
      /\ (tokens[n] # Definition => tokens[n][2] # "{")
  BY PairFacts
<1>3. (opens_comment \/ in_code) /\ mode = "code" /\ escape = FALSE
      /\ text[i] = tokens[n][2] /\ n \in 1..Len(tokens)
  BY <1>1 DEF CodeFacts
<1>4. (\A m \in 1..Len(tokens) : tokens[m] = Definition => m = d) /\ tokens[d] = Definition
  BY DEF InCode, Reading, Only
<1>7. i' = i + 1 => i' = a[n] + Len(tokens[n])
  <2>1. p \in Nat /\ i = p + 2 - 1 /\ p = a[n]
    BY <1>1 DEF CodeFacts
  <2>2. i' = i + 1 => i' = p + 2
    BY <2>1
  <2> QED
    BY <1>2, <2>1, <2>2, Zenon
<1>5. CASE n # d
  <2>1. text[i] \notin {"{", "}", "quote", "tick", "/"}
    BY <1>2, <1>3, <1>4, <1>5
  <2>2. i' = i + 1 /\ mode' = "code" /\ escape' = FALSE /\ depth' = depth /\ pc' = "scan"
    BY <1>3, <2>1, OtherCharacter
  <2>3. i' = a[n] + Len(tokens[n])
    BY <1>7, <2>2
  <2>4. tokens[n] \notin {Single("{"), Single("}")}
    BY NoBrace DEF Pair
  <2>5. Reading(a, d, n, 2) /\ d < n
    BY <1>1, <1>5 DEF CodeFacts
  <2>6. ScannedTo(a, d, n + 1, 1)'
    BY <2>2, <2>3, <2>4, <2>5, Skip
  <2> QED
    BY <2>2, <2>6 DEF Moved
<1>6. CASE n = d
  <2>1. text[i] = "{"
    <3>1. Definition[2] = "{"
      BY DEF Definition
    <3> QED
      BY <1>3, <1>4, <1>6, <3>1, Zenon
  <2>2. in_code
    BY <1>3, <2>1 DEF opens_comment
  <2>8. depth = 0 /\ tokens \in Seq(Token) /\ d \in 1..Len(tokens) /\ Source(a)
        /\ ScannedTo(a, d, n, 2) /\ d <= n
    BY <1>1, <1>6 DEF CodeFacts
  <2>3. depth' = depth + 1 /\ escape' = FALSE
    BY <1>3, <2>1, <2>2 DEF in_code
  <2>9. i' = i + 1 /\ mode' = "code" /\ pc' = "scan"
    BY <2>1, <2>2 DEF in_code, Scan
  <2>4. Opened(d, d) = 1 /\ Closed(d, d) = 0
    BY <2>8, Braces
  <2>5. depth' + Closed(d, n) = Opened(d, n)
    BY <1>6, <2>3, <2>4, <2>8
  <2>6. i' = a[n] + Len(tokens[n])
    BY <1>7, <2>9
  <2>7. ScannedTo(a, d, n + 1, 1)'
    BY <1>3, <1>6, <2>3, <2>5, <2>6, <2>8, <2>9, MoveOn
  <2> QED
    BY <2>7, <2>9 DEF Moved
<1> QED
  BY <1>5, <1>6

\* The scan ended at the brace that closes the body of d.
Found(a, d, n) ==
  /\ n \in (d + 1)..Len(tokens) /\ i = a[n]
  /\ Opened(d, n) = Closed(d, n)
  /\ \A m \in (d + 1)..(n - 1) : Opened(d, m) # Closed(d, m)

\* Arithmetic: a brace opens.
LEMMA Opens ==
  ASSUME NEW x \in Nat, NEW o \in Nat, NEW c \in Nat, x >= 1
  PROVE  x + c = o => (x + 1) + c = o + 1 /\ o + 1 # c
OBVIOUS

\* Arithmetic: a brace closes, and the last one leaves none open.
LEMMA Closes ==
  ASSUME NEW x \in Nat, NEW o \in Nat, NEW c \in Nat, x >= 1
  PROVE  x + c = o => /\ (x - 1) + (c + 1) = o /\ (x - 1 = 0 => o = c + 1)
                      /\ (x - 1 # 0 => o # c + 1)
OBVIOUS

\* The scanner is at the first character of a token of code.
BraceFacts(a, d, n) ==
  /\ Source(a) /\ d \in 1..Len(tokens) /\ n \in 1..Len(tokens) /\ d < n
  /\ ScannedTo(a, d, n, 1) /\ Reading(a, d, n, 1) /\ tokens \in Seq(Token)
  /\ text[i] = tokens[n][1] /\ i = a[n] /\ i + 1 = a[n] + 1
  /\ depth \in Nat /\ depth >= 1 /\ depth + Closed(d, n - 1) = Opened(d, n - 1)
  /\ Opened(d, n - 1) \in Nat /\ Closed(d, n - 1) \in Nat
  /\ mode = "code" /\ escape = FALSE /\ (opens_comment \/ in_code)
  /\ tokens[n] \in Token

\* What is known at the first character of a token of code.
LEMMA InCodeBegins ==
  ASSUME NEW a, NEW d, NEW n, InCode(a, d, n, 1)
  PROVE  BraceFacts(a, d, n)
<1>1. PICK p, l : CodeFacts(a, d, n, 1, p, l)
  BY InCodeFacts
<1>2. n # d
  BY <1>1 DEF CodeFacts
<1>3. /\ Source(a) /\ d \in 1..Len(tokens) /\ n \in 1..Len(tokens) /\ d < n
      /\ ScannedTo(a, d, n, 1) /\ Reading(a, d, n, 1) /\ tokens \in Seq(Token)
      /\ text[i] = tokens[n][1] /\ depth \in Nat /\ depth >= 1
      /\ mode = "code" /\ escape = FALSE /\ (opens_comment \/ in_code)
      /\ tokens[n] \in Token
  BY <1>1, <1>2 DEF CodeFacts
<1>4. i = a[n] /\ i + 1 = a[n] + 1
  <2>1. p \in Nat /\ i = p + 1 - 1 /\ p = a[n]
    BY <1>1 DEF CodeFacts
  <2>2. i = p
    BY <2>1
  <2> QED
    BY <2>1, <2>2, Zenon
<1>5. depth + Closed(d, n - 1) = Opened(d, n - 1)
  BY <1>3 DEF ScannedTo
<1>6. n - 1 \in d..Len(tokens)
  <2>1. PICK k \in Nat : k = Len(tokens)
    BY <1>3, LenProperties
  <2>2. d \in 1..k /\ n \in 1..k /\ d < n
    BY <1>3, <2>1
  <2>3. n - 1 \in d..k
    BY <2>1, <2>2
  <2> QED
    BY <2>1, <2>3
<1>7. Opened(d, n - 1) \in Nat /\ Closed(d, n - 1) \in Nat
  BY <1>3, <1>6, Braces
<1> QED
  BY <1>3, <1>4, <1>5, <1>7 DEF BraceFacts

\* A token that is the character x.
Is(n, x) == tokens[n] = Single(x)

\* A token of one character.
LEMMA IsFacts ==
  ASSUME NEW n, NEW x, Is(n, x)
  PROVE  Len(tokens[n]) = 1 /\ tokens[n][1] = x
BY DEF Is, Single

\* An open brace makes the depth and the count of open braces one more.
LEMMA BraceOpens ==
  ASSUME NEW a, NEW d, NEW n, InCode(a, d, n, 1), tokens' = tokens, Is(n, "{")
  PROVE  Moved(a, d)
<1>1. /\ Source(a) /\ d \in 1..Len(tokens) /\ n \in 1..Len(tokens) /\ d < n
      /\ ScannedTo(a, d, n, 1) /\ tokens \in Seq(Token)
      /\ text[i] = tokens[n][1] /\ i = a[n] /\ i + 1 = a[n] + 1
      /\ depth \in Nat /\ depth >= 1 /\ depth + Closed(d, n - 1) = Opened(d, n - 1)
      /\ Opened(d, n - 1) \in Nat /\ Closed(d, n - 1) \in Nat
      /\ mode = "code" /\ escape = FALSE /\ (opens_comment \/ in_code)
  <2>1. BraceFacts(a, d, n)
    BY InCodeBegins
  <2> QED
    BY <2>1 DEF BraceFacts
<1>2. Len(tokens[n]) = 1 /\ tokens[n][1] = "{"
  BY IsFacts
<1>3. text[i] = "{"
  BY <1>1, <1>2, Zenon
<1>4. in_code
  BY <1>1, <1>3 DEF opens_comment
<1>5. depth' = depth + 1 /\ escape' = FALSE
  BY <1>1, <1>3, <1>4 DEF in_code
<1>6. i' = i + 1 /\ mode' = "code" /\ pc' = "scan"
  BY <1>3, <1>4 DEF in_code, Scan
<1>7. Opened(d, n) = Opened(d, n - 1) + 1 /\ Closed(d, n) = Closed(d, n - 1)
  <2>1. tokens[n] = Single("{")
    BY DEF Is
  <2> QED
    BY <1>1, <2>1, NextBrace
<1>8. depth' + Closed(d, n) = Opened(d, n) /\ Opened(d, n) # Closed(d, n)
  <2>1. /\ (depth + 1) + Closed(d, n - 1) = Opened(d, n - 1) + 1
        /\ Opened(d, n - 1) + 1 # Closed(d, n - 1)
    BY <1>1, Opens
  <2> QED
    BY <1>5, <1>7, <2>1, Zenon
<1>9. i' = a[n] + Len(tokens[n])
  BY <1>1, <1>2, <1>6, Zenon
<1>10. d <= n
  BY <1>1, Ordered
<1>11. ScannedTo(a, d, n + 1, 1)'
  BY <1>1, <1>5, <1>6, <1>8, <1>9, <1>10, MoveOn
<1> QED
  BY <1>6, <1>11 DEF Moved

\* A closing brace is a balance of the tokens exactly if the scan ends there.
LEMMA BraceCloses ==
  ASSUME NEW a, NEW d, NEW n, InCode(a, d, n, 1), tokens' = tokens, Is(n, "}")
  PROVE  Moved(a, d) \/ (pc' = "insert" /\ Found(a, d, n)')
<1>1. /\ Source(a) /\ d \in 1..Len(tokens) /\ n \in 1..Len(tokens) /\ d < n
      /\ ScannedTo(a, d, n, 1) /\ tokens \in Seq(Token)
      /\ text[i] = tokens[n][1] /\ i = a[n] /\ i + 1 = a[n] + 1
      /\ depth \in Nat /\ depth >= 1 /\ depth + Closed(d, n - 1) = Opened(d, n - 1)
      /\ Opened(d, n - 1) \in Nat /\ Closed(d, n - 1) \in Nat
      /\ mode = "code" /\ escape = FALSE /\ (opens_comment \/ in_code)
  <2>1. BraceFacts(a, d, n)
    BY InCodeBegins
  <2> QED
    BY <2>1 DEF BraceFacts
<1>2. Len(tokens[n]) = 1 /\ tokens[n][1] = "}"
  BY IsFacts
<1>3. text[i] = "}"
  BY <1>1, <1>2, Zenon
<1>4. in_code
  BY <1>1, <1>3 DEF opens_comment
<1>5. depth' = depth - 1 /\ escape' = FALSE
  BY <1>1, <1>3, <1>4 DEF in_code
<1>6. Opened(d, n) = Opened(d, n - 1) /\ Closed(d, n) = Closed(d, n - 1) + 1
  <2>1. tokens[n] = Single("}")
    BY DEF Is
  <2> QED
    BY <1>1, <2>1, NextBrace
<1>7. d <= n /\ n \in (d + 1)..Len(tokens)
  BY <1>1, Ordered
<1>8. /\ (depth - 1) + (Closed(d, n - 1) + 1) = Opened(d, n - 1)
      /\ depth - 1 = 0 => Opened(d, n - 1) = Closed(d, n - 1) + 1
      /\ depth - 1 # 0 => Opened(d, n - 1) # Closed(d, n - 1) + 1
  BY <1>1, Closes
<1>9. CASE depth' = 0
  <2>1. pc' = "insert" /\ i' = i
    BY <1>3, <1>4, <1>9 DEF in_code
  <2>2. Opened(d, n) = Closed(d, n)
    BY <1>5, <1>6, <1>8, <1>9, Zenon
  <2>3. \A m \in (d + 1)..(n - 1) : Opened(d, m) # Closed(d, m)
    BY <1>1 DEF ScannedTo
  <2>4. \A m : Opened(d, m)' = Opened(d, m) /\ Closed(d, m)' = Closed(d, m)
    BY BracesSame
  <2>5. Found(a, d, n)'
    BY <1>1, <1>7, <2>1, <2>2, <2>3, <2>4 DEF Found
  <2> QED
    BY <2>1, <2>5
<1>10. CASE depth' # 0
  <2>1. i' = i + 1 /\ mode' = "code" /\ pc' = "scan"
    BY <1>3, <1>4, <1>10 DEF in_code, Scan
  <2>2. depth' + Closed(d, n) = Opened(d, n) /\ Opened(d, n) # Closed(d, n)
    BY <1>5, <1>6, <1>8, <1>10, Zenon
  <2>3. i' = a[n] + Len(tokens[n])
    BY <1>1, <1>2, <2>1, Zenon
  <2>4. ScannedTo(a, d, n + 1, 1)'
    BY <1>1, <1>5, <1>7, <2>1, <2>2, <2>3, MoveOn
  <2> QED
    BY <2>1, <2>4 DEF Moved
<1> QED
  BY <1>9, <1>10

\* Any other character of code changes neither.
LEMMA CharacterPasses ==
  ASSUME NEW a, NEW d, NEW n, InCode(a, d, n, 1), tokens' = tokens,
         NEW x \in Chars \ {"quote", "tick", "/", "signature", "{", "}"}, Is(n, x)
  PROVE  Moved(a, d)
<1>1. /\ d < n /\ Reading(a, d, n, 1)
      /\ text[i] = tokens[n][1] /\ i + 1 = a[n] + 1
      /\ mode = "code" /\ escape = FALSE /\ (opens_comment \/ in_code)
  <2>1. BraceFacts(a, d, n)
    BY InCodeBegins
  <2> QED
    BY <2>1 DEF BraceFacts
<1>2. Len(tokens[n]) = 1 /\ tokens[n][1] = x
  BY IsFacts
<1>3. text[i] \notin {"{", "}", "quote", "tick", "/"}
  BY <1>1, <1>2
<1>4. i' = i + 1 /\ mode' = "code" /\ escape' = FALSE /\ depth' = depth /\ pc' = "scan"
  BY <1>1, <1>3, OtherCharacter
<1>5. i' = a[n] + Len(tokens[n])
  BY <1>1, <1>2, <1>4, Zenon
<1>6. tokens[n] \notin {Single("{"), Single("}")}
  <2>1. Single("{")[1] = "{" /\ Single("}")[1] = "}"
    BY DEF Single
  <2>2. tokens[n][1] \notin {"{", "}"}
    BY <1>2
  <2> QED
    BY <2>1, <2>2
<1>7. ScannedTo(a, d, n + 1, 1)'
  BY <1>1, <1>4, <1>5, <1>6, Skip
<1> QED
  BY <1>4, <1>7 DEF Moved

-----------------------------------------------------------------------------
(***************************************************************************)
(* Every character of the body.                                            *)
(***************************************************************************)
\* The scanner is in a literal of the body.
InQuotes(a, d, n, c, closing) ==
  /\ Reading(a, d, n, c) /\ d < n
  /\ InLiteral(tokens[n], c, closing, escape)
  /\ \/ mode = "string" /\ closing = "quote"
     \/ mode = "char" /\ closing = "tick"

\* The same, for either kind of literal.
LEMMA InQuotesMoves ==
  ASSUME NEW a, NEW d, NEW n, NEW c, NEW closing, InQuotes(a, d, n, c, closing),
         tokens' = tokens, in_literal
  PROVE  Moved(a, d)
<1>1. Reading(a, d, n, c) /\ d < n /\ InLiteral(tokens[n], c, closing, escape)
  BY DEF InQuotes
<1>2. (mode = "string" /\ closing = "quote") \/ (mode = "char" /\ closing = "tick")
  BY DEF InQuotes
<1> QED
  BY <1>1, <1>2, ScanLiteral

\* The scanner is at the first character of a token, or in it.
ReadingFacts(a, d, n, c) ==
  /\ Source(a) /\ d \in 1..Len(tokens) /\ n \in 1..Len(tokens) /\ d <= n /\ (n # d => d < n)
  /\ tokens[n] \in Token /\ (n = d => c = 2 /\ tokens[n] = Definition)
  /\ i \in Nat /\ Len(text) \in Nat /\ c \in Nat
  /\ \/ c = 1 /\ mode = "code" /\ escape = FALSE
     \/ InToken(tokens[n], c, mode, escape)

\* What is known at any character.
LEMMA ReadingHas ==
  ASSUME NEW a, NEW d, NEW n, NEW c, Reading(a, d, n, c)
  PROVE  ReadingFacts(a, d, n, c)
<1>1. /\ Source(a) /\ ScannedTo(a, d, n, c) /\ d \in 1..Len(tokens) /\ i <= Len(text)
      /\ tokens \in Seq(Token) /\ Laid(a, tokens, text) /\ tokens[d] = Definition
  BY DEF Reading, Only, Source
<1>2. n \in 1..Len(tokens) /\ c \in Nat /\ 1 <= c /\ c <= Len(tokens[n]) /\ tokens[n] \in Token
  BY <1>1, Current
<1>3. n \in d..(Len(tokens) + 1) /\ (n = d => c = 2) /\ i = a[n] + c - 1
      /\ \/ c = 1 /\ mode = "code" /\ escape = FALSE
         \/ InToken(tokens[n], c, mode, escape)
  BY <1>1 DEF ScannedTo
<1>4. Len(tokens) \in Nat /\ Len(text) \in Nat
  BY <1>1 DEF Laid
<1>5. d <= n /\ (n # d => d < n)
  BY <1>1, <1>2, <1>3, <1>4
<1>6. i \in Nat
  <2>1. a[n] + c - 1 \in 1..Len(text)
    <3>1. Solid(tokens)
      BY <1>1, TokensSolid
    <3> QED
      BY <1>1, <1>2, <3>1, TokenInText
  <2> QED
    BY <1>3, <1>4, <2>1
<1> QED
  BY <1>1, <1>2, <1>3, <1>4, <1>5, <1>6 DEF ReadingFacts

\* The first character of any token.
LEMMA AtBeginning ==
  ASSUME NEW a, NEW d, NEW n, Reading(a, d, n, 1), mode = "code", escape = FALSE,
         tokens' = tokens, opens_comment \/ in_code
  PROVE  Moved(a, d) \/ (pc' = "insert" /\ Found(a, d, n)')
<1>1. InCode(a, d, n, 1)
  BY DEF InCode
<1>2. BraceFacts(a, d, n)
  BY <1>1, InCodeBegins
<1>3. d < n /\ tokens[n] \in Token
  BY <1>2 DEF BraceFacts
<1>4. CASE tokens[n] \in Spanning
  BY <1>3, <1>4, ScanBegins
<1>5. CASE Pair(tokens[n])
  BY <1>1, <1>5, PairBegins
<1>6. ASSUME NEW x \in Chars \ {"quote", "tick", "/", "signature"}, tokens[n] = <<x>>
      PROVE  Moved(a, d) \/ (pc' = "insert" /\ Found(a, d, n)')
  <2>1. Is(n, x)
    BY <1>6 DEF Is, Single
  <2>2. CASE x = "{"
    <3>1. Is(n, "{")
      BY <2>1, <2>2
    <3> QED
      BY <1>1, <3>1, BraceOpens
  <2>3. CASE x = "}"
    <3>1. Is(n, "}")
      BY <2>1, <2>3
    <3> QED
      BY <1>1, <3>1, BraceCloses
  <2>4. CASE x \notin {"{", "}"}
    <3>1. x \in Chars \ {"quote", "tick", "/", "signature", "{", "}"}
      BY <2>4
    <3> QED
      BY <1>1, <2>1, <3>1, CharacterPasses
  <2> QED
    BY <2>2, <2>3, <2>4
<1> QED
  BY <1>3, <1>4, <1>5, <1>6, TokenKinds DEF Pair

\* Arithmetic: behind the opening of a comment.
LEMMA NotTwo ==
  ASSUME NEW c \in Nat, 3 <= c
  PROVE  c # 2
OBVIOUS

\* Every step of the scan stays at a character of a token, or ends at the balance.
LEMMA ScanMoves ==
  ASSUME NEW a, NEW d, NEW n, NEW c, Reading(a, d, n, c), tokens' = tokens,
         find_function_span
  PROVE  Moved(a, d) \/ (pc' = "insert" /\ \E m : Found(a, d, m)')
<1>1. ReadingFacts(a, d, n, c)
  BY ReadingHas
<1>2. in_comment \/ in_literal \/ opens_comment \/ in_code
  <2>1. i \in Nat /\ Len(text) \in Nat /\ i <= Len(text)
    BY <1>1 DEF ReadingFacts, Reading
  <2>2. ~unterminated
    BY <2>1 DEF unterminated
  <2> QED
    BY <2>2 DEF find_function_span
<1>3. CASE c = 1 /\ mode = "code" /\ escape = FALSE
  <2>1. opens_comment \/ in_code
    BY <1>2, <1>3 DEF in_comment, in_literal
  <2>2. Reading(a, d, n, 1)
    BY <1>3
  <2> QED
    BY <1>3, <2>1, <2>2, AtBeginning
<1>4. ASSUME InToken(tokens[n], c, mode, escape)
      PROVE  Moved(a, d)
  <2>1. CASE Pair(tokens[n]) /\ c = 2 /\ mode = "code" /\ escape = FALSE
    <3>1. opens_comment \/ in_code
      BY <1>2, <2>1 DEF in_comment, in_literal
    <3>2. InCode(a, d, n, 2)
      BY <2>1, <3>1 DEF InCode
    <3> QED
      BY <2>1, <3>2, PairEnds
  <2>2. CASE 3 <= c /\ mode \in {"line comment", "block comment"}
    <3>1. c # 2
      <4>1. c \in Nat
        BY <1>1 DEF ReadingFacts
      <4>2. 3 <= c
        BY <2>2
      <4> QED
        BY <4>1, <4>2, NotTwo
    <3>2. d < n
      BY <1>1, <3>1 DEF ReadingFacts
    <3>3. in_comment
      BY <1>2, <2>2 DEF in_literal, opens_comment, in_code
    <3>4. InComment(a, d, n, c)
      BY <1>4, <2>2, <3>2 DEF InComment
    <3> QED
      BY <3>3, <3>4, ScanComment
  <2>3. ASSUME NEW closing, InLiteral(tokens[n], c, closing, escape),
               (mode = "string" /\ closing = "quote") \/ (mode = "char" /\ closing = "tick")
        PROVE  Moved(a, d)
    <3>1. tokens[n] # Definition
      <4>1. tokens[n][1] = closing
        BY <2>3 DEF InLiteral, Literal
      <4>2. Definition[1] = "signature"
        BY DEF Definition
      <4> QED
        BY <2>3, <4>1, <4>2
    <3>2. d < n
      BY <1>1, <3>1 DEF ReadingFacts
    <3>3. in_literal
      BY <1>2, <2>3 DEF in_comment, opens_comment, in_code
    <3>4. InQuotes(a, d, n, c, closing)
      BY <2>3, <3>2 DEF InQuotes
    <3> QED
      BY <3>3, <3>4, InQuotesMoves
  <2> QED
    BY <1>4, <2>1, <2>2, <2>3 DEF InToken, Pair
<1> QED
  BY <1>1, <1>3, <1>4 DEF ReadingFacts

\* The body has no balance when the scanner runs out of text.
LEMMA NoBalance ==
  ASSUME NEW a, Source(a), NEW d \in 1..Len(tokens), NEW n, NEW c, ScannedTo(a, d, n, c),
         i > Len(text), i \in Nat
  PROVE  \A m \in (d + 1)..Len(tokens) : Opened(d, m) # Closed(d, m)
<1>1. tokens \in Seq(Token) /\ Laid(a, tokens, text) /\ Len(tokens) \in Nat /\ Len(text) \in Nat
  BY DEF Source, Laid
<1>2. n \in d..(Len(tokens) + 1) /\ i = a[n] + c - 1 /\ c \in Nat \ {0}
      /\ (c = 1 \/ (n <= Len(tokens) /\ c <= Len(tokens[n])))
      /\ \A m \in (d + 1)..(n - 1) : Opened(d, m) # Closed(d, m)
  BY DEF ScannedTo
<1>3. n = Len(tokens) + 1
  <2> SUFFICES ASSUME n # Len(tokens) + 1 PROVE FALSE
    OBVIOUS
  <2>1. n \in 1..Len(tokens)
    BY <1>1, <1>2
  <2>2. Solid(tokens)
    BY <1>1, TokensSolid
  <2>3. Len(tokens[n]) \in Nat \ {0}
    BY <2>1, <2>2 DEF Solid
  <2>4. c \in Nat /\ 1 <= c /\ c <= Len(tokens[n])
    BY <1>2, <2>3
  <2>5. a[n] + c - 1 \in 1..Len(text)
    BY <1>1, <2>1, <2>2, <2>4, TokenInText
  <2>6. i \in 1..Len(text)
    BY <1>2, <2>5
  <2> QED
    BY <1>1, <2>6
<1>4. n - 1 = Len(tokens)
  BY <1>1, <1>3
<1> QED
  BY <1>2, <1>4

-----------------------------------------------------------------------------
(***************************************************************************)
(* An insertion before a token is one before its first character.          *)
(***************************************************************************)
LEMMA ConcatOnto ==
  ASSUME NEW S, NEW x \in Seq(S), NEW y \in Seq(S), NEW z \in Seq(S)
  PROVE  x \o (y \o z) = (x \o y) \o z
BY ConcatAssociative

\* The text of one sequence of tokens after another.
LEMMA FlatBoth ==
  ASSUME NEW S, NEW p \in Seq(Seq(S)), NEW q \in Seq(Seq(S))
  PROVE  FlattenSeq(p \o q) = FlattenSeq(p) \o FlattenSeq(q)
<1> DEFINE m == Len(p)
           n == Len(q)
           r == p \o q
           u == FlattenSeq(p)
<1>18. ASSUME NEW x \in Seq(S), NEW y \in Seq(S), NEW z \in Seq(S)
       PROVE  x \o (y \o z) = (x \o y) \o z
  BY ConcatOnto
<1>1. PICK f : IsFlat(f, p, S)
  BY FlatExists
<1>2. PICK g : IsFlat(g, q, S)
  BY FlatExists
<1>3. m \in Nat /\ n \in Nat
  BY LenProperties
<1>4. u = f[m] /\ u \in Seq(S) /\ FlattenSeq(q) = g[n]
  BY <1>1, <1>2, FlatIs
<1>5. /\ f \in [0..m -> Seq(S)] /\ f[0] = <<>>
      /\ \A k \in 1..m : f[k] = f[k - 1] \o p[k]
  BY <1>1 DEF IsFlat
<1>6. /\ g \in [0..n -> Seq(S)] /\ g[0] = <<>>
      /\ \A k \in 1..n : g[k] = g[k - 1] \o q[k]
  BY <1>2 DEF IsFlat
<1>7. /\ r \in Seq(Seq(S)) /\ Len(r) = m + n
      /\ \A k \in 1..(m + n) : r[k] = IF k <= m THEN p[k] ELSE q[k - m]
  BY ConcatProperties
<1>8. \A k \in 1..n : q[k] \in Seq(S)
  BY ElementOfSeq
<1> HIDE DEF m, n, r, u
<1> DEFINE h == [k \in 0..(m + n) |-> IF k <= m THEN f[k] ELSE u \o g[k - m]]
<1>9. ASSUME NEW k \in 0..n
      PROVE  g[k] \in Seq(S) /\ u \o g[k] \in Seq(S)
  <2>1. g[k] \in Seq(S)
    BY <1>6
  <2> QED
    BY <1>4, <2>1, ConcatProperties
<1>10. h \in [0..(m + n) -> Seq(S)]
  <2>1. ASSUME NEW k \in 0..(m + n)
        PROVE  (IF k <= m THEN f[k] ELSE u \o g[k - m]) \in Seq(S)
    <3>1. CASE k <= m
      <4>1. k \in 0..m
        BY <1>3, <3>1
      <4> QED
        BY <1>5, <3>1, <4>1
    <3>2. CASE ~(k <= m)
      <4>1. k - m \in 0..n
        BY <1>3, <3>2
      <4> QED
        BY <1>9, <3>2, <4>1
    <3> QED
      BY <3>1, <3>2
  <2> QED
    BY <2>1
<1>11. h[0] = <<>>
  <2>1. 0 \in 0..(m + n) /\ 0 <= m
    BY <1>3
  <2> QED
    BY <1>5, <2>1
<1>12. ASSUME NEW k \in 0..n
       PROVE  m + k \in 0..(m + n) /\ h[m + k] = u \o g[k]
  <2>1. m + k \in 0..(m + n)
    BY <1>3
  <2>2. CASE k = 0
    <3>1. h[m] = f[m]
      BY <1>3
    <3>2. u \o <<>> = u
      BY <1>4, ConcatEmptySeq
    <3>3. m + k = m
      BY <1>3, <2>2
    <3> HIDE DEF h
    <3> QED
      BY <1>4, <1>6, <2>1, <2>2, <3>1, <3>2, <3>3, Zenon
  <2>3. CASE k # 0
    <3>1. ~(m + k <= m) /\ (m + k) - m = k
      BY <1>3, <2>3
    <3> QED
      BY <2>1, <3>1
  <2> QED
    BY <2>1, <2>2, <2>3
<1>13. ASSUME NEW k \in 1..(m + n)
       PROVE  h[k] = h[k - 1] \o r[k]
  <2>1. CASE k <= m
    <3>1. k \in 1..m /\ k \in 0..(m + n) /\ k - 1 \in 0..(m + n) /\ k - 1 <= m
      BY <1>3, <2>1
    <3>2. h[k] = f[k] /\ h[k - 1] = f[k - 1]
      BY <2>1, <3>1
    <3>3. r[k] = p[k] /\ f[k] = f[k - 1] \o p[k]
      BY <1>5, <1>7, <2>1, <3>1
    <3> QED
      BY <3>2, <3>3
  <2>2. CASE ~(k <= m)
    <3>1. PICK j \in 1..n : k = m + j /\ k - m = j /\ k - 1 = m + (j - 1) /\ j - 1 \in 0..n
                            /\ j \in 0..n
      <4>1. k - m \in 1..n /\ k = m + (k - m) /\ k - 1 = m + ((k - m) - 1)
            /\ (k - m) - 1 \in 0..n /\ k - m \in 0..n
        BY <1>3, <2>2
      <4> QED
        BY <4>1
    <3>2. h[k] = u \o g[j]
      BY <1>12, <3>1
    <3>3. h[k - 1] = u \o g[j - 1]
      BY <1>12, <3>1
    <3>4. r[k] = q[j]
      BY <1>7, <2>2, <3>1
    <3>5. g[j] = g[j - 1] \o q[j]
      BY <1>6, <3>1
    <3>6. u \o (g[j - 1] \o q[j]) = (u \o g[j - 1]) \o q[j]
      <4>1. PICK v \in Seq(S), w \in Seq(S) : v = g[j - 1] /\ w = q[j]
        BY <1>8, <1>9, <3>1
      <4>3. PICK x \in Seq(S) : x = u
        BY <1>4
      <4>2. x \o (v \o w) = (x \o v) \o w
        <5>1. x \in Seq(S) /\ v \in Seq(S) /\ w \in Seq(S)
          BY <4>1, <4>3
        <5> QED
          BY <1>18, <5>1
      <4> QED
        BY <4>1, <4>2, <4>3, Zenon
    <3> HIDE DEF h
    <3> QED
      BY <3>2, <3>3, <3>4, <3>5, <3>6
  <2> QED
    BY <2>1, <2>2
<1>14. IsFlat(h, r, S)
  <2> HIDE DEF h
  <2> QED
    BY <1>7, <1>10, <1>11, <1>13 DEF IsFlat
<1>15. FlattenSeq(r) = h[Len(r)]
  BY <1>7, <1>14, FlatIs
<1>16. h[m + n] = u \o g[n]
  <2>1. n \in 0..n
    BY <1>3
  <2> QED
    BY <1>12, <2>1
<1> HIDE DEF h
<1>17. FlattenSeq(r) = u \o g[n]
  BY <1>7, <1>15, <1>16
<1> QED
  BY <1>4, <1>17 DEF r, u

\* The text of a single token.
LEMMA FlatSingle ==
  ASSUME NEW S, NEW q \in Seq(Seq(S)), Len(q) = 1
  PROVE  FlattenSeq(q) = q[1]
<1>1. PICK g : IsFlat(g, q, S)
  BY FlatExists
<1>2. FlattenSeq(q) = g[1]
  BY <1>1, FlatIs
<1>3. g[0] = <<>> /\ \A k \in 1..1 : g[k] = g[k - 1] \o q[k]
  BY <1>1 DEF IsFlat
<1>4. g[1] = <<>> \o q[1]
  <2>1. 1 \in 1..1 /\ 1 - 1 = 0
    OBVIOUS
  <2>2. g[1] = g[1 - 1] \o q[1]
    BY <1>3, <2>1
  <2> QED
    BY <1>3, <2>1, <2>2
<1>5. q[1] \in Seq(S)
  <2>1. 1 \in 1..Len(q)
    OBVIOUS
  <2> QED
    BY <2>1, ElementOfSeq
<1>6. <<>> \o q[1] = q[1]
  BY <1>5, ConcatEmptySeq
<1> QED
  BY <1>2, <1>4, <1>6

\* The text of one token.
LEMMA FlatOne ==
  ASSUME NEW S, NEW t \in Seq(S)
  PROVE  <<t>> \in Seq(Seq(S)) /\ FlattenSeq(<<t>>) = t
<1>1. PICK R : R = Seq(S)
  OBVIOUS
<1>2. t \in R
  BY <1>1
<1>3. <<t>> \in Seq(R) /\ Len(<<t>>) = 1 /\ <<t>>[1] = t
  BY <1>2
<1>4. PICK q \in Seq(R) : q = <<t>>
  BY <1>3
<1>5. Len(q) = 1 /\ q[1] = t
  BY <1>3, <1>4
<1>6. FlattenSeq(q) = q[1]
  BY <1>1, <1>5, FlatSingle
<1> QED
  BY <1>1, <1>3, <1>4, <1>5, <1>6

\* The tokens before the n-th make the text before its place.
LEMMA LaidLength ==
  ASSUME NEW a, NEW q \in Seq(Seq(Chars)), NEW s, Laid(a, q, s),
         NEW g, IsFlat(g, q, Chars)
  PROVE  \A k \in 0..Len(q) : Len(g[k]) + 1 = a[k + 1]
<1> DEFINE n == Len(q)
           T == {k \in Nat : k <= n => Len(g[k]) + 1 = a[k + 1]}
<1>1. n \in Nat /\ a[1] = 1 /\ \A k \in 1..n : a[k + 1] = a[k] + Len(q[k])
  BY DEF Laid
<1>2. g \in [0..n -> Seq(Chars)] /\ g[0] = <<>> /\ \A k \in 1..n : g[k] = g[k - 1] \o q[k]
  BY DEF IsFlat
<1>3. \A k \in 1..n : q[k] \in Seq(Chars)
  BY ElementOfSeq
<1> HIDE DEF n
<1>4. 0 \in T
  <2>1. Len(<<>>) = 0 /\ 0 + 1 = 1
    OBVIOUS
  <2> QED
    BY <1>1, <1>2, <2>1
<1>5. ASSUME NEW k \in Nat, k \in T
      PROVE  k + 1 \in T
  <2> SUFFICES ASSUME k + 1 <= n PROVE Len(g[k + 1]) + 1 = a[k + 1 + 1]
    OBVIOUS
  <2>1. PICK j \in 1..n : j = k + 1 /\ j - 1 = k /\ k \in 0..n
    BY <1>1
  <2>2. Len(g[k]) + 1 = a[j]
    BY <1>1, <1>5, <2>1
  <2>3. g[k] \in Seq(Chars) /\ q[j] \in Seq(Chars) /\ g[j] = g[k] \o q[j]
    BY <1>2, <1>3, <2>1
  <2>4. Len(g[j]) = Len(g[k]) + Len(q[j])
    BY <2>3, ConcatProperties
  <2>5. PICK x \in Nat, y \in Nat : x = Len(g[k]) /\ y = Len(q[j])
    BY <2>3, LenProperties
  <2>6. Len(g[j]) + 1 = (x + 1) + y
    <3>1. Len(g[j]) + 1 = (x + y) + 1
      BY <2>4, <2>5, Zenon
    <3>2. (x + y) + 1 = (x + 1) + y
      OBVIOUS
    <3> QED
      BY <3>1, <3>2, Zenon
  <2>7. a[j + 1] = (x + 1) + y
    BY <1>1, <2>1, <2>2, <2>5
  <2> QED
    BY <2>1, <2>6, <2>7
<1>6. Nat \subseteq T
  <2> HIDE DEF T
  <2> QED
    BY <1>4, <1>5, NatSetInduction
<1>7. ASSUME NEW k \in 0..n
      PROVE  Len(g[k]) + 1 = a[k + 1]
  BY <1>1, <1>6
<1> QED
  BY <1>7 DEF n

\* A text can be cut where it was joined.
LEMMA CutConcat ==
  ASSUME NEW S, NEW u \in Seq(S), NEW v \in Seq(S)
  PROVE  /\ SubSeq(u \o v, 1, Len(u)) = u
         /\ SubSeq(u \o v, Len(u) + 1, Len(u \o v)) = v
<1> DEFINE w == u \o v
<1>1. PICK k \in Nat, l \in Nat : k = Len(u) /\ l = Len(v)
  BY LenProperties
<1>2. /\ w \in Seq(S) /\ Len(w) = k + l
      /\ \A j \in 1..(k + l) : w[j] = IF j <= k THEN u[j] ELSE v[j - k]
  BY <1>1, ConcatProperties
<1>3. \A j \in 1..(k + l) : w[j] \in S
  BY <1>2, ElementOfSeq
<1> HIDE DEF w
<1>4. SubSeq(w, 1, k) = u
  <2>1. \A j \in 1..k : w[j] \in S
    BY <1>1, <1>3
  <2>2. /\ SubSeq(w, 1, k) \in Seq(S)
        /\ Len(SubSeq(w, 1, k)) = IF 1 <= k THEN k - 1 + 1 ELSE 0
        /\ \A j \in 1..(k - 1 + 1) : SubSeq(w, 1, k)[j] = w[1 + j - 1]
    BY <1>1, <1>2, <2>1, SubSeqProperties
  <2>3. PICK x \in Seq(S) : x = SubSeq(w, 1, k)
    BY <2>2
  <2>4. Len(x) = k
    <3>1. (IF 1 <= k THEN k - 1 + 1 ELSE 0) = k
      BY <1>1
    <3> QED
      BY <2>2, <2>3, <3>1, Zenon
  <2>5. \A j \in 1..k : x[j] = u[j]
    <3> SUFFICES ASSUME NEW j \in 1..k PROVE x[j] = u[j]
      OBVIOUS
    <3>1. j \in 1..(k - 1 + 1) /\ 1 + j - 1 = j /\ j \in 1..(k + l) /\ j <= k
      BY <1>1
    <3>2. x[j] = w[1 + j - 1]
      BY <2>2, <2>3, <3>1
    <3> QED
      BY <1>2, <3>1, <3>2
  <2>6. x = u
    BY <1>1, <2>4, <2>5, SeqEqual
  <2> QED
    BY <2>3, <2>6
<1>5. SubSeq(w, k + 1, k + l) = v
  <2>1. \A j \in (k + 1)..(k + l) : w[j] \in S
    <3>1. \A j \in (k + 1)..(k + l) : j \in 1..(k + l)
      BY <1>1
    <3> QED
      BY <1>3, <3>1
  <2>2. /\ SubSeq(w, k + 1, k + l) \in Seq(S)
        /\ Len(SubSeq(w, k + 1, k + l)) = IF k + 1 <= k + l THEN k + l - (k + 1) + 1 ELSE 0
        /\ \A j \in 1..(k + l - (k + 1) + 1) : SubSeq(w, k + 1, k + l)[j] = w[k + 1 + j - 1]
    <3>1. k + 1 \in Int /\ k + l \in Int
      BY <1>1
    <3> QED
      BY <1>2, <2>1, <3>1, SubSeqProperties
  <2>3. PICK x \in Seq(S) : x = SubSeq(w, k + 1, k + l)
    BY <2>2
  <2>4. Len(x) = l
    <3>1. (IF k + 1 <= k + l THEN k + l - (k + 1) + 1 ELSE 0) = l
      BY <1>1
    <3> QED
      BY <2>2, <2>3, <3>1, Zenon
  <2>5. \A j \in 1..l : x[j] = v[j]
    <3> SUFFICES ASSUME NEW j \in 1..l PROVE x[j] = v[j]
      OBVIOUS
    <3>1. /\ j \in 1..(k + l - (k + 1) + 1) /\ k + 1 + j - 1 = k + j /\ k + j \in 1..(k + l)
          /\ ~(k + j <= k) /\ (k + j) - k = j
      BY <1>1
    <3>2. x[j] = w[k + 1 + j - 1]
      BY <2>2, <2>3, <3>1
    <3>3. w[k + j] = v[(k + j) - k]
      BY <1>2, <3>1
    <3> QED
      BY <3>1, <3>2, <3>3, Zenon
  <2>6. x = v
    BY <1>1, <2>4, <2>5, SeqEqual
  <2> QED
    BY <2>3, <2>6
<1> QED
  BY <1>1, <1>2, <1>4, <1>5, Zenon DEF w

\* A token inserted before token n is a character inserted at its place.
LEMMA FlatInsert ==
  ASSUME NEW a, NEW q \in Seq(Seq(Chars)), Laid(a, q, FlattenSeq(q)),
         NEW n \in 1..(Len(q) + 1), NEW c \in Chars
  PROVE  FlattenSeq(InsertAt(q, n, <<c>>)) = InsertAt(FlattenSeq(q), a[n], c)
<1> DEFINE R == Seq(Chars)
           p == SubSeq(q, 1, n - 1)
           r == SubSeq(q, n, Len(q))
           u == FlattenSeq(p)
           v == FlattenSeq(r)
           s == FlattenSeq(q)
<1>1. PICK l \in Nat : l = Len(q)
  BY LenProperties
<1>2. n \in Nat /\ 1 <= n /\ n - 1 \in 0..l /\ (n - 1) + 1 = n
  BY <1>1
<1>3. \A j \in 1..l : q[j] \in R
  BY <1>1, ElementOfSeq
<1>4. p \in Seq(R) /\ Len(p) = n - 1 /\ \A j \in 1..(n - 1) : p[j] = q[j]
  <2> HIDE DEF R
  <2>1. q \in Seq(R) /\ \A j \in 1..(n - 1) : q[j] \in R
    BY <1>1, <1>2, <1>3 DEF R
  <2>2. /\ p \in Seq(R) /\ Len(p) = IF 1 <= n - 1 THEN (n - 1) - 1 + 1 ELSE 0
        /\ \A j \in 1..((n - 1) - 1 + 1) : p[j] = q[1 + j - 1]
    BY <1>2, <2>1, SubSeqProperties
  <2> HIDE DEF p
  <2>3. (IF 1 <= n - 1 THEN (n - 1) - 1 + 1 ELSE 0) = n - 1
    BY <1>2
  <2>4. ASSUME NEW j \in 1..(n - 1)
        PROVE  p[j] = q[j]
    <3>1. j \in 1..((n - 1) - 1 + 1) /\ 1 + j - 1 = j
      BY <1>2
    <3>2. p[j] = q[1 + j - 1]
      BY <2>2, <3>1, Zenon
    <3> QED
      BY <3>1, <3>2, Zenon
  <2>5. Len(p) = n - 1
    <3>1. PICK z : z = Len(p)
      OBVIOUS
    <3>2. z = IF 1 <= n - 1 THEN (n - 1) - 1 + 1 ELSE 0
      BY <2>2, <3>1
    <3>3. z = n - 1
      BY <1>2, <3>2
    <3> QED
      BY <3>1, <3>3
  <2>6. p \in Seq(R)
    BY <2>2, Zenon
  <2> QED
    BY <2>4, <2>5, <2>6, Zenon
<1>5. r \in Seq(R)
  <2> HIDE DEF R
  <2>1. q \in Seq(R) /\ \A j \in n..l : q[j] \in R
    BY <1>1, <1>2, <1>3 DEF R
  <2> QED
    BY <1>1, <1>2, <2>1, SubSeqProperties
<1>6. q = p \o r
  <2> HIDE DEF R
  <2>1. /\ q \in Seq(R) /\ 1 \in 1..(Len(q) + 1)
        /\ n - 1 \in 1 - 1..Len(q) /\ Len(q) \in (n - 1)..Len(q)
    BY <1>1, <1>2 DEF R
  <2>2. SubSeq(q, 1, n - 1) \o SubSeq(q, (n - 1) + 1, Len(q)) = SubSeq(q, 1, Len(q))
    BY <2>1, ConcatAdjacentSubSeq
  <2>3. SubSeq(q, 1, Len(q)) = q
    BY <2>1, SubSeqFull
  <2> QED
    BY <1>2, <2>2, <2>3
<1> HIDE DEF p, r
<1>7. s = u \o v /\ u \in Seq(Chars) /\ v \in Seq(Chars)
  BY <1>4, <1>5, <1>6, FlatBoth, FlattenedType
<1>8. Len(u) + 1 = a[n]
  <2>1. PICK g : IsFlat(g, q, Chars)
    BY FlatExists
  <2>2. Len(g[n - 1]) + 1 = a[(n - 1) + 1]
    BY <1>1, <1>2, <2>1, LaidLength
  <2>3. g \in [0..l -> R] /\ g[0] = <<>> /\ \A k \in 1..l : g[k] = g[k - 1] \o q[k]
    BY <1>1, <2>1 DEF IsFlat
  <2> DEFINE h == [k \in 0..(n - 1) |-> g[k]]
  <2>4. IsFlat(h, p, Chars)
    <3>1. h \in [0..(n - 1) -> R]
      <4>1. \A k \in 0..(n - 1) : k \in 0..l
        BY <1>2
      <4> QED
        BY <2>3, <4>1
    <3>2. h[0] = <<>>
      BY <1>2, <2>3
    <3>3. ASSUME NEW k \in 1..(n - 1)
          PROVE  h[k] = h[k - 1] \o p[k]
      <4>1. k \in 1..l /\ k \in 0..(n - 1) /\ k - 1 \in 0..(n - 1)
        BY <1>1, <1>2
      <4>2. g[k] = g[k - 1] \o q[k]
        BY <2>3, <4>1
      <4>3. h[k] = g[k] /\ h[k - 1] = g[k - 1] /\ p[k] = q[k]
        BY <1>4, <4>1
      <4> QED
        BY <4>2, <4>3, Zenon
    <3> HIDE DEF h
    <3> QED
      BY <1>4, <3>1, <3>2, <3>3 DEF IsFlat
  <2>5. u = h[n - 1]
    <3> HIDE DEF h
    <3>1. FlattenSeq(p) = h[Len(p)]
      BY <1>4, <2>4, FlatIs
    <3> QED
      BY <1>4, <3>1
  <2>6. h[n - 1] = g[n - 1]
    BY <1>2
  <2> QED
    BY <1>2, <2>2, <2>5, <2>6
<1> HIDE DEF u, v, s
<1>9. InsertAt(s, a[n], c) = u \o <<c>> \o v
  <2>1. Len(u) \in Nat
    BY <1>7, LenProperties
  <2>2. a[n] - 1 = Len(u)
    BY <1>8, <2>1
  <2>3. SubSeq(s, 1, a[n] - 1) = u /\ SubSeq(s, a[n], Len(s)) = v
    BY <1>7, <1>8, <2>2, CutConcat
  <2> QED
    BY <2>3 DEF InsertAt
<1>10. FlattenSeq(InsertAt(q, n, <<c>>)) = u \o <<c>> \o v
  <2>1. InsertAt(q, n, <<c>>) = p \o <<<<c>>>> \o r
    BY DEF InsertAt, p, r
  <2>2. PICK t \in R : t = <<c>>
    <3>1. <<c>> \in Seq(Chars)
      OBVIOUS
    <3> QED
      BY <3>1, Zenon
  <2>3. <<t>> \in Seq(R) /\ FlattenSeq(<<t>>) = t
    BY <2>2, FlatOne
  <2>4. PICK T \in Seq(R) : T = <<t>>
    BY <2>3
  <2>5. p \o T \in Seq(R) /\ FlattenSeq(p \o T) = u \o t
    <3>1. FlattenSeq(p \o T) = FlattenSeq(p) \o FlattenSeq(T)
      BY <1>4, FlatBoth
    <3>2. p \o T \in Seq(R)
      <4> HIDE DEF R
      <4> QED
        BY <1>4, ConcatProperties
    <3> QED
      BY <2>3, <2>4, <3>1, <3>2 DEF u
  <2>6. FlattenSeq((p \o T) \o r) = FlattenSeq(p \o T) \o FlattenSeq(r)
    BY <1>5, <2>5, FlatBoth
  <2> QED
    BY <2>1, <2>2, <2>4, <2>5, <2>6, Zenon DEF v
<1> QED
  BY <1>9, <1>10 DEF s

-----------------------------------------------------------------------------
(***************************************************************************)
(* The body, and the places that are meant.                                *)
(***************************************************************************)
Balanced(d) == {n \in (d + 1)..Len(tokens) : Opened(d, n) = Closed(d, n)}

\* The tokens of the body of d.
BodyOf(d) ==
  IF Balanced(d) = {} THEN {}
  ELSE d..(CHOOSE n \in Balanced(d) : \A m \in Balanced(d) : n <= m)

\* The body is that of the one definition.
LEMMA BodyHas ==
  ASSUME NEW d, Only(d), tokens \in Seq(Token)
  PROVE  Body = BodyOf(d) /\ Tokens(Definition) = {d}
<1>1. Body = BodyOf(CHOOSE n \in Tokens(Definition) : TRUE)
  BY DEF Body, BodyOf, Balanced, Opened, Closed, Between, Single, Definition
<1>2. Tokens(Definition) = {d}
  <2>1. DOMAIN tokens = 1..Len(tokens)
    BY LenProperties
  <2> QED
    BY <2>1 DEF Tokens, Only
<1>3. (CHOOSE n \in Tokens(Definition) : TRUE) = d
  BY <1>2
<1> QED
  BY <1>1, <1>2, <1>3

\* The body ends where the scan ends.
LEMMA BodyFound ==
  ASSUME NEW a, Source(a), NEW d, Only(d), NEW n, Found(a, d, n)
  PROVE  Body = d..n
<1>1. tokens \in Seq(Token) /\ Len(tokens) \in Nat /\ d \in Nat
  BY LenProperties DEF Source, Only
<1>2. n \in (d + 1)..Len(tokens) /\ Opened(d, n) = Closed(d, n)
      /\ \A m \in (d + 1)..(n - 1) : Opened(d, m) # Closed(d, m)
  BY DEF Found
<1>3. n \in Balanced(d)
  BY <1>2 DEF Balanced
<1>4. \A m \in Balanced(d) : m \in Nat /\ n <= m /\ n \in Nat
  BY <1>1, <1>2 DEF Balanced
<1> DEFINE c == CHOOSE k \in Balanced(d) : \A m \in Balanced(d) : k <= m
<1>5. c \in Balanced(d) /\ \A m \in Balanced(d) : c <= m
  <2>1. \E k \in Balanced(d) : \A m \in Balanced(d) : k <= m
    BY <1>3, <1>4
  <2> QED
    BY <2>1
<1>6. c = n
  <2> HIDE DEF c
  <2>1. c \in Nat /\ n <= c /\ c <= n /\ n \in Nat
    BY <1>3, <1>4, <1>5
  <2> QED
    BY <2>1
<1>7. BodyOf(d) = d..c
  BY <1>3 DEF BodyOf
<1> QED
  BY <1>1, <1>6, <1>7, BodyHas

\* A function that is never closed has no body.
LEMMA BodyMissing ==
  ASSUME NEW d, Only(d), tokens \in Seq(Token),
         \A m \in (d + 1)..Len(tokens) : Opened(d, m) # Closed(d, m)
  PROVE  Body = {}
<1>1. Balanced(d) = {}
  BY DEF Balanced
<1> QED
  BY <1>1, BodyHas DEF BodyOf

\* What is meant, for a body B.
MeantIn(B) ==
  IF job = "queue depth call" THEN {n + 1 : n \in First(Single("guard"), B)}
  ELSE UNION {First(Single("destroy"), {m \in B : m > n}) : n \in First(Single("label"), B)}

\* Meant is about the body.
LEMMA MeantIs == Meant = MeantIn(Body)
BY DEF Meant, MeantIn, Single

\* Nothing is meant without a body.
LEMMA NoneMeant == MeantIn({}) = {}
<1>1. \A t : First(t, {}) = {}
  BY DEF First
<1>2. {n + 1 : n \in First(Single("guard"), {})} = {}
  BY <1>1
<1>3. UNION {First(Single("destroy"), {m \in {} : m > n}) : n \in First(Single("label"), {})} = {}
  BY <1>1
<1> QED
  BY <1>2, <1>3 DEF MeantIn

\* The place behind the guard is the one that is meant.
LEMMA AfterGuard ==
  ASSUME NEW a, Source(a), NEW d, Only(d), NEW n, Found(a, d, n), start = a[d],
         NEW B, B = d..n
  PROVE  /\ after_guard = {a[m] : m \in {k + 1 : k \in First(Single("guard"), B)}}
         /\ {k + 1 : k \in First(Single("guard"), B)} \subseteq 1..(Len(tokens) + 1)
<1> DEFINE F == First(Single("guard"), B)
<1>1. tokens \in Seq(Token) /\ Laid(a, tokens, text) /\ Len(tokens) \in Nat
      /\ DOMAIN tokens = 1..Len(tokens)
  BY LenProperties DEF Source
<1>2. d \in 1..Len(tokens) /\ n \in 1..Len(tokens) /\ i = a[n]
  <2>1. d \in 1..Len(tokens) /\ n \in (d + 1)..Len(tokens) /\ i = a[n]
    BY DEF Only, Found
  <2> QED
    BY <1>1, <2>1
<1>3. FirstFrom("guard", start, i) = {a[m] : m \in F}
  <2>1. "guard" \in Anchors
    BY DEF Anchors
  <2>2. FirstFrom("guard", a[d], a[n]) = {a[m] : m \in First(Single("guard"), d..n)}
    BY <1>2, <2>1, FirstPlaces
  <2> QED
    BY <1>2, <2>2
<1>4. ASSUME NEW m \in F
      PROVE  m \in 1..Len(tokens) /\ a[m + 1] = a[m] + 1 /\ m + 1 \in 1..(Len(tokens) + 1)
  <2>1. m \in 1..Len(tokens) /\ tokens[m] = Single("guard")
    BY <1>1 DEF First, Tokens
  <2>2. Len(tokens[m]) = 1
    BY <2>1 DEF Single
  <2>3. a[m + 1] = a[m] + Len(tokens[m])
    BY <1>1, <2>1 DEF Laid
  <2>4. m + 1 \in 1..(Len(tokens) + 1)
    BY <1>1, <2>1
  <2> QED
    BY <2>1, <2>2, <2>3, <2>4
<1> HIDE DEF F
<1>5. {k + 1 : k \in F} \subseteq 1..(Len(tokens) + 1)
  BY <1>4
<1>6. after_guard = {k + 1 : k \in {a[m] : m \in F}}
  BY <1>3 DEF after_guard
<1>7. {k + 1 : k \in {a[m] : m \in F}} = {a[m] : m \in {k + 1 : k \in F}}
  <2>1. {k + 1 : k \in {a[m] : m \in F}} = {a[m] + 1 : m \in F}
    OBVIOUS
  <2>2. {a[m] : m \in {k + 1 : k \in F}} = {a[m + 1] : m \in F}
    OBVIOUS
  <2>3. {a[m + 1] : m \in F} = {a[m] + 1 : m \in F}
    BY <1>4
  <2> QED
    BY <2>1, <2>2, <2>3
<1> QED
  BY <1>5, <1>6, <1>7 DEF F

DestroysIn(B) ==
  UNION {First(Single("destroy"), {m \in B : m > k}) : k \in First(Single("label"), B)}

\* So is the place before the destruction behind the label.
LEMMA BeforeDestroy ==
  ASSUME NEW a, Source(a), NEW d, Only(d), NEW n, Found(a, d, n), start = a[d],
         NEW B, B = d..n
  PROVE  /\ before_destroy = {a[m] : m \in DestroysIn(B)}
         /\ DestroysIn(B) \subseteq 1..(Len(tokens) + 1)
<1> DEFINE L == First(Single("label"), B)
           M == DestroysIn(B)
           D(k) == First(Single("destroy"), {m \in B : m > k})
<1>1. tokens \in Seq(Token) /\ Laid(a, tokens, text) /\ Len(tokens) \in Nat
      /\ DOMAIN tokens = 1..Len(tokens)
  BY LenProperties DEF Source
<1>2. d \in 1..Len(tokens) /\ n \in 1..Len(tokens) /\ i = a[n]
  <2>1. d \in 1..Len(tokens) /\ n \in (d + 1)..Len(tokens) /\ i = a[n]
    BY DEF Only, Found
  <2> QED
    BY <1>1, <2>1
<1>3. FirstFrom("label", start, i) = {a[m] : m \in L}
  <2>1. "label" \in Anchors
    BY DEF Anchors
  <2>2. FirstFrom("label", a[d], a[n]) = {a[m] : m \in First(Single("label"), d..n)}
    BY <1>2, <2>1, FirstPlaces
  <2> QED
    BY <1>2, <2>2
<1>4. ASSUME NEW k \in L
      PROVE  k \in 1..Len(tokens) /\ k \in d..n /\ tokens[k] = Single("label")
  BY <1>1 DEF First, Tokens
<1>5. ASSUME NEW k \in L
      PROVE  FirstFrom("destroy", a[k], i) = {a[m] : m \in D(k)}
  <2>1. "destroy" \in Anchors
    BY DEF Anchors
  <2>2. k \in 1..Len(tokens)
    BY <1>4
  <2>3. FirstFrom("destroy", a[k], a[n]) = {a[m] : m \in First(Single("destroy"), k..n)}
    BY <1>2, <2>1, <2>2, FirstPlaces
  <2>4. First(Single("destroy"), k..n) = D(k)
    <3>1. k \notin Tokens(Single("destroy"))
      <4>1. Single("label")[1] = "label" /\ Single("destroy")[1] = "destroy"
        BY DEF Single
      <4>2. Single("label") # Single("destroy")
        BY <4>1
      <4> QED
        BY <1>4, <4>2 DEF Tokens
    <3>2. \A m \in Tokens(Single("destroy")) : m \in k..n <=> m \in {j \in B : j > k}
      <4>1. ASSUME NEW m \in Tokens(Single("destroy"))
            PROVE  m \in k..n <=> m \in {j \in B : j > k}
        <5>1. m \in 1..Len(tokens) /\ k \in d..n /\ m # k
          BY <1>1, <1>4, <3>1 DEF Tokens
        <5>2. m \in k..n <=> (m \in d..n /\ m > k)
          BY <1>1, <1>2, <5>1
        <5> QED
          BY <5>2
      <4> QED
        BY <4>1
    <3>3. Tokens(Single("destroy")) \cap (k..n) = Tokens(Single("destroy")) \cap {j \in B : j > k}
      BY <3>2
    <3> QED
      BY <3>3 DEF First
  <2> QED
    BY <1>2, <2>3, <2>4
<1>6. \A k \in L : D(k) \subseteq 1..(Len(tokens) + 1)
  <2>1. \A t, W : First(t, W) \subseteq DOMAIN tokens
    BY DEF First, Tokens
  <2>2. 1..Len(tokens) \subseteq 1..(Len(tokens) + 1)
    BY <1>1
  <2> QED
    BY <1>1, <2>1, <2>2
<1>7. M = UNION {D(k) : k \in L}
  BY DEF DestroysIn
<1> HIDE DEF L, D, M
<1>8. before_destroy = UNION {FirstFrom("destroy", k, i) : k \in {a[m] : m \in L}}
  BY <1>3 DEF before_destroy
<1>9. ASSUME NEW x
      PROVE  x \in before_destroy <=> x \in {a[m] : m \in M}
  <2>1. x \in before_destroy <=> \E k \in L : x \in FirstFrom("destroy", a[k], i)
    BY <1>8
  <2>2. x \in {a[m] : m \in M} <=> \E k \in L : \E m \in D(k) : x = a[m]
    BY <1>7
  <2> QED
    BY <1>5, <2>1, <2>2
<1> QED
  BY <1>6, <1>7, <1>9 DEF M

\* The script inserts at the places of the tokens that are meant.
LEMMA PlacesMeant ==
  ASSUME NEW a, Source(a), NEW d, Only(d), NEW n, Found(a, d, n), start = a[d]
  PROVE  places = {a[m] : m \in Meant} /\ Meant \subseteq 1..(Len(tokens) + 1)
<1>1. Body = d..n
  BY BodyFound
<1>2. PICK B : B = d..n
  OBVIOUS
<1>3. Meant = MeantIn(B)
  BY <1>1, <1>2, MeantIs
<1>4. CASE job = "queue depth call"
  <2>1. Meant = {k + 1 : k \in First(Single("guard"), B)} /\ places = after_guard
    BY <1>3, <1>4 DEF MeantIn, places
  <2> QED
    BY <1>2, <2>1, AfterGuard
<1>5. CASE job # "queue depth call"
  <2>1. Meant =
          UNION {First(Single("destroy"), {m \in B : m > k}) : k \in First(Single("label"), B)}
    BY <1>3, <1>5 DEF MeantIn
  <2>2. places = before_destroy
    BY <1>5 DEF places
  <2>3. /\ before_destroy = {a[m] : m \in DestroysIn(B)}
        /\ DestroysIn(B) \subseteq 1..(Len(tokens) + 1)
    BY <1>2, BeforeDestroy
  <2>4. Meant = DestroysIn(B)
    BY <2>1 DEF DestroysIn
  <2> QED
    BY <2>2, <2>3, <2>4
<1> QED
  BY <1>4, <1>5

-----------------------------------------------------------------------------
(***************************************************************************)
(* The insertion.                                                          *)
(***************************************************************************)
\* What is looked for and where it is found, a being the places of the
\* tokens and d the definition.
Sought(a, d) ==
  /\ Source(a) /\ Only(d) /\ start = a[d]
  /\ pc = "scan" => \E n, c : ScannedTo(a, d, n, c)
  /\ pc = "insert" => \E n : Found(a, d, n)

\* The invariant of a run with a text.
MeantInv ==
  /\ tokens \in Seq(Token) /\ patch = EnoughHunks
  /\ pc \in {"read", "find", "scan", "insert"} => text = FlattenSeq(tokens)
  /\ pc \in {"scan", "insert"} => Tokens(Single(Marker)) = {} /\ \E a, d : Sought(a, d)
  /\ InsertedAsMeant

\* Where the piece is meant, if the function has one definition.
PlacedIn == IF Cardinality(Tokens(Definition)) = 1 THEN Meant ELSE {}

\* InsertedAsMeant, by named parts.
LEMMA InsertedIs ==
  InsertedAsMeant <=>
    (tokens # <<>> =>
      /\ Tokens(Single(Marker)) # {} => pc # "died" /\ text = FlattenSeq(tokens)
      /\ pc = "done" /\ ~(Tokens(Single(Marker)) # {}) =>
           \E n \in PlacedIn : text = FlattenSeq(InsertAt(tokens, n, <<Marker>>))
      /\ pc = "died" => PlacedIn = {} /\ text = FlattenSeq(tokens))
BY DEF InsertedAsMeant, PlacedIn, Single, Definition

\* What is meant depends on the tokens and the job.
LEMMA SameTokens ==
  ASSUME UNCHANGED <<tokens, job>>
  PROVE  /\ Marker' = Marker /\ PlacedIn' = PlacedIn
         /\ \A x : Tokens(x)' = Tokens(x)
         /\ \A d : Only(d)' = Only(d)
<1>1. Marker' = Marker
  BY DEF Marker
<1>2. \A x : Tokens(x)' = Tokens(x)
  BY DEF Tokens
<1>3. \A d : Only(d)' = Only(d)
  BY DEF Only
<1>4. PlacedIn' = PlacedIn
  BY DEF PlacedIn, Meant, Body, First, Tokens
<1> QED
  BY <1>1, <1>2, <1>3, <1>4

\* InsertedAsMeant after a step that leaves tokens and job alone.
LEMMA InsertedNext ==
  ASSUME UNCHANGED <<tokens, job>>,
         Tokens(Single(Marker)) # {} => pc' # "died" /\ text' = FlattenSeq(tokens),
         pc' = "done" /\ ~(Tokens(Single(Marker)) # {}) =>
           \E n \in PlacedIn : text' = FlattenSeq(InsertAt(tokens, n, <<Marker>>)),
         pc' = "died" => PlacedIn = {} /\ text' = FlattenSeq(tokens)
  PROVE  InsertedAsMeant'
<1>1. /\ Marker' = Marker /\ PlacedIn' = PlacedIn
      /\ Tokens(Single(Marker))' = Tokens(Single(Marker))
  <2>1. Single(Marker)' = Single(Marker)
    BY SameTokens DEF Single
  <2> QED
    BY <2>1, SameTokens DEF Tokens
<1>2. InsertedAsMeant' <=>
        (tokens' # <<>> =>
          /\ Tokens(Single(Marker))' # {} => pc' # "died" /\ text' = FlattenSeq(tokens')
          /\ pc' = "done" /\ ~(Tokens(Single(Marker))' # {}) =>
               \E n \in PlacedIn' : text' = FlattenSeq(InsertAt(tokens', n, <<Marker'>>))
          /\ pc' = "died" => PlacedIn' = {} /\ text' = FlattenSeq(tokens'))
  BY DEF InsertedAsMeant, PlacedIn, Single, Definition
<1> QED
  BY <1>1, <1>2, Zenon

\* The invariant of the insertion holds at first.
LEMMA MeantInit == Init /\ tokens # <<>> => MeantInv
<1> SUFFICES ASSUME Init, tokens # <<>> PROVE MeantInv
  OBVIOUS
<1>1. tokens \in Sources /\ patch = EnoughHunks /\ pc = "read" /\ text = FlattenSeq(tokens)
  BY DEF Init, EnoughHunks
<1>2. tokens \in Seq(Token)
  BY <1>1, TextAssumption
<1>3. InsertedAsMeant
  BY <1>1, InsertedIs
<1> QED
  BY <1>1, <1>2, <1>3 DEF MeantInv

\* The patch that comes with a text has the hunks that the script requires.
LEMMA EnoughFound ==
  Len(parse_file_hunks(Rendered(EnoughHunks))) = MinHunks
<1> DEFINE r == [k \in 1..MinHunks |-> <<>>]
           q == Wanted(EnoughHunks)
           H == Seq(HunkLines)
<1>1. EnoughHunks \in Files /\ MinHunks \in Nat
  BY FilesGiven, TextAssumption
<1>2. parse_file_hunks(Rendered(EnoughHunks)) = FlattenSeq(q)
  BY <1>1, HunksGiven
<1>3. r \in Seq(H) /\ Len(r) = MinHunks
  <2>1. <<>> \in H
    BY EmptySeq
  <2> HIDE DEF H
  <2>2. r \in [1..MinHunks -> H]
    BY <2>1
  <2> QED
    BY <1>1, <2>2, FunctionIsSeq
<1>4. q = [n \in {1} |-> r]
  BY DEF Wanted, EnoughHunks
<1> HIDE DEF r, q, H
<1>5. q \in [1..1 -> Seq(H)] /\ q[1] = r
  <2>1. 1..1 = {1}
    OBVIOUS
  <2> QED
    BY <1>3, <1>4, <2>1
<1>6. q \in Seq(Seq(H)) /\ Len(q) = 1
  BY <1>5, FunctionIsSeq
<1>7. FlattenSeq(q) = q[1]
  BY <1>6, FlatSingle
<1> QED
  BY <1>2, <1>3, <1>5, <1>7

\* read_patch does not end the script then.
LEMMA MeantRead ==
  ASSUME TextInv, MeantInv, tokens # <<>>, read_patch
  PROVE  MeantInv'
<1>1. /\ tokens \in Seq(Token) /\ patch = EnoughHunks /\ pc = "read"
      /\ text = FlattenSeq(tokens) /\ UNCHANGED <<patch, tokens, text, job>>
  BY DEF MeantInv, read_patch
<1>2. pc' = "find"
  <2>1. Len(parse_file_hunks(Rendered(patch))) = MinHunks /\ MinHunks \in Nat
    BY <1>1, EnoughFound, TextAssumption
  <2>2. pc' = IF Len(parse_file_hunks(Rendered(patch))) < MinHunks THEN "died" ELSE "find"
    BY DEF read_patch
  <2>3. ~(MinHunks < MinHunks)
    BY <2>1
  <2> QED
    BY <2>1, <2>2, <2>3, Zenon
<1>3. InsertedAsMeant'
  BY <1>1, <1>2, InsertedNext
<1> QED
  BY <1>1, <1>2, <1>3 DEF MeantInv

\* A text that has the marker has the token, and the other way round.
LEMMA MarkerThere ==
  ASSUME NEW a, Source(a)
  PROVE  Contains(text, Marker) <=> Tokens(Single(Marker)) # {}
<1>1. tokens \in Seq(Token) /\ Laid(a, tokens, text) /\ DOMAIN tokens = 1..Len(tokens)
  BY LenProperties DEF Source
<1>2. Marker \in Anchors
  BY DEF Marker, Anchors
<1>3. ASSUME Contains(text, Marker)
      PROVE  Tokens(Single(Marker)) # {}
  <2>1. PICK j \in 1..Len(text) : text[j] = Marker
    BY <1>3 DEF Contains
  <2>2. text[j] \in Anchors => \E n \in 1..Len(tokens) : tokens[n] = Single(text[j]) /\ a[n] = j
    BY <1>1, AnchorOf
  <2>3. PICK n \in 1..Len(tokens) : tokens[n] = Single(Marker)
    BY <1>2, <2>1, <2>2
  <2> QED
    BY <1>1, <2>3 DEF Tokens
<1>4. ASSUME Tokens(Single(Marker)) # {}
      PROVE  Contains(text, Marker)
  <2>1. PICK n \in 1..Len(tokens) : tokens[n] = Single(Marker)
    BY <1>1, <1>4 DEF Tokens
  <2>2. a[n] \in 1..Len(text) /\ \A x : tokens[n] = Single(x) => text[a[n]] = x
    BY <1>1, AnchorAt
  <2>3. text[a[n]] = Marker
    BY <2>1, <2>2
  <2> QED
    BY <2>2, <2>3 DEF Contains
<1> QED
  BY <1>3, <1>4

\* The definitions in the text are those among the tokens.
LEMMA DefinitionsAre ==
  ASSUME NEW a, Source(a)
  PROVE  Definitions = {a[n] : n \in Tokens(Definition)}
<1>1. tokens \in Seq(Token) /\ Laid(a, tokens, text) /\ DOMAIN tokens = 1..Len(tokens)
      /\ text \in Seq(Chars) /\ DOMAIN text = 1..Len(text)
  BY LenProperties DEF Source, Laid
<1>2. ASSUME NEW j \in Definitions
      PROVE  \E n \in Tokens(Definition) : j = a[n]
  <2>1. j \in 1..Len(text) /\ text[j] = "signature" /\ CharAt(j + 1) = "{"
    BY <1>1 DEF Definitions
  <2>2. text[j + 1] = "{"
    BY <2>1 DEF CharAt
  <2>3. text[j] = "signature" /\ text[j + 1] = "{"
           => \E n \in 1..Len(tokens) : tokens[n] = Definition /\ a[n] = j
    <3>1. j \in 1..Len(text) /\ tokens \in Seq(Token) /\ Laid(a, tokens, text)
      BY <1>1, <2>1
    <3>2. Defined(a, tokens, text, j)
      BY <3>1, DefinitionOf
    <3> QED
      BY <3>2 DEF Defined
  <2>4. PICK n \in 1..Len(tokens) : tokens[n] = Definition /\ a[n] = j
    BY <2>1, <2>2, <2>3
  <2> QED
    BY <1>1, <2>4 DEF Tokens
<1>3. ASSUME NEW n \in Tokens(Definition)
      PROVE  a[n] \in Definitions
  <2>1. n \in 1..Len(tokens) /\ tokens[n] = Definition
    BY <1>1 DEF Tokens
  <2>2. Len(tokens[n]) = 2 /\ tokens[n][1] = "signature" /\ tokens[n][2] = "{"
    <3>1. Len(Definition) = 2 /\ Definition[1] = "signature" /\ Definition[2] = "{"
      BY DEF Definition
    <3> QED
      BY <2>1, <3>1, Zenon
  <2>3. /\ a[n] \in 1..Len(text) /\ text[a[n]] = tokens[n][1]
        /\ a[n] + 1 \in 1..Len(text) /\ text[a[n] + 1] = tokens[n][2]
    BY <1>1, <2>1, <2>2, DefinitionAt
  <2>4. CharAt(a[n] + 1) = "{"
    BY <1>1, <2>2, <2>3 DEF CharAt
  <2> QED
    BY <1>1, <2>2, <2>3, <2>4 DEF Definitions
<1> QED
  BY <1>2, <1>3

\* The search for a definition finds one where the tokens have one.
LEMMA OneDefinition ==
  ASSUME NEW a, Source(a)
  PROVE  Cardinality(Tokens(Definition)) = 1 => Cardinality(Definitions) = 1
<1>1. IsFiniteSet(Tokens(Definition))
  <2>1. tokens \in Seq(Token) /\ Len(tokens) \in Nat /\ DOMAIN tokens = 1..Len(tokens)
    BY LenProperties DEF Source
  <2>2. IsFiniteSet(1..Len(tokens))
    BY <2>1, FS_Interval
  <2>3. Tokens(Definition) \subseteq 1..Len(tokens)
    BY <2>1 DEF Tokens
  <2> QED
    BY <2>2, <2>3, FS_Subset
<1>2. SUFFICES ASSUME Cardinality(Tokens(Definition)) = 1 PROVE Cardinality(Definitions) = 1
  OBVIOUS
<1>3. PICK d : Tokens(Definition) = {d}
  BY <1>1, <1>2, FS_Singleton
<1>4. Definitions = {a[d]}
  BY <1>3, DefinitionsAre
<1> QED
  BY <1>4, FS_Singleton

\* find starts at the token of the definition, or stops as it should.
LEMMA MeantFind ==
  ASSUME TextInv, MeantInv, tokens # <<>>, find
  PROVE  MeantInv'
<1>1. /\ tokens \in Seq(Token) /\ patch = EnoughHunks /\ pc = "find"
      /\ text = FlattenSeq(tokens) /\ UNCHANGED <<patch, tokens, text, job>>
  BY DEF MeantInv, find
<1>2. PICK a : Source(a)
  <2>1. PICK a : Laid(a, tokens, FlattenSeq(tokens))
    BY <1>1, TokensSolid, LaidExists
  <2> QED
    BY <1>1, <2>1 DEF Source
<1>3. Contains(text, Marker) <=> Tokens(Single(Marker)) # {}
  BY <1>2, MarkerThere
<1>4. CASE Contains(text, Marker)
  <2>1. pc' = "done"
    BY <1>4 DEF find
  <2>2. InsertedAsMeant'
    BY <1>1, <1>3, <1>4, <2>1, InsertedNext
  <2> QED
    BY <1>1, <2>1, <2>2 DEF MeantInv
<1>5. CASE ~Contains(text, Marker) /\ pc' = "died" /\ Cardinality(Definitions) # 1
  <2>1. PlacedIn = {}
    BY <1>2, <1>5, OneDefinition DEF PlacedIn
  <2>2. InsertedAsMeant'
    BY <1>1, <1>3, <1>5, <2>1, InsertedNext
  <2> QED
    BY <1>1, <1>5, <2>2 DEF MeantInv
<1>6. ASSUME ~Contains(text, Marker), NEW k \in Definitions, Definitions = {k}, start' = k,
             i' = k + 1, depth' = 0, mode' = "code", escape' = FALSE, pc' = "scan"
      PROVE  MeantInv'
  <2>1. Definitions = {a[n] : n \in Tokens(Definition)}
    BY <1>2, DefinitionsAre
  <2>2. PICK d \in Tokens(Definition) : k = a[d]
    BY <2>1
  <2>3. DOMAIN tokens = 1..Len(tokens) /\ Len(tokens) \in Nat
    BY <1>1, LenProperties
  <2>4. d \in 1..Len(tokens) /\ tokens[d] = Definition
    BY <2>3 DEF Tokens
  <2>5. Only(d)
    <3>1. ASSUME NEW m \in 1..Len(tokens), tokens[m] = Definition
          PROVE  m = d
      <4>1. a[m] \in Definitions
        BY <2>1, <2>3, <3>1 DEF Tokens
      <4>2. a[m] = a[d]
        BY <1>6, <2>2, <4>1
      <4>3. a[m] = a[d] <=> m = d
        BY <1>2, <2>4, SourceOrder
      <4> QED
        BY <4>2, <4>3
    <3> QED
      BY <2>4, <3>1 DEF Only
  <2>6. a[d] \in Nat
    BY <1>2, <2>4, SourceOrder
  <2>7. ScannedTo(a, d, d, 2)'
    <3>1. i' = a[d] + 2 - 1
      BY <1>6, <2>2, <2>6
    <3>2. Len(tokens[d]) = 2 /\ InToken(tokens[d], 2, mode', escape')
      BY <1>6, <2>4 DEF InToken, Definition
    <3>3. d \in d..(Len(tokens) + 1) /\ d <= Len(tokens) /\ 2 \in Nat \ {0} /\ ~(d > d)
          /\ (d + 1)..(d - 1) = {} /\ 2 <= 2
      BY <2>3, <2>4
    <3>4. InToken(tokens[d], 2, mode, escape)'
      BY <1>1, <3>2 DEF InToken, InLiteral
    <3> QED
      BY <1>1, <1>6, <3>1, <3>2, <3>3, <3>4 DEF ScannedTo
  <2>8. Source(a)' /\ Only(d)'
    BY <1>1, <1>2, <2>5 DEF Source, Only
  <2>9. Sought(a, d)'
    BY <1>6, <2>2, <2>7, <2>8 DEF Sought
  <2>10. InsertedAsMeant'
    BY <1>1, <1>3, <1>6, InsertedNext
  <2>11. Tokens(Single(Marker))' = {}
    BY <1>1, <1>3, <1>6 DEF Tokens, Single, Marker
  <2> QED
    BY <1>1, <1>6, <2>9, <2>10, <2>11 DEF MeantInv
<1> QED
  BY <1>4, <1>5, <1>6 DEF find

\* Arithmetic: the scan is past the definition.
LEMMA Past ==
  ASSUME NEW p \in Nat, NEW m \in Nat, NEW c \in Nat, 1 <= c
  PROVE  p + 2 <= m => m + c - 1 # p + 1
OBVIOUS

\* The scan keeps the invariant of the insertion.
LEMMA MeantScan ==
  ASSUME TextInv, MeantInv, tokens # <<>>, find_function_span
  PROVE  MeantInv'
<1>1. /\ tokens \in Seq(Token) /\ patch = EnoughHunks /\ pc = "scan"
      /\ text = FlattenSeq(tokens) /\ UNCHANGED <<patch, tokens, text, job, start>>
      /\ Tokens(Single(Marker)) = {}
  BY DEF MeantInv, find_function_span
<1>2. PICK a, d : Sought(a, d)
  BY <1>1 DEF MeantInv
<1>3. Source(a) /\ Only(d) /\ start = a[d] /\ d \in 1..Len(tokens) /\ tokens[d] = Definition
  BY <1>2 DEF Sought, Only
<1>4. PICK n, c : ScannedTo(a, d, n, c)
  BY <1>1, <1>2 DEF Sought
<1>5. i \in Nat /\ Len(text) \in Nat
  <2>1. Len(text) \in Nat
    BY <1>3 DEF Source, Laid
  <2>2. i \in 0..(Len(text) + 1)
    BY DEF TextInv, TypeOK
  <2> QED
    BY <2>1, <2>2
<1>6. Source(a)' /\ Only(d)' /\ start' = a[d]
  BY <1>1, <1>3 DEF Source, Only
<1>7. Tokens(Single(Marker))' = {}
  BY <1>1 DEF Tokens, Single, Marker
<1>8. CASE i <= Len(text)
  <2>1. n > d => depth >= 1
    <3> SUFFICES ASSUME n > d PROVE depth >= 1
      OBVIOUS
    <3>1. /\ n \in d..(Len(tokens) + 1) /\ c \in Nat \ {0} /\ i = a[n] + c - 1
      BY <1>4 DEF ScannedTo
    <3>2. Len(tokens) \in Nat /\ a \in [1..(Len(tokens) + 1) -> Nat \ {0}]
          /\ Laid(a, tokens, text) /\ Solid(tokens)
      BY <1>1, <1>3, TokensSolid DEF Source, Laid
    <3>3. n \in Nat /\ d < n /\ n <= Len(tokens) + 1 /\ n \in 1..(Len(tokens) + 1)
          /\ d \in 1..(Len(tokens) + 1)
      BY <1>3, <3>1, <3>2
    <3>4. a[d] + Len(tokens[d]) <= a[n]
      BY <1>3, <3>2, <3>3, LaidOrder
    <3>5. Len(tokens[d]) = 2
      <4>1. Len(Definition) = 2
        BY DEF Definition
      <4> QED
        BY <1>3, <4>1, Zenon
    <3>6. a[d] \in Nat /\ a[n] \in Nat /\ c \in Nat /\ 1 <= c
      BY <3>1, <3>2, <3>3
    <3>7. a[d] + 2 <= a[n]
      BY <3>4, <3>5, Zenon
    <3>8. a[n] + c - 1 # a[d] + 1
      BY <3>6, <3>7, Past
    <3>9. i # start + 1
      BY <1>3, <3>1, <3>8, Zenon
    <3> QED
      BY <1>1, <3>9 DEF TextInv
  <2>2. depth \in Nat
    BY DEF TextInv, TypeOK
  <2>3. Reading(a, d, n, c)
    BY <1>3, <1>4, <1>8, <2>1, <2>2 DEF Reading
  <2>4. Moved(a, d) \/ (pc' = "insert" /\ \E m : Found(a, d, m)')
    BY <1>1, <2>3, ScanMoves
  <2>5. Sought(a, d)' /\ pc' \in {"scan", "insert"}
    <3>1. CASE Moved(a, d)
      BY <1>6, <3>1 DEF Moved, Sought
    <3>2. CASE pc' = "insert" /\ \E m : Found(a, d, m)'
      BY <1>6, <3>2 DEF Sought
    <3> QED
      BY <2>4, <3>1, <3>2
  <2>6. InsertedAsMeant'
    BY <1>1, <2>5, InsertedNext
  <2> QED
    BY <1>1, <1>7, <2>5, <2>6 DEF MeantInv
<1>9. CASE ~(i <= Len(text))
  <2>1. i > Len(text)
    BY <1>5, <1>9
  <2>2. pc' = "died"
    BY <1>9 DEF find_function_span, unterminated
  <2>3. \A m \in (d + 1)..Len(tokens) : Opened(d, m) # Closed(d, m)
    BY <1>3, <1>4, <1>5, <2>1, NoBalance
  <2>4. Body = {}
    BY <1>1, <1>3, <2>3, BodyMissing
  <2>5. Meant = {}
    BY <2>4, MeantIs, NoneMeant
  <2>6. PlacedIn = {}
    BY <2>5 DEF PlacedIn
  <2>7. InsertedAsMeant'
    BY <1>1, <2>2, <2>6, InsertedNext
  <2> QED
    BY <1>1, <2>2, <2>7 DEF MeantInv
<1> QED
  BY <1>8, <1>9

\* insert puts the piece where it is meant.
LEMMA MeantInsert ==
  ASSUME TextInv, MeantInv, tokens # <<>>, insert
  PROVE  MeantInv'
<1>1. /\ tokens \in Seq(Token) /\ patch = EnoughHunks /\ pc = "insert"
      /\ text = FlattenSeq(tokens) /\ UNCHANGED <<patch, tokens, job>>
      /\ Tokens(Single(Marker)) = {}
  BY DEF MeantInv, insert
<1>2. PICK a, d : Sought(a, d)
  BY <1>1 DEF MeantInv
<1>3. Source(a) /\ Only(d) /\ start = a[d] /\ Laid(a, tokens, text)
  BY <1>2 DEF Sought, Source
<1>4. PICK n : Found(a, d, n)
  BY <1>1, <1>2 DEF Sought
<1>5. places = {a[m] : m \in Meant} /\ Meant \subseteq 1..(Len(tokens) + 1)
  BY <1>3, <1>4, PlacesMeant
<1>6. PlacedIn = Meant
  <2>1. Tokens(Definition) = {d}
    BY <1>1, <1>3, BodyHas
  <2>2. Cardinality(Tokens(Definition)) = 1
    BY <2>1, FS_Singleton
  <2> QED
    BY <2>2 DEF PlacedIn
<1>7. CASE places = {} /\ pc' = "died" /\ UNCHANGED text
  <2>1. PlacedIn = {}
    BY <1>5, <1>6, <1>7
  <2>2. InsertedAsMeant'
    BY <1>1, <1>7, <2>1, InsertedNext
  <2> QED
    BY <1>1, <1>7, <2>2 DEF MeantInv
<1>8. ASSUME NEW k \in places, text' = InsertAt(text, k, Marker), pc' = "done"
      PROVE  MeantInv'
  <2>1. PICK m \in Meant : k = a[m]
    BY <1>5
  <2>2. m \in 1..(Len(tokens) + 1) /\ m \in PlacedIn
    BY <1>5, <1>6
  <2>3. Marker \in Chars
    BY DEF Marker, Chars
  <2>4. FlattenSeq(InsertAt(tokens, m, <<Marker>>)) = InsertAt(FlattenSeq(tokens), a[m], Marker)
    <3>1. tokens \in Seq(Seq(Chars)) /\ Laid(a, tokens, FlattenSeq(tokens))
      BY <1>1, <1>3, TokensSolid
    <3> QED
      BY <2>2, <2>3, <3>1, FlatInsert
  <2>5. text' = FlattenSeq(InsertAt(tokens, m, <<Marker>>))
    BY <1>1, <1>8, <2>1, <2>4, Zenon
  <2>6. InsertedAsMeant'
    BY <1>1, <1>8, <2>2, <2>5, InsertedNext
  <2> QED
    BY <1>1, <1>8, <2>6 DEF MeantInv
<1> QED
  BY <1>7, <1>8 DEF insert

\* So does every step.
LEMMA MeantStep ==
  TextInv /\ (tokens # <<>> => MeantInv) /\ [Next]_vars => (tokens # <<>> => MeantInv)'
<1> SUFFICES ASSUME TextInv, tokens # <<>> => MeantInv, [Next]_vars, tokens' # <<>>
             PROVE  MeantInv'
  OBVIOUS
<1>1. tokens' = tokens
  BY DEF Next, read_patch, find, find_function_span, insert, vars
<1>2. tokens # <<>> /\ MeantInv
  BY <1>1
<1>3. CASE UNCHANGED vars
  <2>1. UNCHANGED <<patch, hunks, tokens, text, job, start, i, depth, mode, escape, pc>>
    BY <1>3 DEF vars, scanner
  <2>2. InsertedAsMeant'
    <3>1. InsertedAsMeant
      BY <1>2 DEF MeantInv
    <3>2. /\ Tokens(Single(Marker)) # {} => pc # "died" /\ text = FlattenSeq(tokens)
          /\ pc = "done" /\ ~(Tokens(Single(Marker)) # {}) =>
               \E n \in PlacedIn : text = FlattenSeq(InsertAt(tokens, n, <<Marker>>))
          /\ pc = "died" => PlacedIn = {} /\ text = FlattenSeq(tokens)
      BY <1>2, <3>1, InsertedIs
    <3> QED
      BY <2>1, <3>2, InsertedNext
  <2>3. \A a, d : Sought(a, d)' = Sought(a, d)
    BY <2>1 DEF Sought, Source, Only, ScannedTo, Found, Opened, Closed, Between, Tokens
  <2>4. Tokens(Single(Marker))' = Tokens(Single(Marker))
    BY <2>1 DEF Tokens, Single, Marker
  <2> QED
    BY <1>2, <2>1, <2>2, <2>3, <2>4 DEF MeantInv
<1>4. CASE Next
  BY <1>2, <1>4, MeantRead, MeantFind, MeantScan, MeantInsert DEF Next
<1> QED
  BY <1>3, <1>4

\* A piece is inserted in the body of the function, as the tokens tell, and
\* nowhere else, and a text that has its marker stays as it is.
THEOREM InsertedInBody == Spec => []InsertedAsMeant
<1>1. Init => TextInv /\ (tokens # <<>> => MeantInv)
  BY TextInit, MeantInit
<1>2. TextInv /\ (tokens # <<>> => MeantInv) /\ [Next]_vars
        => TextInv' /\ (tokens # <<>> => MeantInv)'
  BY TextStep, MeantStep
<1>3. TextInv /\ (tokens # <<>> => MeantInv) => InsertedAsMeant
  BY DEF MeantInv, InsertedAsMeant
<1> QED
  BY <1>1, <1>2, <1>3, PTL DEF Spec
=============================================================================
