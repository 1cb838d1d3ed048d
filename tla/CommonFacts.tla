---------------------------- MODULE CommonFacts ----------------------------
(***************************************************************************)
(* Facts that the proofs share: the quotients and remainders of natural    *)
(* numbers, which the solver finds for a constant divisor but not for a    *)
(* parameter, and loops, as functions of the number of their turns.        *)
(***************************************************************************)
EXTENDS Integers, TLAPS, WellFoundedInduction

-----------------------------------------------------------------------------
(***************************************************************************)
(* Division.                                                               *)
(***************************************************************************)

\* Integer division.
LEMMA DivFacts ==
  ASSUME NEW n \in Nat, NEW d \in Nat \ {0}
  PROVE  /\ n \div d \in Nat
         /\ d * (n \div d) <= n
         /\ n < d * (n \div d) + d
  OBVIOUS

\* A quotient is at most k when its dividend is below the (k+1)-th multiple.
LEMMA DivBound ==
  ASSUME NEW n \in Nat, NEW d \in Nat \ {0}, NEW k \in Nat, n < d * k + d
  PROVE  n \div d <= k
  BY DivFacts

\* Quotient and remainder determine each other.
LEMMA Quotient ==
  ASSUME NEW n \in Nat, NEW d \in Nat \ {0}
  PROVE  /\ n \div d \in Nat
         /\ n % d \in 0..(d - 1)
         /\ n = d * (n \div d) + (n % d)
  OBVIOUS

LEMMA ExactMultiple ==
  ASSUME NEW n \in Nat, NEW d \in Nat \ {0}, n % d = 0
  PROVE  \E q \in Nat : n = d * q
<1>1. PICK q \in Nat : n \div d = q
  BY Quotient
<1>2. n = d * q + 0
  BY <1>1, Quotient
<1>3. d * q \in Nat
  OBVIOUS
<1> QED
  BY <1>2, <1>3

\* A positive multiple of d is d or more.
LEMMA PositiveMultiple ==
  ASSUME NEW d \in Nat \ {0}, NEW n \in Nat \ {0}
  PROVE  d * n \in Nat /\ d <= d * n
<1>1. PICK k \in Nat : n = k + 1
  <2>1. n - 1 \in Nat /\ n = (n - 1) + 1
    OBVIOUS
  <2> QED
    BY <2>1
<1>2. d * n = d * k + d
  BY <1>1
<1>3. d * k \in Nat
  OBVIOUS
<1> QED
  BY <1>2, <1>3

\* Multiples of d are d or more apart.
LEMMA MultiplesApart ==
  ASSUME NEW d \in Nat \ {0}, NEW a \in Nat, NEW b \in Nat, a < b
  PROVE  d * a + d <= d * b
<1>1. PICK k \in Nat : b = a + 1 + k
  <2>1. b - a - 1 \in Nat /\ b = a + 1 + (b - a - 1)
    OBVIOUS
  <2> QED
    BY <2>1
<1>2. d * b = d * a + d + d * k
  BY <1>1
<1>3. d * k >= 0 /\ d * k \in Int /\ d * a \in Int
  OBVIOUS
<1> QED
  BY <1>2, <1>3

LEMMA MultiplesOrdered ==
  ASSUME NEW d \in Nat \ {0}, NEW a \in Nat, NEW b \in Nat, a <= b
  PROVE  d * a \in Nat /\ d * b \in Nat /\ d * a <= d * b
<1>1. d * a \in Nat /\ d * b \in Nat
  OBVIOUS
<1>2. CASE a = b
  BY <1>1, <1>2
<1>3. CASE a < b
  BY <1>1, <1>3, MultiplesApart
<1> QED
  BY <1>1, <1>2, <1>3

\* The only way to write n as a multiple of d and a rest.
LEMMA QuotientUnique ==
  ASSUME NEW n \in Nat, NEW q \in Nat, NEW d \in Nat \ {0}, NEW c \in 0..(d - 1),
         n = d * q + c
  PROVE  n \div d = q /\ n % d = c
<1>1. PICK p \in Nat : n \div d = p
  BY Quotient
<1>2. PICK e \in 0..(d - 1) : n % d = e
  BY Quotient
<1>3. n = d * p + e
  BY <1>1, <1>2, Quotient
<1>4. d * p \in Nat /\ d * q \in Nat
  OBVIOUS
<1>5. ~(p < q)
  <2> SUFFICES ASSUME p < q PROVE FALSE
    OBVIOUS
  <2>1. d * p + d <= d * q
    BY MultiplesApart
  <2> QED
    BY <2>1, <1>3, <1>4
<1>6. ~(q < p)
  <2> SUFFICES ASSUME q < p PROVE FALSE
    OBVIOUS
  <2>1. d * q + d <= d * p
    BY MultiplesApart
  <2> QED
    BY <2>1, <1>3, <1>4
<1>7. p = q
  BY <1>5, <1>6
<1> QED
  BY <1>1, <1>2, <1>3, <1>4, <1>7

\* A number is below the n-th multiple when its quotient is below n.
LEMMA BelowMultiple ==
  ASSUME NEW d \in Nat \ {0}, NEW q \in Nat, NEW c \in 0..(d - 1), NEW n \in Nat
  PROVE  d * q + c < d * n <=> q < n
<1>1. d * q \in Nat /\ d * n \in Nat
  OBVIOUS
<1>2. ASSUME q < n PROVE d * q + c < d * n
  BY <1>1, <1>2, MultiplesApart
<1>3. ASSUME d * q + c < d * n PROVE q < n
  <2>1. n < q => d * n + d <= d * q
    BY MultiplesApart
  <2>2. n # q
    BY <1>1, <1>3
  <2> QED
    BY <1>1, <1>3, <2>1, <2>2
<1> QED
  BY <1>2, <1>3

\* A quotient is at least q when its dividend reaches the q-th multiple.
LEMMA QuotientReaches ==
  ASSUME NEW n \in Nat, NEW d \in Nat \ {0}, NEW q \in Nat, d * q <= n
  PROVE  q <= n \div d
<1>1. PICK p \in Nat, c \in 0..(d - 1) : n \div d = p /\ n = d * p + c
  BY Quotient
<1>2. d * q \in Nat /\ d * p \in Nat
  OBVIOUS
<1>3. ~(p < q)
  BY <1>1, <1>2, BelowMultiple
<1> QED
  BY <1>1, <1>3

\* Rounded up, a quotient is the least number of units of size d that hold n.
LEMMA RoundUpFacts ==
  ASSUME NEW n \in Nat, NEW d \in Nat \ {0}
  PROVE  /\ (n + d - 1) \div d \in Nat
         /\ n <= d * ((n + d - 1) \div d)
         /\ \A k \in Nat : n <= d * k => (n + d - 1) \div d <= k
<1> DEFINE m == n + d - 1
<1>1. m \in Nat
  OBVIOUS
<1>2. /\ m \div d \in Nat
      /\ m < d * (m \div d) + d
  BY <1>1, DivFacts
<1>3. ASSUME NEW k \in Nat, n <= d * k
      PROVE  m \div d <= k
  <2>1. d * k \in Nat
    OBVIOUS
  <2>2. m < d * k + d
    BY <1>3, <2>1
  <2> QED
    BY <1>1, <2>2, DivBound
<1>4. n <= d * (m \div d)
  <2>1. d * (m \div d) \in Nat
    BY <1>2
  <2> QED
    BY <1>2, <2>1
<1> QED
  BY <1>2, <1>3, <1>4

\* A bigger number needs no fewer units.
LEMMA RoundUpMonotone ==
  ASSUME NEW a \in Nat, NEW b \in Nat, NEW d \in Nat \ {0}, a <= b
  PROVE  ((a + d - 1) \div d) <= ((b + d - 1) \div d)
<1>1. ((b + d - 1) \div d) \in Nat /\ b <= d * ((b + d - 1) \div d)
  BY RoundUpFacts
<1>2. d * ((b + d - 1) \div d) \in Nat
  BY <1>1
<1>3. a <= d * ((b + d - 1) \div d)
  BY <1>1, <1>2
<1> QED
  BY <1>1, <1>3, RoundUpFacts

-----------------------------------------------------------------------------
(***************************************************************************)
(* Loops.                                                                  *)
(***************************************************************************)
\* Induction over the natural numbers, of a set instead of a predicate.
LEMMA NatSetInduction ==
  ASSUME NEW S, 0 \in S, \A n \in Nat : n \in S => n + 1 \in S
  PROVE  Nat \subseteq S
<1> DEFINE T == Nat \ S
           R == OpToRel(<, Nat)
<1> SUFFICES ASSUME T # {} PROVE FALSE
  OBVIOUS
<1>1. T \subseteq Nat
  OBVIOUS
<1>2. IsWellFoundedOn(R, Nat)
  BY NatLessThanWellFounded, Zenon
<1> HIDE DEF R
<1>3. PICK x \in T : \A y \in T : ~(<<y, x>> \in R)
  BY <1>1, <1>2, WFMin
<1>4. x \in Nat /\ x # 0
  OBVIOUS
<1>5. x - 1 \in Nat /\ (x - 1) + 1 = x
  BY <1>4
<1>6. x - 1 \in T
  BY <1>5
<1>7. <<x - 1, x>> \in R
  BY <1>4, <1>5 DEF R, OpToRel
<1> QED
  BY <1>3, <1>6, <1>7

\* What step makes of a, one number after another.
IsRun(f, a, n, step) ==
  f[0] = a /\ \A k \in 1..n : f[k] = step[<<f[k - 1], k>>]

\* A loop that makes a number of steps has a result at each of them.
LEMMA Iteration ==
  ASSUME NEW S, NEW a \in S, NEW n \in Nat, NEW step \in [S \X (1..n) -> S]
  PROVE  \E f \in [0..n -> S] : IsRun(f, a, n, step)
<1> DEFINE Runs(m) == \E f \in [0..m -> S] :
                        f[0] = a /\ \A k \in 1..m : f[k] = step[<<f[k - 1], k>>]
           T == {m \in Nat : m <= n => Runs(m)}
<1>1. 0 \in T
  <2> DEFINE f == [k \in 0..0 |-> a]
  <2>1. f \in [0..0 -> S] /\ f[0] = a
    OBVIOUS
  <2>2. \A k \in 1..0 : f[k] = step[<<f[k - 1], k>>]
    OBVIOUS
  <2> HIDE DEF f
  <2> QED
    BY <2>1, <2>2
<1>2. ASSUME NEW m \in Nat, m \in T
      PROVE  m + 1 \in T
  <2> SUFFICES ASSUME m + 1 <= n PROVE Runs(m + 1)
    OBVIOUS
  <2>1. PICK f \in [0..m -> S] :
          f[0] = a /\ \A k \in 1..m : f[k] = step[<<f[k - 1], k>>]
    BY <1>2
  <2> DEFINE g == [k \in 0..(m + 1) |-> IF k = m + 1 THEN step[<<f[m], m + 1>>] ELSE f[k]]
  <2>2. step[<<f[m], m + 1>>] \in S
    OBVIOUS
  <2>3. g \in [0..(m + 1) -> S]
    BY <2>2
  <2>4. g[0] = a
    BY <2>1
  <2>5. ASSUME NEW k \in 1..(m + 1)
        PROVE  g[k] = step[<<g[k - 1], k>>]
    <3>1. CASE k = m + 1
      <4>1. k - 1 = m /\ m \in 0..(m + 1) /\ m # m + 1 /\ k \in 0..(m + 1)
        BY <3>1
      <4> QED
        BY <3>1, <4>1
    <3>2. CASE k # m + 1
      <4>1. k \in 1..m /\ k - 1 \in 0..m
        BY <3>2
      <4>2. g[k] = f[k] /\ g[k - 1] = f[k - 1]
        BY <3>2, <4>1
      <4> QED
        BY <2>1, <4>1, <4>2
    <3> QED
      BY <3>1, <3>2
  <2> HIDE DEF g
  <2> QED
    BY <2>3, <2>4, <2>5
<1>3. Nat \subseteq T
  <2> HIDE DEF T
  <2> QED
    BY <1>1, <1>2, NatSetInduction
<1>4. n \in T
  BY <1>3
<1> QED
  BY <1>4 DEF IsRun

=============================================================================
