-------------------------- MODULE ArithmeticProofs --------------------------
(***************************************************************************)
(* What is proved with powers of two.                                      *)
(*                                                                         *)
(* The comparison of Validation keeps its policy for floats and doubles of *)
(* every width, vectors of every length and every tolerance: rounding a    *)
(* difference never rejects what the policy accepts, and accepts no more   *)
(* than what it hides.                                                     *)
(*                                                                         *)
(* The vectors of InputGenerator are a function of the seed and the index, *)
(* for every seed and length: the n-th state is the seed plus n times the  *)
(* increment.                                                              *)
(***************************************************************************)
EXTENDS Validation, InputGenerator, WellFoundedInduction, FiniteSetTheorems,
        TLAPS

-----------------------------------------------------------------------------
(***************************************************************************)
(* Induction over a set of numbers.                                        *)
(***************************************************************************)

(* A nonempty set of natural numbers has a least element.                  *)
LEMMA LeastElement ==
  ASSUME NEW T, T \subseteq Nat, T # {}
  PROVE  \E x \in T : \A y \in T : x <= y
<1> DEFINE R == OpToRel(<, Nat)
<1>1. IsWellFoundedOn(R, Nat)
  BY NatLessThanWellFounded
<1>2. \A x, y \in Nat : x < y => <<x, y>> \in R
  BY DEF OpToRel
<1> HIDE DEF R
<1>3. PICK x \in T : \A y \in T : ~ (<<y, x>> \in R)
  BY <1>1, WFMin
<1>4. ASSUME NEW y \in T, ~ x <= y
      PROVE  FALSE
  <2>1. x \in Nat /\ y \in Nat /\ y < x
    BY <1>4
  <2> QED
    BY <1>2, <1>3, <2>1
<1> QED
  BY <1>4

(* A set with zero and the successors of its numbers has every number.     *)
LEMMA SetInduction ==
  ASSUME NEW S,
         0 \in S,
         \A n \in Nat : n \in S => n + 1 \in S
  PROVE  \A n \in Nat : n \in S
<1> DEFINE T == Nat \ S
<1>1. SUFFICES ASSUME T # {} PROVE FALSE
  OBVIOUS
<1>2. PICK x \in T : \A y \in T : x <= y
  BY <1>1, LeastElement
<1>3. x \in Nat \ {0} /\ x - 1 \in Nat /\ (x - 1) + 1 = x
  BY <1>2
<1>4. x - 1 \in S
  BY <1>2, <1>3
<1> QED
  BY <1>2, <1>3, <1>4

-----------------------------------------------------------------------------
(***************************************************************************)
(* Functions defined by recursion on the natural numbers.                  *)
(***************************************************************************)

(* A recursion has a base and a step for every number.                     *)
IsRecursion(S, base, step) == base \in S /\ step \in [Nat -> [S -> S]]

(* g starts as the recursion from base along step does, up to n.           *)
IsBeginning(g, n, S, base, step) ==
  /\ g \in [0 .. n -> S]
  /\ g[0] = base
  /\ \A k \in 0 .. n - 1 : g[k + 1] = step[k][g[k]]

(* There is such a beginning for every n.                                  *)
LEMMA BeginningExists ==
  ASSUME NEW S, NEW base, NEW step, IsRecursion(S, base, step)
  PROVE  \A n \in Nat : \E g : IsBeginning(g, n, S, base, step)
<1> USE DEF IsRecursion
<1> DEFINE T == {n \in Nat : \E g : IsBeginning(g, n, S, base, step)}
<1>1. 0 \in T
  <2>1. IsBeginning([k \in 0 .. 0 |-> base], 0, S, base, step)
    BY DEF IsBeginning
  <2> QED
    BY <2>1
<1>2. ASSUME NEW n \in Nat, n \in T
      PROVE  n + 1 \in T
  <2>1. PICK g : IsBeginning(g, n, S, base, step)
    BY <1>2
  <2> DEFINE h == [k \in 0 .. n + 1 |->
                     IF k = n + 1 THEN step[n][g[n]] ELSE g[k]]
  <2>2. h \in [0 .. n + 1 -> S]
    BY <2>1 DEF IsBeginning
  <2>3. h[0] = base
    BY <2>1 DEF IsBeginning
  <2>4. ASSUME NEW k \in 0 .. (n + 1) - 1
        PROVE  h[k + 1] = step[k][h[k]]
    <3>1. k \in 0 .. n /\ k # n + 1 /\ k + 1 \in 0 .. n + 1
      OBVIOUS
    <3>2. CASE k = n
      BY <3>1, <3>2
    <3>3. CASE k # n
      <4>1. k \in 0 .. n - 1 /\ k + 1 # n + 1
        BY <3>1, <3>3
      <4>2. g[k + 1] = step[k][g[k]]
        BY <2>1, <4>1 DEF IsBeginning
      <4>3. h[k + 1] = g[k + 1] /\ h[k] = g[k]
        BY <3>1, <4>1
      <4> QED
        BY <4>2, <4>3
    <3> QED
      BY <3>2, <3>3
  <2>5. IsBeginning(h, n + 1, S, base, step)
    <3> HIDE DEF h
    <3> QED
      BY <2>2, <2>3, <2>4 DEF IsBeginning
  <2> QED
    BY <2>5
<1> HIDE DEF T
<1>3. \A n \in Nat : n \in T
  BY <1>1, <1>2, SetInduction
<1> QED
  BY <1>3 DEF T

(* Two beginnings agree as far as both go.                                 *)
LEMMA BeginningIsUnique ==
  ASSUME NEW S, NEW base, NEW step,
         NEW m \in Nat, NEW n \in Nat, NEW g, NEW h,
         IsBeginning(g, m, S, base, step),
         IsBeginning(h, n, S, base, step)
  PROVE  \A k \in Nat : k <= m /\ k <= n => g[k] = h[k]
<1> DEFINE T == {k \in Nat : k <= m /\ k <= n => g[k] = h[k]}
<1>1. 0 \in T
  BY DEF IsBeginning
<1>2. ASSUME NEW k \in Nat, k \in T
      PROVE  k + 1 \in T
  <2>1. SUFFICES ASSUME k + 1 <= m, k + 1 <= n PROVE g[k + 1] = h[k + 1]
    OBVIOUS
  <2>2. k \in 0 .. m - 1 /\ k \in 0 .. n - 1 /\ k <= m /\ k <= n
    BY <2>1
  <2>3. g[k] = h[k]
    BY <1>2, <2>2
  <2> QED
    BY <2>2, <2>3 DEF IsBeginning
<1> HIDE DEF T
<1>3. \A k \in Nat : k \in T
  BY <1>1, <1>2, SetInduction
<1> QED
  BY <1>3 DEF T

(* f is the recursion from base along step.                                *)
IsLimit(f, S, base, step) ==
  /\ f \in [Nat -> S]
  /\ f[0] = base
  /\ \A k \in Nat : f[k + 1] = step[k][f[k]]

(* So the recursion defines a function.                                    *)
LEMMA RecursionExists ==
  ASSUME NEW S, NEW base, NEW step, IsRecursion(S, base, step)
  PROVE  \E f : IsLimit(f, S, base, step)
<1> DEFINE G(n) == CHOOSE g : IsBeginning(g, n, S, base, step)
           f == [n \in Nat |-> G(n)[n]]
<1>1. \A n \in Nat : IsBeginning(G(n), n, S, base, step)
  BY BeginningExists
<1> HIDE DEF G
<1>2. f \in [Nat -> S] /\ f[0] = base
  BY <1>1 DEF IsBeginning
<1>3. ASSUME NEW n \in Nat
      PROVE  f[n + 1] = step[n][f[n]]
  <2>1. n + 1 \in Nat /\ n \in 0 .. (n + 1) - 1
    OBVIOUS
  <2>2. G(n + 1)[n + 1] = step[n][G(n + 1)[n]]
    BY <1>1, <2>1 DEF IsBeginning
  <2>3. G(n + 1)[n] = G(n)[n]
    <3>1. n <= n + 1 /\ n <= n
      OBVIOUS
    <3>2. /\ IsBeginning(G(n + 1), n + 1, S, base, step)
          /\ IsBeginning(G(n), n, S, base, step)
      BY <1>1, <2>1
    <3>3. \A k \in Nat : k <= n + 1 /\ k <= n => G(n + 1)[k] = G(n)[k]
      BY <2>1, <3>2, BeginningIsUnique
    <3> QED
      BY <3>1, <3>3
  <2> QED
    BY <2>1, <2>2, <2>3
<1> HIDE DEF f
<1>4. IsLimit(f, S, base, step)
  BY <1>2, <1>3 DEF IsLimit
<1> QED
  BY <1>4

-----------------------------------------------------------------------------
(***************************************************************************)
(* The powers of two.                                                      *)
(***************************************************************************)

(* The recursive definition defines what it says.                          *)
LEMMA TwoToDefined ==
  TwoTo = [k \in Nat |-> IF k = 0 THEN 1 ELSE 2 * TwoTo[k - 1]]
<1> DEFINE step == [n \in Nat |-> [v \in Nat |-> 2 * v]]
<1>1. PICK f \in [Nat -> Nat] :
        f[0] = 1 /\ \A n \in Nat : f[n + 1] = step[n][f[n]]
  <2> DEFINE one == 1
  <2>1. IsRecursion(Nat, one, step)
    BY DEF IsRecursion
  <2> HIDE DEF one, step
  <2>2. PICK f : IsLimit(f, Nat, one, step)
    BY <2>1, RecursionExists, Zenon
  <2> QED
    BY <2>2 DEF IsLimit, one
<1>2. ASSUME NEW k \in Nat, k # 0
      PROVE  f[k] = 2 * f[k - 1]
  <2>1. k - 1 \in Nat /\ (k - 1) + 1 = k
    BY <1>2
  <2> QED
    BY <1>1, <2>1
<1>3. f = [k \in Nat |-> IF k = 0 THEN 1 ELSE 2 * f[k - 1]]
  <2>1. \A k \in Nat : f[k] = IF k = 0 THEN 1 ELSE 2 * f[k - 1]
    BY <1>1, <1>2
  <2>2. f = [k \in Nat |-> f[k]]
    OBVIOUS
  <2> QED
    BY <2>1, <2>2
<1> QED
  BY <1>3 DEF TwoTo

(* Zero and successor.                                                     *)
LEMMA TwoToStep ==
  /\ TwoTo[0] = 1
  /\ \A k \in Nat : TwoTo[k + 1] = 2 * TwoTo[k]
<1>1. TwoTo[0] = 1
  BY TwoToDefined
<1>2. ASSUME NEW k \in Nat
      PROVE  TwoTo[k + 1] = 2 * TwoTo[k]
  <2>1. k + 1 \in Nat /\ k + 1 # 0 /\ (k + 1) - 1 = k
    OBVIOUS
  <2>2. TwoTo[k + 1] = 2 * TwoTo[(k + 1) - 1]
    BY <2>1, TwoToDefined
  <2> QED
    BY <2>1, <2>2
<1> QED
  BY <1>1, <1>2

(* Every power is a number above its exponent.                             *)
LEMMA TwoToIsLarge ==
  \A k \in Nat : TwoTo[k] \in Nat /\ TwoTo[k] > k
<1> DEFINE S == {k \in Nat : TwoTo[k] \in Nat /\ TwoTo[k] > k}
<1>1. 0 \in S
  BY TwoToStep
<1>2. ASSUME NEW k \in Nat, k \in S
      PROVE  k + 1 \in S
  BY <1>2, TwoToStep
<1> HIDE DEF S
<1>3. \A k \in Nat : k \in S
  BY <1>1, <1>2, SetInduction
<1> QED
  BY <1>3 DEF S

(* The sum of two exponents.                                               *)
LEMMA TwoToSum ==
  ASSUME NEW m \in Nat, NEW n \in Nat
  PROVE  TwoTo[m + n] = TwoTo[m] * TwoTo[n]
<1> DEFINE S == {k \in Nat : TwoTo[m + k] = TwoTo[m] * TwoTo[k]}
<1>1. 0 \in S
  BY TwoToStep, TwoToIsLarge
<1>2. ASSUME NEW k \in Nat, k \in S
      PROVE  k + 1 \in S
  <2>1. m + (k + 1) = (m + k) + 1 /\ m + k \in Nat
    OBVIOUS
  <2>2. TwoTo[m + (k + 1)] = 2 * (TwoTo[m] * TwoTo[k])
    BY <1>2, <2>1, TwoToStep
  <2>3. \A a, b \in Nat : 2 * (a * b) = a * (2 * b)
    BY Z3
  <2> QED
    BY <2>2, <2>3, TwoToStep, TwoToIsLarge
<1> HIDE DEF S
<1>3. \A k \in Nat : k \in S
  BY <1>1, <1>2, SetInduction
<1> QED
  BY <1>3 DEF S

(* A product grows with its factors.                                       *)
LEMMA ProductGrows ==
  ASSUME NEW a \in Nat, NEW b \in Nat, NEW c \in Nat, a <= b
  PROVE  a * c <= b * c
  BY Z3

(* And strictly, if the other factor is not zero.                          *)
LEMMA ProductGrowsStrictly ==
  ASSUME NEW a \in Nat, NEW b \in Nat, NEW c \in Nat, a < b, 0 < c
  PROVE  a * c < b * c
  BY Z3

(* The powers grow with their exponents.                                   *)
LEMMA TwoToGrows ==
  ASSUME NEW m \in Nat, NEW n \in Nat, m <= n
  PROVE  TwoTo[m] <= TwoTo[n]
<1>1. n - m \in Nat /\ n = m + (n - m)
  OBVIOUS
<1>2. TwoTo[n] = TwoTo[m] * TwoTo[n - m]
  BY <1>1, TwoToSum
<1>3. TwoTo[m] \in Nat /\ TwoTo[n - m] \in Nat /\ 1 <= TwoTo[n - m]
  BY <1>1, TwoToIsLarge
<1>4. \A a, b \in Nat : 1 <= b => a <= a * b
  BY Z3
<1> QED
  BY <1>2, <1>3, <1>4

-----------------------------------------------------------------------------
(***************************************************************************)
(* Rounding.                                                               *)
(***************************************************************************)

(* The spacing around n is the first power of two that leaves n no more    *)
(* than bits digits.                                                       *)
LEMMA SpacingIsFirst ==
  ASSUME NEW n \in Nat, NEW bits \in Nat
  PROVE  \E k \in Nat :
           /\ Spacing(n, bits) = TwoTo[k]
           /\ n < TwoTo[bits + k]
           /\ k # 0 => n >= TwoTo[bits + (k - 1)]
<1> DEFINE T == {k \in Nat : n < TwoTo[bits + k]}
           First(k) == /\ n < TwoTo[bits + k]
                       /\ \A j \in 0 .. k - 1 : n >= TwoTo[bits + j]
<1>1. n \in T
  <2>1. n <= bits + n /\ bits + n \in Nat
    OBVIOUS
  <2>2. TwoTo[bits + n] \in Nat /\ TwoTo[bits + n] > bits + n
    BY <2>1, TwoToIsLarge
  <2> QED
    BY <2>1, <2>2
<1>2. PICK k \in T : \A j \in T : k <= j
  BY <1>1, LeastElement
<1>3. k \in 0 .. n
  BY <1>1, <1>2
<1>4. First(k)
  <2>1. ASSUME NEW j \in 0 .. k - 1
        PROVE  n >= TwoTo[bits + j]
    <3>1. j \in Nat /\ ~ (k <= j)
      BY <1>3, <2>1
    <3>2. j \notin T
      BY <1>2, <3>1
    <3>3. bits + j \in Nat
      BY <3>1
    <3>4. TwoTo[bits + j] \in Nat
      BY <3>3, TwoToIsLarge
    <3> QED
      BY <3>1, <3>2, <3>4
  <2> QED
    BY <1>2, <2>1
<1> DEFINE c == CHOOSE i \in 0 .. n : First(i)
<1>5. c \in 0 .. n /\ First(c)
  <2> HIDE DEF First
  <2> QED
    BY <1>3, <1>4
<1>6. Spacing(n, bits) = TwoTo[c]
  BY DEF Spacing
<1> HIDE DEF c
<1>7. c # 0 => c - 1 \in 0 .. c - 1
  BY <1>5
<1> QED
  BY <1>5, <1>6, <1>7

(* Division with remainder.                                                *)
LEMMA QuotientBelow ==
  ASSUME NEW n \in Nat, NEW q \in Nat, 0 < q
  PROVE  /\ n \div q \in Nat
         /\ (n \div q) * q <= n
         /\ n < (n \div q) * q + q
  BY Z3

(***************************************************************************)
(* Rounding yields a multiple of the spacing, no further away than half of *)
(* it, and the number itself if it has no more than bits digits.           *)
(***************************************************************************)
LEMMA RoundIsNearest ==
  ASSUME NEW n \in Nat, NEW bits \in Nat
  PROVE  \E k \in Nat, r \in Nat :
           /\ Round(n, bits) = r * TwoTo[k]
           /\ Round(n, bits) \in Nat
           /\ 2 * (n - Round(n, bits)) <= TwoTo[k]
           /\ 2 * (Round(n, bits) - n) <= TwoTo[k]
           /\ k = 0 => Round(n, bits) = n
           /\ k # 0 => n >= TwoTo[bits + (k - 1)]
<1>1. PICK k \in Nat :
        /\ Spacing(n, bits) = TwoTo[k]
        /\ n < TwoTo[bits + k]
        /\ k # 0 => n >= TwoTo[bits + (k - 1)]
  BY SpacingIsFirst
<1> DEFINE q == TwoTo[k]
           d == n \div q
           below == d * q
<1>2. q \in Nat /\ 0 < q
  BY TwoToIsLarge
<1>3. d \in Nat /\ below <= n /\ n < below + q
  <2> HIDE DEF q
  <2> QED
    BY <1>2, QuotientBelow
<1>4. below \in Nat /\ below + q = (d + 1) * q
  <2> HIDE DEF q, d
  <2> QED
    BY <1>2, <1>3, Z3
<1>5. Round(n, bits) =
        IF 2 * (n - below) < q \/ (2 * (n - below) = q /\ d % 2 = 0)
        THEN below ELSE below + q
  BY <1>1 DEF Round
<1>6. k = 0 => below = n
  <2>1. k = 0 => q = 1
    BY TwoToStep
  <2> HIDE DEF q, d, below
  <2> QED
    BY <1>2, <1>3, <1>4, <2>1
<1> DEFINE R == Round(n, bits)
<1>7. R = below \/ R = below + q
  BY <1>5
<1>8. R = d * q \/ R = (d + 1) * q
  BY <1>4, <1>7
<1>9. /\ R \in Nat
      /\ 2 * (n - R) <= q
      /\ 2 * (R - n) <= q
      /\ k = 0 => R = n
  <2>1. k = 0 => q = 1
    BY TwoToStep
  <2>2. R = IF 2 * (n - below) < q \/ (2 * (n - below) = q /\ d % 2 = 0)
            THEN below ELSE below + q
    BY <1>5
  <2> HIDE DEF R, q, d, below
  <2> QED
    BY <1>2, <1>3, <1>4, <1>6, <2>1, <2>2
<1>10. d + 1 \in Nat
  BY <1>3
<1> HIDE DEF d
<1> QED
  BY <1>1, <1>3, <1>8, <1>9, <1>10

(***************************************************************************)
(* A number with no more than bits digits is not jumped over: what is      *)
(* below it is rounded to no more than it.                                 *)
(***************************************************************************)
LEMMA RoundStaysBelow ==
  ASSUME NEW n \in Nat, NEW bits \in Nat, NEW m \in Nat, NEW e \in Nat,
         m < TwoTo[bits], n <= m * TwoTo[e]
  PROVE  Round(n, bits) <= m * TwoTo[e]
<1> DEFINE R == Round(n, bits)
<1>1. PICK k \in Nat, r \in Nat :
        /\ R = r * TwoTo[k]
        /\ R \in Nat
        /\ 2 * (R - n) <= TwoTo[k]
        /\ k = 0 => R = n
        /\ k # 0 => n >= TwoTo[bits + (k - 1)]
  BY RoundIsNearest
<1> HIDE DEF R
<1>2. CASE k = 0
  BY <1>1, <1>2 DEF R
<1>3. CASE k # 0 /\ e < k
  <2>1. k - 1 \in Nat /\ e <= k - 1 /\ bits + e \in Nat
    BY <1>3
  <2>2. /\ bits + (k - 1) \in Nat
        /\ bits + e <= bits + (k - 1)
    BY <2>1
  <2>3. TwoTo[bits + e] <= TwoTo[bits + (k - 1)]
    BY <2>1, <2>2, TwoToGrows
  <2>4. TwoTo[bits + e] = TwoTo[bits] * TwoTo[e]
    BY TwoToSum
  <2>5. TwoTo[bits] \in Nat /\ TwoTo[e] \in Nat /\ 0 < TwoTo[e]
    BY TwoToIsLarge
  <2>6. m * TwoTo[e] < TwoTo[bits] * TwoTo[e]
    BY <2>5, ProductGrowsStrictly
  <2>7. TwoTo[bits + (k - 1)] \in Nat /\ TwoTo[bits + e] \in Nat
    BY <2>1, <2>2, TwoToIsLarge
  <2>8. \A a, b \in Nat : a * b \in Nat
    BY Z3
  <2>9. m * TwoTo[e] \in Nat
    BY <2>5, <2>8
  <2> QED
    BY <1>1, <1>3, <2>3, <2>4, <2>6, <2>7, <2>9
<1>4. CASE k <= e
  <2> DEFINE q == TwoTo[k]
             c == m * TwoTo[e - k]
  <2>1. e - k \in Nat /\ e = (e - k) + k
    BY <1>4
  <2>2. TwoTo[e] = TwoTo[e - k] * q
    BY <2>1, TwoToSum
  <2>3. q \in Nat /\ 0 < q /\ TwoTo[e - k] \in Nat
    BY <2>1, TwoToIsLarge
  <2>4. \A a, b, d \in Nat : a * b \in Nat /\ a * (b * d) = (a * b) * d
    BY Z3
  <2>5. c \in Nat /\ m * TwoTo[e] = c * q
    BY <2>2, <2>3, <2>4
  <2>6. 2 * (r * q - n) <= q /\ n <= c * q
    BY <1>1, <2>5
  <2> HIDE DEF c, q
  <2>7. r <= c
    <3>1. SUFFICES ASSUME c + 1 <= r PROVE FALSE
      BY <2>5
    <3>2. (c + 1) * q <= r * q
      BY <2>3, <2>5, <3>1, ProductGrows
    <3>3. (c + 1) * q = c * q + q /\ c * q \in Nat /\ r * q \in Nat
      BY <2>3, <2>5, Z3
    <3> QED
      BY <2>3, <2>6, <3>2, <3>3
  <2>8. r * q <= c * q
    BY <2>3, <2>5, <2>7, ProductGrows
  <2> QED
    BY <1>1, <2>5, <2>8 DEF R, q
<1> QED
  BY <1>2, <1>3, <1>4

(***************************************************************************)
(* What rounding hides is at most a part in two to the bits, and nothing   *)
(* of a number with no more than bits digits.                              *)
(***************************************************************************)
LEMMA RoundHidesLittle ==
  ASSUME NEW n \in Nat, NEW bits \in Nat, Round(n, bits) # n
  PROVE  /\ n >= TwoTo[bits]
         /\ n * (TwoTo[bits] - 1) <= Round(n, bits) * TwoTo[bits]
<1> DEFINE R == Round(n, bits)
           L == TwoTo[bits]
<1>1. PICK k \in Nat :
        /\ R \in Nat
        /\ 2 * (n - R) <= TwoTo[k]
        /\ k # 0
        /\ n >= TwoTo[bits + (k - 1)]
  BY RoundIsNearest
<1>2. k - 1 \in Nat /\ (k - 1) + 1 = k
  BY <1>1
<1> DEFINE h == TwoTo[k - 1]
<1>3. TwoTo[k] = 2 * h
  BY <1>2, TwoToStep
<1>4. h \in Nat /\ 1 <= h /\ L \in Nat
  BY <1>2, TwoToIsLarge
<1>5. n >= L * h
  BY <1>1, <1>2, TwoToSum
<1> HIDE DEF R, L, h
<1>6. n - R <= h
  BY <1>1, <1>3, <1>4
<1>7. L * h >= L
  BY <1>4, Z3
<1>8. n * (L - 1) <= R * L
  <2>1. (n - R) * L <= h * L
    BY <1>1, <1>4, <1>6, Z3
  <2>2. /\ (n - R) * L = n * L - R * L
        /\ n * (L - 1) = n * L - n
        /\ h * L = L * h
    BY <1>1, <1>4, Z3
  <2>3. n * L \in Nat /\ R * L \in Nat /\ L * h \in Nat
    BY <1>1, <1>4, Z3
  <2> QED
    BY <1>5, <2>1, <2>2, <2>3
<1> QED
  BY <1>1, <1>4, <1>5, <1>7, <1>8 DEF R, L

-----------------------------------------------------------------------------
(***************************************************************************)
(* Floats and their comparison.                                            *)
(***************************************************************************)

(* A magnitude has no more digits than a float.                            *)
LEMMA MagnitudesHaveFewDigits ==
  ASSUME NEW a \in Magnitudes
  PROVE  /\ a \in Nat
         /\ \E m \in Nat, e \in Nat : m < TwoTo[Precision] /\ a = m * TwoTo[e]
<1>1. PICK m \in 0 .. TwoTo[Precision] - 1, e \in 0 .. MaxExponent :
        a = m * TwoTo[e]
  BY DEF Magnitudes
<1>2. Precision \in Nat /\ MaxExponent \in Nat
  BY PrecisionAssumption
<1>3. TwoTo[Precision] \in Nat /\ e \in Nat
  BY <1>2, TwoToIsLarge
<1>4. m \in Nat /\ m < TwoTo[Precision] /\ TwoTo[e] \in Nat
  BY <1>3, TwoToIsLarge
<1>5. \A b, c \in Nat : b * c \in Nat
  BY Z3
<1> QED
  BY <1>1, <1>3, <1>4, <1>5

(* The three kinds of floats, and what makes two of a kind the same.       *)
LEMMA KindsOfFloats ==
  ASSUME NEW x \in Float
  PROVE  /\ x.sign \in Signs
         /\ Number(x) \in Int
         /\ \/ /\ x.kind = "finite"
               /\ x.magnitude \in Magnitudes
               /\ x = Finite(x.sign, x.magnitude)
            \/ /\ x.kind = "infinite"
               /\ x.magnitude = 0
               /\ x = Infinity(x.sign)
            \/ x.kind = "nan" /\ x = NaN
<1>1. CASE \E s \in Signs, m \in Magnitudes : x = Finite(s, m)
  <2>1. PICK s \in Signs, m \in Magnitudes : x = Finite(s, m)
    BY <1>1
  <2>2. x.kind = "finite" /\ x.sign = s /\ x.magnitude = m
    BY <2>1 DEF Finite
  <2>3. m \in Nat
    BY MagnitudesHaveFewDigits
  <2>4. Number(x) \in Int
    BY <2>2, <2>3 DEF Number, Signs
  <2> QED
    BY <2>1, <2>2, <2>4
<1>2. CASE \E s \in Signs : x = Infinity(s)
  BY <1>2 DEF Infinity, Number, Signs
<1>3. CASE x = NaN
  BY <1>3 DEF NaN, Number, Signs
<1> QED
  BY <1>1, <1>2, <1>3 DEF Float

(* A float that is at least zero stands for its magnitude.                 *)
LEMMA AtLeastZeroIsMagnitude ==
  ASSUME NEW x \in Float
  PROVE  /\ AtLeastZero(x) <=> /\ x \notin {NaN, Infinity(-1)}
                               /\ Number(x) >= 0
         /\ AtLeastZero(x) /\ IsFinite(x) => Number(x) = x.magnitude
<1>1. CASE x.kind = "finite"
  <2>1. x.magnitude \in Nat /\ x.sign \in Signs
    BY <1>1, KindsOfFloats, MagnitudesHaveFewDigits
  <2>2. x # NaN /\ x # Infinity(-1) /\ x # Infinity(1)
    BY <1>1 DEF NaN, Infinity
  <2>3. Number(x) >= 0 => Number(x) = x.magnitude
    BY <2>1 DEF Number, Signs
  <2> QED
    BY <1>1, <2>2, <2>3 DEF AtLeastZero, IsFinite
<1>2. CASE x.kind = "infinite"
  <2>1. x = Infinity(1) \/ x = Infinity(-1)
    BY <1>2, KindsOfFloats DEF Signs
  <2>2. /\ Infinity(1) # Infinity(-1)
        /\ Infinity(1) # NaN
        /\ Number(Infinity(1)) = 0
    BY DEF Infinity, NaN, Number
  <2> QED
    BY <1>2, <2>1, <2>2 DEF AtLeastZero, IsFinite
<1>3. CASE x.kind = "nan"
  <2>1. x = NaN /\ NaN # Infinity(1)
    BY <1>3, KindsOfFloats DEF NaN, Infinity
  <2> QED
    BY <1>3, <2>1 DEF AtLeastZero, IsFinite
<1> QED
  BY <1>1, <1>2, <1>3, KindsOfFloats

(* The exact difference of two numbers.                                    *)
Difference(x, y) == Magnitude(Number(x) - Number(y))

LEMMA DifferenceIsNatural ==
  ASSUME NEW x \in Float, NEW y \in Float
  PROVE  /\ Difference(x, y) \in Nat
         /\ Difference(x, y) = Difference(y, x)
         /\ Number(x) = Number(y) => Difference(x, y) = 0
BY KindsOfFloats DEF Difference, Magnitude

(***************************************************************************)
(* Rounding a difference to a double never takes it beyond an absolute     *)
(* tolerance it is within.                                                 *)
(***************************************************************************)
LEMMA AbsoluteToleranceSurvives ==
  ASSUME NEW n \in Nat, NEW t \in Magnitudes, n <= t
  PROVE  Round(n, DoublePrecision) <= t
<1>1. PICK m \in Nat, e \in Nat : m < TwoTo[Precision] /\ t = m * TwoTo[e]
  BY MagnitudesHaveFewDigits
<1>2. /\ Precision \in Nat
      /\ DoublePrecision \in Nat
      /\ Precision <= DoublePrecision
  BY PrecisionAssumption
<1>3. TwoTo[Precision] <= TwoTo[DoublePrecision]
  BY <1>2, TwoToGrows
<1>4. TwoTo[Precision] \in Nat /\ TwoTo[DoublePrecision] \in Nat
  BY <1>2, TwoToIsLarge
<1>5. m < TwoTo[DoublePrecision]
  BY <1>1, <1>3, <1>4
<1> QED
  BY <1>1, <1>2, <1>5, RoundStaysBelow

(* The product of two magnitudes has no more digits than a double.         *)
LEMMA ProductsAreExact ==
  ASSUME NEW s \in Magnitudes, NEW t \in Magnitudes
  PROVE  \E m \in Nat, e \in Nat :
           m < TwoTo[DoublePrecision] /\ s * t = m * TwoTo[e]
<1>1. PICK m1 \in Nat, e1 \in Nat :
        m1 < TwoTo[Precision] /\ s = m1 * TwoTo[e1]
  BY MagnitudesHaveFewDigits
<1>2. PICK m2 \in Nat, e2 \in Nat :
        m2 < TwoTo[Precision] /\ t = m2 * TwoTo[e2]
  BY MagnitudesHaveFewDigits
<1>3. /\ Precision \in Nat
      /\ DoublePrecision \in Nat
      /\ Precision + Precision \in Nat
      /\ Precision + Precision <= DoublePrecision
  BY PrecisionAssumption
<1> DEFINE L == TwoTo[Precision]
           a == TwoTo[e1]
           b == TwoTo[e2]
<1>4. L \in Nat /\ a \in Nat /\ b \in Nat
  BY <1>3, TwoToIsLarge
<1>5. L * L <= TwoTo[DoublePrecision]
  BY <1>3, TwoToSum, TwoToGrows
<1>6. a * b = TwoTo[e1 + e2] /\ e1 + e2 \in Nat
  BY TwoToSum
<1>7. TwoTo[DoublePrecision] \in Nat
  BY <1>3, TwoToIsLarge
<1>8. m1 < L /\ m2 < L /\ s = m1 * a /\ t = m2 * b
  BY <1>1, <1>2
<1> HIDE DEF L, a, b
<1>9. m1 * m2 \in Nat /\ L * L \in Nat
  BY <1>4, Z3
<1>10. m1 * m2 < L * L
  <2>1. m1 * m2 <= m1 * L /\ m1 * L < L * L
    BY <1>4, <1>8, Z3
  <2>2. m1 * L \in Nat
    BY <1>4, Z3
  <2> QED
    BY <1>9, <2>1, <2>2
<1>11. s * t = (m1 * m2) * (a * b)
  <2>1. \A i, j, k, l \in Nat : (i * k) * (j * l) = (i * j) * (k * l)
    BY Z3
  <2> QED
    BY <1>4, <1>8, <2>1
<1>12. m1 * m2 < TwoTo[DoublePrecision]
  BY <1>5, <1>7, <1>9, <1>10
<1> QED
  BY <1>6, <1>9, <1>11, <1>12

(* Nor beyond a relative one.                                              *)
LEMMA RelativeToleranceSurvives ==
  ASSUME NEW n \in Nat, NEW s \in Magnitudes, NEW t \in Magnitudes,
         n * One <= s * t
  PROVE  Round(n, DoublePrecision) * One <= s * t
<1>0. DoublePrecision \in Nat
  BY PrecisionAssumption
<1>1. PICK m \in Nat, e \in Nat :
        m < TwoTo[DoublePrecision] /\ s * t = m * TwoTo[e]
  BY ProductsAreExact
<1>2. PICK o \in Nat : One = TwoTo[o]
  BY PrecisionAssumption
<1>3. One \in Nat /\ 0 < One /\ TwoTo[e] \in Nat
  BY <1>2, TwoToIsLarge
<1> DEFINE R == Round(n, DoublePrecision)
<1>4. R \in Nat
  BY <1>0, RoundIsNearest
<1>5. CASE o <= e
  <2> DEFINE c == m * TwoTo[e - o]
  <2>1. e - o \in Nat /\ e = (e - o) + o
    BY <1>5
  <2>2. TwoTo[e] = TwoTo[e - o] * One /\ TwoTo[e - o] \in Nat
    BY <1>2, <2>1, TwoToSum, TwoToIsLarge
  <2>3. \A i, j, k \in Nat : i * j \in Nat /\ i * (j * k) = (i * j) * k
    BY Z3
  <2>4. c \in Nat /\ s * t = c * One
    BY <1>1, <1>3, <2>2, <2>3
  <2>5. n <= c
    <3> HIDE DEF c
    <3>1. SUFFICES ASSUME c < n PROVE FALSE
      BY <2>4
    <3>2. c * One < n * One
      BY <1>3, <2>4, <3>1, ProductGrowsStrictly
    <3>3. c * One \in Nat /\ n * One \in Nat
      BY <1>3, <2>3, <2>4
    <3> QED
      BY <2>4, <3>2, <3>3
  <2>6. R <= c
    BY <1>0, <1>1, <2>1, <2>5, RoundStaysBelow
  <2> HIDE DEF c, R
  <2>7. R * One <= c * One
    BY <1>3, <1>4, <2>4, <2>6, ProductGrows
  <2> QED
    BY <2>4, <2>7 DEF R
<1>6. CASE e < o
  <2>1. o - e \in Nat /\ o = (o - e) + e
    BY <1>6
  <2> DEFINE h == TwoTo[o - e]
             a == TwoTo[e]
  <2>2. One = h * a /\ h \in Nat /\ 1 <= h /\ a \in Nat /\ 0 < a
    <3>1. One = TwoTo[o - e] * TwoTo[e]
      BY <1>2, <2>1, TwoToSum
    <3>2. /\ h \in Nat /\ h > o - e
          /\ a \in Nat /\ a > e
      BY <2>1, TwoToIsLarge
    <3>3. 1 <= h /\ 0 < a
      BY <2>1, <3>2
    <3> QED
      BY <3>1, <3>2, <3>3
  <2>3. n * (h * a) <= m * a
    BY <1>1, <2>2
  <2> HIDE DEF h, a
  <2>4. n <= m
    <3>1. SUFFICES ASSUME m < n PROVE FALSE
      OBVIOUS
    <3>2. m * a < n * a
      BY <2>2, <3>1, ProductGrowsStrictly
    <3>3. n * (h * a) = (n * a) * h /\ n * a \in Nat /\ m * a \in Nat
      BY <2>2, Z3
    <3>4. \A i, j \in Nat : 1 <= j => i <= i * j /\ i * j \in Nat
      BY Z3
    <3>5. n * a <= (n * a) * h /\ (n * a) * h \in Nat
      BY <2>2, <3>3, <3>4
    <3> QED
      BY <2>3, <3>2, <3>3, <3>5
  <2>5. TwoTo[DoublePrecision] \in Nat
    BY <1>0, TwoToIsLarge
  <2>6. R = n
    BY <1>0, <1>1, <2>4, <2>5, RoundHidesLittle
  <2> QED
    BY <2>6
<1> QED
  BY <1>2, <1>5, <1>6

-----------------------------------------------------------------------------
(***************************************************************************)
(* The comparison of two floats, against the policy.                       *)
(***************************************************************************)

(* What NearlyEqual does with two numbers, in words of the policy.         *)
LEMMA NearlyEqualUnfolded ==
  ASSUME NEW x \in Float, NEW y \in Float,
         NEW abs \in Float, NEW rel \in Float,
         TolerancesAreValid(abs, rel)
  PROVE  NearlyEqual(x, y, abs, rel) <=>
           \/ Equal(x, y)
           \/ /\ IsFinite(x) /\ IsFinite(y)
              /\ LET error == Round(Difference(x, y), DoublePrecision)
                     scale == Larger(x.magnitude, y.magnitude)
                 IN  \/ abs = Infinity(1)
                     \/ IsFinite(abs) /\ error <= Number(abs)
                     \/ rel = Infinity(1)
                     \/ IsFinite(rel) /\ error * One <= Number(rel) * scale
  BY DEF NearlyEqual, AbsoluteError, Difference, Scale

(* The larger of two magnitudes is a magnitude.                            *)
LEMMA LargerIsMagnitude ==
  ASSUME NEW x \in Float, NEW y \in Float, IsFinite(x), IsFinite(y)
  PROVE  /\ Larger(x.magnitude, y.magnitude) \in Magnitudes
         /\ Larger(x.magnitude, y.magnitude) = Larger(y.magnitude, x.magnitude)
<1>1. x.magnitude \in Magnitudes /\ y.magnitude \in Magnitudes
  BY KindsOfFloats DEF IsFinite
<1>2. x.magnitude \in Nat /\ y.magnitude \in Nat
  BY <1>1, MagnitudesHaveFewDigits
<1> QED
  BY <1>1, <1>2 DEF Larger

(***************************************************************************)
(* The policy's two tolerances hold for the rounded difference whenever    *)
(* they hold for the exact one.                                            *)
(***************************************************************************)
LEMMA PolicyImpliesNearlyEqual ==
  ASSUME NEW x \in Float, NEW y \in Float,
         NEW abs \in Float, NEW rel \in Float,
         Policy(x, y, abs, rel)
  PROVE  NearlyEqual(x, y, abs, rel)
<1> DEFINE n == Difference(x, y)
           scale == Larger(x.magnitude, y.magnitude)
<1>1. AtLeastZero(abs) /\ AtLeastZero(rel)
  BY AtLeastZeroIsMagnitude DEF Policy
<1>2. TolerancesAreValid(abs, rel)
  BY <1>1 DEF TolerancesAreValid
<1>3. \/ x = y /\ x # NaN
      \/ /\ IsFinite(x) /\ IsFinite(y)
         /\ \/ abs = Infinity(1) \/ rel = Infinity(1)
            \/ IsFinite(abs) /\ n <= Number(abs)
            \/ IsFinite(rel) /\ n * One <= Number(rel) * scale
  BY DEF Policy, Difference
<1>4. CASE x = y /\ x # NaN
  <2>1. Equal(x, y)
    BY <1>4, KindsOfFloats DEF Equal, IsFinite
  <2> QED
    BY <1>2, <2>1, NearlyEqualUnfolded
<1>5. CASE /\ IsFinite(x) /\ IsFinite(y)
           /\ abs = Infinity(1) \/ rel = Infinity(1)
  BY <1>2, <1>5, NearlyEqualUnfolded
<1>6. CASE /\ IsFinite(x) /\ IsFinite(y)
           /\ IsFinite(abs) /\ n <= Number(abs)
  <2>1. abs.magnitude \in Magnitudes /\ Number(abs) = abs.magnitude
    BY <1>1, <1>6, AtLeastZeroIsMagnitude, KindsOfFloats DEF IsFinite
  <2>2. n \in Nat
    BY DifferenceIsNatural
  <2>3. Round(n, DoublePrecision) <= Number(abs)
    <3> HIDE DEF n
    <3> QED
      BY <1>6, <2>1, <2>2, AbsoluteToleranceSurvives
  <2> QED
    BY <1>2, <1>6, <2>3, NearlyEqualUnfolded
<1>7. CASE /\ IsFinite(x) /\ IsFinite(y)
           /\ IsFinite(rel) /\ n * One <= Number(rel) * scale
  <2>1. rel.magnitude \in Magnitudes /\ Number(rel) = rel.magnitude
    BY <1>1, <1>7, AtLeastZeroIsMagnitude, KindsOfFloats DEF IsFinite
  <2>2. n \in Nat /\ scale \in Magnitudes
    BY <1>7, DifferenceIsNatural, LargerIsMagnitude
  <2>3. Round(n, DoublePrecision) * One <= Number(rel) * scale
    <3> HIDE DEF n, scale
    <3> QED
      BY <1>7, <2>1, <2>2, RelativeToleranceSurvives
  <2> QED
    BY <1>2, <1>7, <2>3, NearlyEqualUnfolded
<1> QED
  BY <1>3, <1>4, <1>5, <1>6, <1>7

(***************************************************************************)
(* What the comparison accepts satisfies the policy, unless the exact      *)
(* difference is too long for a double and beyond the tolerance by no more *)
(* than its rounding hides.                                                *)
(***************************************************************************)
LEMMA NearlyEqualImpliesPolicy ==
  ASSUME NEW x \in Float, NEW y \in Float,
         NEW abs \in Float, NEW rel \in Float,
         NearlyEqual(x, y, abs, rel)
  PROVE  \/ Policy(x, y, abs, rel)
         \/ LET error == Difference(x, y)
                hidden == error * (TwoTo[DoublePrecision] - 1)
                scale == Larger(x.magnitude, y.magnitude)
            IN  /\ IsFinite(x) /\ IsFinite(y)
                /\ error >= TwoTo[DoublePrecision]
                /\ \/ hidden <= Number(abs) * TwoTo[DoublePrecision]
                   \/ hidden * One
                        <= Number(rel) * scale * TwoTo[DoublePrecision]
<1> DEFINE n == Difference(x, y)
           R == Round(n, DoublePrecision)
           L == TwoTo[DoublePrecision]
           scale == Larger(x.magnitude, y.magnitude)
<1>1. TolerancesAreValid(abs, rel)
  BY DEF NearlyEqual
<1>2. \A t \in {abs, rel} : t \notin {NaN, Infinity(-1)} /\ Number(t) >= 0
  BY <1>1, AtLeastZeroIsMagnitude DEF TolerancesAreValid
<1>3. Policy(x, y, abs, rel) <=>
        \/ x = y /\ x # NaN
        \/ /\ IsFinite(x) /\ IsFinite(y)
           /\ \/ abs = Infinity(1) \/ rel = Infinity(1)
              \/ IsFinite(abs) /\ n <= Number(abs)
              \/ IsFinite(rel) /\ n * One <= Number(rel) * scale
  BY <1>2 DEF Policy, Difference
<1>4. \/ Equal(x, y)
      \/ /\ IsFinite(x) /\ IsFinite(y)
         /\ \/ abs = Infinity(1) \/ rel = Infinity(1)
            \/ IsFinite(abs) /\ R <= Number(abs)
            \/ IsFinite(rel) /\ R * One <= Number(rel) * scale
  BY <1>1, NearlyEqualUnfolded
<1>5. n \in Nat /\ DoublePrecision \in Nat /\ L \in Nat /\ 0 < L
  BY DifferenceIsNatural, PrecisionAssumption, TwoToIsLarge
<1>6. R \in Nat
  <2> HIDE DEF n
  <2> QED
    BY <1>5, RoundIsNearest
<1>7. One \in Nat /\ Number(abs) \in Int /\ Number(rel) \in Int
  <2>1. PICK o \in Nat : One = TwoTo[o]
    BY PrecisionAssumption
  <2> QED
    BY <2>1, TwoToIsLarge, KindsOfFloats
<1>8. R # n => n >= L /\ n * (L - 1) <= R * L
  <2> HIDE DEF n
  <2> QED
    BY <1>5, RoundHidesLittle
<1>9. n * (L - 1) \in Nat /\ R * L \in Nat
  <2> HIDE DEF n, R, L
  <2>1. L - 1 \in Nat
    BY <1>5
  <2>2. \A i, j \in Nat : i * j \in Nat
    BY Z3
  <2> QED
    BY <1>5, <1>6, <2>1, <2>2
<1>10. CASE Equal(x, y)
  <2>1. CASE IsFinite(x) /\ IsFinite(y) /\ Number(x) = Number(y)
    <3>1. n = 0
      BY <2>1, DifferenceIsNatural
    <3>2. abs = Infinity(1) \/ IsFinite(abs)
      BY <1>1 DEF TolerancesAreValid, AtLeastZero
    <3>3. Number(abs) >= 0
      BY <1>2
    <3> HIDE DEF n
    <3> QED
      BY <1>3, <2>1, <3>1, <3>2, <3>3
  <2>2. CASE x.kind = "infinite" /\ x = y
    <3>1. x # NaN
      BY <2>2 DEF NaN
    <3> QED
      BY <1>3, <2>2, <3>1
  <2> QED
    BY <1>10, <2>1, <2>2 DEF Equal
<1>11. CASE /\ IsFinite(x) /\ IsFinite(y)
            /\ abs = Infinity(1) \/ rel = Infinity(1) \/ R = n
  <2> HIDE DEF R
  <2> QED
    BY <1>3, <1>4, <1>10, <1>11
<1>12. CASE /\ IsFinite(x) /\ IsFinite(y) /\ R # n
            /\ IsFinite(abs) /\ R <= Number(abs)
  <2>1. n * (L - 1) <= Number(abs) * L
    <3> HIDE DEF n, R, L
    <3>1. R * L <= Number(abs) * L /\ Number(abs) * L \in Int
      BY <1>5, <1>6, <1>7, <1>12, Z3
    <3> QED
      BY <1>8, <1>9, <1>12, <3>1
  <2> QED
    BY <1>8, <1>12, <2>1
<1>13. CASE /\ IsFinite(x) /\ IsFinite(y) /\ R # n
            /\ IsFinite(rel) /\ R * One <= Number(rel) * scale
  <2>1. (n * (L - 1)) * One <= (Number(rel) * scale) * L
    <3>1. scale \in Nat
      BY <1>13, LargerIsMagnitude, MagnitudesHaveFewDigits
    <3> HIDE DEF n, R, L, scale
    <3> DEFINE h == n * (L - 1)
               p == Number(rel) * scale
    <3>2. h \in Nat /\ h <= R * L
      BY <1>8, <1>9, <1>13
    <3>3. p \in Int /\ R * One <= p
      BY <1>7, <1>13, <3>1, Z3
    <3> HIDE DEF h, p
    <3>4. h * One <= (R * L) * One
      BY <1>7, <1>9, <3>2, ProductGrows
    <3>5. (R * L) * One = (R * One) * L /\ R * One \in Nat
      BY <1>5, <1>6, <1>7, Z3
    <3>6. p \in Nat
      BY <3>3, <3>5
    <3>7. (R * One) * L <= p * L
      BY <1>5, <3>3, <3>5, <3>6, ProductGrows
    <3>8. \A i, j \in Nat : i * j \in Nat
      BY Z3
    <3>9. h * One \in Nat /\ (R * One) * L \in Nat /\ p * L \in Nat
      BY <1>5, <1>7, <3>2, <3>5, <3>6, <3>8
    <3>10. h * One <= p * L
      BY <3>4, <3>5, <3>7, <3>9
    <3> QED
      BY <3>10 DEF h, p
  <2> QED
    BY <1>8, <1>13, <2>1
<1> QED
  <2> HIDE DEF n, R, L, scale
  <2> QED
    BY <1>4, <1>10, <1>11, <1>12, <1>13 DEF n, R, L, scale

(* The comparison treats its two values alike.                             *)
LEMMA NearlyEqualIsSymmetric ==
  ASSUME NEW x \in Float, NEW y \in Float,
         NEW abs \in Float, NEW rel \in Float,
         NearlyEqual(x, y, abs, rel)
  PROVE  NearlyEqual(y, x, abs, rel)
<1>1. TolerancesAreValid(abs, rel)
  BY DEF NearlyEqual
<1>2. Equal(x, y) => Equal(y, x)
  BY DEF Equal
<1>3. Difference(x, y) = Difference(y, x)
  BY DifferenceIsNatural
<1>4. IsFinite(x) /\ IsFinite(y) =>
        Larger(x.magnitude, y.magnitude) = Larger(y.magnitude, x.magnitude)
  BY LargerIsMagnitude
<1>5. CASE Equal(x, y)
  BY <1>1, <1>2, <1>5, NearlyEqualUnfolded
<1>6. CASE ~ Equal(x, y)
  <2>1. /\ IsFinite(x) /\ IsFinite(y)
        /\ LET error == Round(Difference(x, y), DoublePrecision)
               scale == Larger(x.magnitude, y.magnitude)
           IN  \/ abs = Infinity(1)
               \/ IsFinite(abs) /\ error <= Number(abs)
               \/ rel = Infinity(1)
               \/ IsFinite(rel) /\ error * One <= Number(rel) * scale
    BY <1>1, <1>6, NearlyEqualUnfolded
  <2> QED
    BY <1>1, <1>3, <1>4, <2>1, NearlyEqualUnfolded
<1> QED
  BY <1>5, <1>6

-----------------------------------------------------------------------------
(***************************************************************************)
(* The loop over the vectors.                                              *)
(***************************************************************************)

(* The two vectors of a call have a float in each lane.                    *)
LEMMA CallsHaveLanes ==
  ASSUME NEW c \in Call, Len(c.actual) = Len(c.expected)
  PROVE  /\ Len(c.actual) \in Nat
         /\ c.abs \in Float /\ c.rel \in Float
         /\ \A i \in 1 .. Len(c.actual) :
              c.actual[i] \in Float /\ c.expected[i] \in Float
<1>1. c.actual \in Seq(Float) /\ c.expected \in Seq(Float)
  BY DEF Call
<1> QED
  BY <1>1 DEF Call

(* The loop has accepted what is before its index.                         *)
THEOREM LoopIsCorrect == Spec => []LoopInv
<1>1. Init => LoopInv
  <2> SUFFICES ASSUME Init PROVE LoopInv
    OBVIOUS
  <2>1. /\ call \in Call /\ Len(call.actual) = Len(call.expected)
        /\ index = 0 /\ pc = "entry"
    BY CallsAssumption DEF Init
  <2>2. Len(call.actual) \in Nat
    BY <2>1, CallsHaveLanes
  <2> QED
    BY <2>1, <2>2 DEF LoopInv, TypeOK
<1>2. LoopInv /\ [Next]_vars => LoopInv'
  <2> SUFFICES ASSUME LoopInv, [Next]_vars PROVE LoopInv'
    OBVIOUS
  <2>0. /\ call \in Call /\ Len(call.actual) = Len(call.expected)
        /\ Len(call.actual) \in Nat
        /\ index \in 0 .. Len(call.actual)
    BY CallsHaveLanes DEF LoopInv, TypeOK
  <2>1. CASE Enter
    <3>1. pc = "entry" /\ UNCHANGED <<call, index>>
      BY <2>1 DEF Enter
    <3>2. CASE TolerancesAreValid(call.abs, call.rel)
      <4>1. pc' = "loop"
        BY <2>1, <3>2 DEF Enter
      <4>2. \A i \in 1 .. index : Accepted(i)
        <5>1. index = 0
          BY <3>1 DEF LoopInv
        <5> QED
          BY <5>1
      <4> QED
        BY <2>0, <3>1, <3>2, <4>1, <4>2 DEF LoopInv, TypeOK, Accepted
    <3>3. CASE ~ TolerancesAreValid(call.abs, call.rel)
      BY <2>0, <2>1, <3>1, <3>3 DEF Enter, LoopInv, TypeOK
    <3> QED
      BY <3>2, <3>3
  <2>2. CASE Compare
    <3>1. pc = "loop" /\ index < Len(call.actual) /\ UNCHANGED call
      BY <2>2 DEF Compare
    <3>2. index + 1 \in Lanes
      BY <2>0, <3>1 DEF Lanes
    <3>3. CASE Accepted(index + 1)
      <4>1. index' = index + 1 /\ pc' = "loop"
        BY <2>2, <3>3 DEF Compare, Accepted
      <4>2. \A i \in 1 .. index + 1 : Accepted(i)
        BY <2>0, <3>1, <3>3 DEF LoopInv
      <4> QED
        BY <2>0, <3>1, <4>1, <4>2 DEF LoopInv, TypeOK, Accepted
    <3>4. CASE ~ Accepted(index + 1)
      <4>1. index' = index /\ pc' = "false"
        BY <2>2, <3>4 DEF Compare, Accepted
      <4> QED
        BY <2>0, <3>1, <3>2, <3>4, <4>1 DEF LoopInv, TypeOK, Accepted, Lanes
    <3> QED
      BY <3>3, <3>4
  <2>3. CASE Return
    <3>1. /\ pc = "loop" /\ pc' = "true" /\ UNCHANGED <<call, index>>
          /\ index = Len(call.actual)
      BY <2>0, <2>3 DEF Return
    <3> QED
      BY <2>0, <3>1 DEF LoopInv, TypeOK, Accepted
  <2>4. CASE UNCHANGED vars
    BY <2>4 DEF vars, LoopInv, TypeOK, Accepted, Lanes
  <2> QED
    BY <2>1, <2>2, <2>3, <2>4 DEF Next
<1> QED
  BY <1>1, <1>2, PTL DEF Spec

(* The loop's index never passes the end of the vectors.                   *)
THEOREM ValidationIsTyped == Spec => []TypeOK
<1>1. LoopInv => TypeOK
  BY DEF LoopInv
<1> QED
  BY <1>1, LoopIsCorrect, PTL

(***************************************************************************)
(* What the policy accepts is not rejected, whatever the widths of float   *)
(* and double: no difference is rounded beyond a tolerance.                *)
(***************************************************************************)
THEOREM AcceptsThePolicy == Spec => []PolicyIsAccepted
<1>1. LoopInv => PolicyIsAccepted
  <2> SUFFICES ASSUME LoopInv, pc = "false",
                      TolerancesAreValid(call.abs, call.rel)
               PROVE  \E i \in Lanes :
                        ~ Satisfies(call.actual[i], call.expected[i])
    BY DEF PolicyIsAccepted
  <2>1. PICK i \in Lanes : ~ Accepted(i)
    BY DEF LoopInv
  <2>2. /\ call.actual[i] \in Float /\ call.expected[i] \in Float
        /\ call.abs \in Float /\ call.rel \in Float
    BY CallsHaveLanes DEF LoopInv, TypeOK, Lanes
  <2>3. ~ Satisfies(call.actual[i], call.expected[i])
    BY <2>1, <2>2, PolicyImpliesNearlyEqual DEF Satisfies, Accepted
  <2> QED
    BY <2>3
<1> QED
  BY <1>1, LoopIsCorrect, PTL

(***************************************************************************)
(* What the policy does not accept is rejected, but for differences longer *)
(* than a double that exceed a tolerance by what their rounding hides.     *)
(***************************************************************************)
THEOREM AcceptsOnlyThePolicy == Spec => []AcceptedIsPolicy
<1>1. LoopInv => AcceptedIsPolicy
  <2> SUFFICES ASSUME LoopInv, pc = "true"
               PROVE  /\ TolerancesAreValid(call.abs, call.rel)
                      /\ \A i \in Lanes :
                           \/ Satisfies(call.actual[i], call.expected[i])
                           \/ ExceedsByRounding(call.actual[i],
                                                call.expected[i])
    BY DEF AcceptedIsPolicy
  <2>1. TolerancesAreValid(call.abs, call.rel)
    BY DEF LoopInv
  <2>2. ASSUME NEW i \in Lanes
        PROVE  \/ Satisfies(call.actual[i], call.expected[i])
               \/ ExceedsByRounding(call.actual[i], call.expected[i])
    <3>1. Accepted(i)
      BY <2>2 DEF LoopInv, Lanes
    <3>2. /\ call.actual[i] \in Float /\ call.expected[i] \in Float
          /\ call.abs \in Float /\ call.rel \in Float
      BY <2>2, CallsHaveLanes DEF LoopInv, TypeOK, Lanes
    <3> QED
      BY <3>1, <3>2, NearlyEqualImpliesPolicy
      DEF Accepted, Satisfies, ExceedsByRounding, Difference
  <2> QED
    BY <2>1, <2>2
<1> QED
  BY <1>1, LoopIsCorrect, PTL

(* Swapping the two vectors of a call changes no verdict on any element.   *)
THEOREM ComparisonIsSymmetric == Spec => []IsSymmetric
<1>1. LoopInv => IsSymmetric
  <2> SUFFICES ASSUME LoopInv, NEW i \in Lanes
               PROVE  NearlyEqual(call.actual[i], call.expected[i],
                                  call.abs, call.rel)
                        <=> NearlyEqual(call.expected[i], call.actual[i],
                                        call.abs, call.rel)
    BY DEF IsSymmetric
  <2>1. /\ call.actual[i] \in Float /\ call.expected[i] \in Float
        /\ call.abs \in Float /\ call.rel \in Float
    BY CallsHaveLanes DEF LoopInv, TypeOK, Lanes
  <2> QED
    BY <2>1, NearlyEqualIsSymmetric
<1> QED
  BY <1>1, LoopIsCorrect, PTL

-----------------------------------------------------------------------------
(***************************************************************************)
(* Sums of digits times powers of two.                                     *)
(***************************************************************************)

(* s sums the digits a from place 0 on.                                    *)
IsSum(s, a) ==
  /\ s \in [Nat -> Nat]
  /\ s[0] = 0
  /\ \A n \in Nat : s[n + 1] = s[n] + a[n] * TwoTo[n]

SumOf(a) == CHOOSE s : IsSum(s, a)

LEMMA ProductIsNat ==
  ASSUME NEW a \in Nat, NEW b \in Nat
  PROVE  a * b \in Nat
  BY Z3

LEMMA SumDefined ==
  ASSUME NEW a \in [Nat -> Nat]
  PROVE  IsSum(SumOf(a), a)
<1> DEFINE zero == 0
           step == [n \in Nat |-> [v \in Nat |-> v + a[n] * TwoTo[n]]]
<1>1. \A n \in Nat : a[n] * TwoTo[n] \in Nat
  BY TwoToIsLarge, ProductIsNat
<1>2. IsRecursion(Nat, zero, step)
  <2>1. \A n, v \in Nat : v + a[n] * TwoTo[n] \in Nat
    BY <1>1
  <2>2. step \in [Nat -> [Nat -> Nat]]
    BY <2>1
  <2> QED
    BY <2>2 DEF IsRecursion
<1>3. PICK s : IsLimit(s, Nat, zero, step)
  <2> HIDE DEF zero, step
  <2> QED
    BY <1>2, RecursionExists, Zenon
<1>4. IsSum(s, a)
  BY <1>1, <1>3 DEF IsSum, IsLimit
<1> QED
  BY <1>4 DEF SumOf

(* The steps of a sum.                                                     *)
LEMMA SumStarts ==
  ASSUME NEW a \in [Nat -> Nat]
  PROVE  SumOf(a)[0] = 0
  BY SumDefined DEF IsSum

LEMMA SumStep ==
  ASSUME NEW a \in [Nat -> Nat], NEW n \in Nat
  PROVE  /\ a[n] \in Nat
         /\ SumOf(a)[n] \in Nat
         /\ SumOf(a)[n + 1] = SumOf(a)[n] + a[n] * TwoTo[n]
  BY SumDefined DEF IsSum

(* A sum depends on the digits summed.                                     *)
LEMMA SumAgrees ==
  ASSUME NEW a \in [Nat -> Nat], NEW c \in [Nat -> Nat], NEW m \in Nat,
         \A k \in 0 .. m - 1 : a[k] = c[k]
  PROVE  SumOf(a)[m] = SumOf(c)[m]
<1> DEFINE S == {n \in Nat : n <= m => SumOf(a)[n] = SumOf(c)[n]}
<1>1. 0 \in S
  BY SumStarts
<1>2. ASSUME NEW n \in Nat, n \in S
      PROVE  n + 1 \in S
  <2>1. SUFFICES ASSUME n + 1 <= m PROVE SumOf(a)[n + 1] = SumOf(c)[n + 1]
    OBVIOUS
  <2>2. n \in 0 .. m - 1 /\ n <= m
    BY <2>1
  <2>3. a[n] = c[n] /\ SumOf(a)[n] = SumOf(c)[n]
    BY <1>2, <2>2
  <2>4. /\ SumOf(a)[n + 1] = SumOf(a)[n] + a[n] * TwoTo[n]
        /\ SumOf(c)[n + 1] = SumOf(c)[n] + c[n] * TwoTo[n]
    BY SumStep
  <2> QED
    BY <2>3, <2>4
<1> HIDE DEF S
<1>3. \A n \in Nat : n \in S
  BY <1>1, <1>2, SetInduction
<1> QED
  BY <1>3 DEF S

(* The sum of sums.                                                        *)
LEMMA SumAdds ==
  ASSUME NEW a \in [Nat -> Nat], NEW c \in [Nat -> Nat], NEW t \in [Nat -> Nat],
         \A k \in Nat : t[k] = a[k] + c[k],
         NEW m \in Nat
  PROVE  SumOf(t)[m] = SumOf(a)[m] + SumOf(c)[m]
<1> DEFINE S == {n \in Nat : SumOf(t)[n] = SumOf(a)[n] + SumOf(c)[n]}
<1>1. 0 \in S
  BY SumStarts
<1>2. ASSUME NEW n \in Nat, n \in S
      PROVE  n + 1 \in S
  <2> DEFINE p == TwoTo[n]
  <2>1. p \in Nat
    BY TwoToIsLarge
  <2>2. \A i, j \in Nat : (i + j) * p = i * p + j * p
    <3> HIDE DEF p
    <3> QED
      BY <2>1, Z3
  <2>3. t[n] * p = a[n] * p + c[n] * p
    BY <2>2
  <2>4. a[n] * p \in Nat /\ c[n] * p \in Nat
    BY <2>1, ProductIsNat
  <2> DEFINE i == a[n] * p
             j == c[n] * p
  <2>5. /\ SumOf(a)[n] \in Nat /\ SumOf(a)[n + 1] = SumOf(a)[n] + i
        /\ SumOf(c)[n] \in Nat /\ SumOf(c)[n + 1] = SumOf(c)[n] + j
        /\ SumOf(t)[n + 1] = SumOf(t)[n] + t[n] * p
    BY SumStep
  <2>6. SumOf(t)[n] = SumOf(a)[n] + SumOf(c)[n]
    BY <1>2
  <2>7. i \in Nat /\ j \in Nat /\ t[n] * p = i + j
    BY <2>3, <2>4
  <2> HIDE DEF p, i, j
  <2>8. SumOf(t)[n + 1] = SumOf(a)[n + 1] + SumOf(c)[n + 1]
    BY <2>5, <2>6, <2>7
  <2> QED
    BY <2>8
<1> HIDE DEF S
<1>3. \A n \in Nat : n \in S
  BY <1>1, <1>2, SetInduction
<1> QED
  BY <1>3 DEF S

(* A sum of nothing.                                                       *)
LEMMA SumOfZeros ==
  ASSUME NEW a \in [Nat -> Nat], NEW m \in Nat,
         \A k \in 0 .. m - 1 : a[k] = 0
  PROVE  SumOf(a)[m] = 0
<1> DEFINE S == {n \in Nat : n <= m => SumOf(a)[n] = 0}
<1>1. 0 \in S
  BY SumStarts
<1>2. ASSUME NEW n \in Nat, n \in S
      PROVE  n + 1 \in S
  <2>1. SUFFICES ASSUME n + 1 <= m PROVE SumOf(a)[n + 1] = 0
    OBVIOUS
  <2>2. n \in 0 .. m - 1 /\ n <= m
    BY <2>1
  <2>3. a[n] = 0 /\ SumOf(a)[n] = 0 /\ TwoTo[n] \in Nat
    BY <1>2, <2>2, TwoToIsLarge
  <2>4. a[n] * TwoTo[n] = 0
    BY <2>3
  <2>5. SumOf(a)[n + 1] = SumOf(a)[n] + a[n] * TwoTo[n]
    BY SumStep
  <2> QED
    BY <2>3, <2>4, <2>5
<1> HIDE DEF S
<1>3. \A n \in Nat : n \in S
  BY <1>1, <1>2, SetInduction
<1> QED
  BY <1>3 DEF S

(* Digits moved k places up are worth 2^k times as much.                   *)
LEMMA SumShifts ==
  ASSUME NEW a \in [Nat -> Nat], NEW t \in [Nat -> Nat], NEW k \in Nat,
         \A n \in 0 .. k - 1 : t[n] = 0,
         \A n \in Nat : t[k + n] = a[n],
         NEW m \in Nat
  PROVE  SumOf(t)[k + m] = TwoTo[k] * SumOf(a)[m]
<1> DEFINE S == {n \in Nat : SumOf(t)[k + n] = TwoTo[k] * SumOf(a)[n]}
<1>1. 0 \in S
  <2>1. SumOf(t)[k] = 0
    BY SumOfZeros
  <2>2. TwoTo[k] * SumOf(a)[0] = 0
    BY TwoToIsLarge, SumStarts
  <2> QED
    BY <2>1, <2>2
<1>2. ASSUME NEW n \in Nat, n \in S
      PROVE  n + 1 \in S
  <2> DEFINE p == TwoTo[k]
             q == TwoTo[n]
             s == SumOf(a)[n]
             d == a[n]
  <2>1. p \in Nat /\ q \in Nat /\ s \in Nat /\ d \in Nat
    BY TwoToIsLarge, SumStep
  <2>2. SumOf(t)[(k + n) + 1] = SumOf(t)[k + n] + t[k + n] * TwoTo[k + n]
    <3>1. k + n \in Nat
      OBVIOUS
    <3> QED
      BY <3>1, SumStep
  <2>3. SumOf(t)[k + (n + 1)] = p * s + d * (p * q)
    <3>1. k + (n + 1) = (k + n) + 1
      OBVIOUS
    <3> QED
      BY <1>2, <2>2, <3>1, TwoToSum
  <2>4. SumOf(a)[n + 1] = s + d * q
    BY SumStep
  <2>5. p * s + d * (p * q) = p * (s + d * q)
    <3> HIDE DEF p, q, s, d
    <3> QED
      BY <2>1, Z3
  <2> QED
    BY <2>3, <2>4, <2>5
<1> HIDE DEF S
<1>3. \A n \in Nat : n \in S
  BY <1>1, <1>2, SetInduction
<1> QED
  BY <1>3 DEF S

(* What is above place k is a multiple of 2^k.                             *)
LEMMA SumTail ==
  ASSUME NEW a \in [Nat -> Nat], NEW k \in Nat, NEW m \in Nat
  PROVE  \E q \in Nat : SumOf(a)[k + m] = SumOf(a)[k] + q * TwoTo[k]
<1> DEFINE S == {n \in Nat :
                   \E q \in Nat : SumOf(a)[k + n] = SumOf(a)[k] + q * TwoTo[k]}
<1>1. 0 \in S
  <2>1. SumOf(a)[k + 0] = SumOf(a)[k] + 0 * TwoTo[k]
    BY SumStep, TwoToIsLarge
  <2> QED
    BY <2>1
<1>2. ASSUME NEW n \in Nat, n \in S
      PROVE  n + 1 \in S
  <2>1. PICK q \in Nat : SumOf(a)[k + n] = SumOf(a)[k] + q * TwoTo[k]
    BY <1>2
  <2> DEFINE p == TwoTo[k]
             r == TwoTo[n]
             d == a[k + n]
             s == SumOf(a)[k]
  <2>2. p \in Nat /\ r \in Nat /\ d \in Nat /\ s \in Nat
    BY TwoToIsLarge, SumStep
  <2>3. k + (n + 1) = (k + n) + 1 /\ k + n \in Nat
    OBVIOUS
  <2>4. SumOf(a)[k + (n + 1)] = (s + q * p) + d * (p * r)
    <3>1. SumOf(a)[(k + n) + 1] = SumOf(a)[k + n] + d * TwoTo[k + n]
      BY <2>3, SumStep
    <3>2. TwoTo[k + n] = p * r
      BY TwoToSum
    <3> QED
      BY <2>1, <2>3, <3>1, <3>2
  <2>5. q + d * r \in Nat
    BY <2>2, ProductIsNat
  <2>6. (s + q * p) + d * (p * r) = s + (q + d * r) * p
    <3> HIDE DEF p, r, d, s
    <3> QED
      BY <2>2, Z3
  <2> QED
    BY <2>4, <2>5, <2>6
<1> HIDE DEF S
<1>3. \A n \in Nat : n \in S
  BY <1>1, <1>2, SetInduction
<1> QED
  BY <1>3 DEF S

(***************************************************************************)
(* Words and the numbers they stand for.                                   *)
(***************************************************************************)

LEMMA WidthIsNat == Width \in Nat /\ Width > 40 /\ Places = 0 .. Width - 1
  BY DEF Width, Places

Digits(x) == [b \in Nat |-> Bit(x, b)]

LEMMA DigitsAreBits ==
  ASSUME NEW x
  PROVE  /\ Digits(x) \in [Nat -> Nat]
         /\ \A b \in Nat : Digits(x)[b] = IF b \in x THEN 1 ELSE 0
  BY DEF Digits, Bit

(* What is below a place is less than that place is worth.                 *)
LEMMA DigitsBelow ==
  ASSUME NEW x, NEW m \in Nat
  PROVE  SumOf(Digits(x))[m] < TwoTo[m]
<1> DEFINE a == Digits(x)
           S == {n \in Nat : SumOf(a)[n] < TwoTo[n]}
<1>1. a \in [Nat -> Nat]
  BY DigitsAreBits
<1>2. 0 \in S
  BY <1>1, SumStarts, TwoToStep
<1>3. ASSUME NEW n \in Nat, n \in S
      PROVE  n + 1 \in S
  <2>1. a[n] = 0 \/ a[n] = 1
    BY DigitsAreBits
  <2> HIDE DEF a
  <2>2. /\ SumOf(a)[n] \in Nat
        /\ SumOf(a)[n + 1] = SumOf(a)[n] + a[n] * TwoTo[n]
    BY <1>1, SumStep
  <2>3. TwoTo[n] \in Nat /\ TwoTo[n + 1] = 2 * TwoTo[n]
    BY TwoToStep, TwoToIsLarge
  <2>4. a[n] * TwoTo[n] = 0 \/ a[n] * TwoTo[n] = TwoTo[n]
    BY <2>1, <2>3
  <2>5. SumOf(a)[n] < TwoTo[n]
    BY <1>3
  <2> QED
    BY <2>2, <2>3, <2>4, <2>5
<1> HIDE DEF S
<1>4. \A n \in Nat : n \in S
  BY <1>2, <1>3, SetInduction
<1> QED
  BY <1>4 DEF S

(* The digits are determined by their sum.                                 *)
LEMMA DigitsAreDetermined ==
  ASSUME NEW x, NEW y, NEW m \in Nat,
         SumOf(Digits(x))[m] = SumOf(Digits(y))[m]
  PROVE  \A b \in 0 .. m - 1 : b \in x <=> b \in y
<1> DEFINE a == Digits(x)
           c == Digits(y)
           S == {n \in Nat : SumOf(a)[n] = SumOf(c)[n] =>
                               \A b \in 0 .. n - 1 : b \in x <=> b \in y}
<1>1. a \in [Nat -> Nat] /\ c \in [Nat -> Nat]
  BY DigitsAreBits
<1>2. 0 \in S
  OBVIOUS
<1>3. ASSUME NEW n \in Nat, n \in S
      PROVE  n + 1 \in S
  <2>1. SUFFICES ASSUME SumOf(a)[n + 1] = SumOf(c)[n + 1],
                        NEW b \in 0 .. (n + 1) - 1
                 PROVE  b \in x <=> b \in y
    OBVIOUS
  <2>2. /\ a[n] = IF n \in x THEN 1 ELSE 0
        /\ c[n] = IF n \in y THEN 1 ELSE 0
    BY DigitsAreBits
  <2>3. SumOf(a)[n] < TwoTo[n] /\ SumOf(c)[n] < TwoTo[n]
    BY DigitsBelow
  <2> HIDE DEF a, c
  <2>4. /\ SumOf(a)[n] \in Nat /\ SumOf(c)[n] \in Nat
        /\ SumOf(a)[n + 1] = SumOf(a)[n] + a[n] * TwoTo[n]
        /\ SumOf(c)[n + 1] = SumOf(c)[n] + c[n] * TwoTo[n]
    BY <1>1, SumStep
  <2>5. TwoTo[n] \in Nat
    BY TwoToIsLarge
  <2>6. /\ a[n] * TwoTo[n] = IF n \in x THEN TwoTo[n] ELSE 0
        /\ c[n] * TwoTo[n] = IF n \in y THEN TwoTo[n] ELSE 0
    BY <2>2, <2>5
  <2>7. SumOf(a)[n] = SumOf(c)[n] /\ (n \in x <=> n \in y)
    <3> DEFINE p == TwoTo[n]
               u == SumOf(a)[n]
               v == SumOf(c)[n]
               i == a[n] * TwoTo[n]
               j == c[n] * TwoTo[n]
    <3>1. /\ u + i = v + j
          /\ u \in Nat /\ u < p /\ v \in Nat /\ v < p
          /\ p \in Nat
          /\ i = IF n \in x THEN p ELSE 0
          /\ j = IF n \in y THEN p ELSE 0
      BY <2>1, <2>3, <2>4, <2>5, <2>6
    <3> HIDE DEF p, u, v, i, j
    <3>2. u = v /\ (n \in x <=> n \in y)
      BY <3>1
    <3> QED
      BY <3>2 DEF u, v
  <2>8. \A d \in 0 .. n - 1 : d \in x <=> d \in y
    BY <1>3, <2>7
  <2>9. b = n \/ b \in 0 .. n - 1
    OBVIOUS
  <2> QED
    BY <2>7, <2>8, <2>9
<1> HIDE DEF S
<1>4. \A n \in Nat : n \in S
  BY <1>2, <1>3, SetInduction
<1>5. m \in S
  BY <1>4
<1> QED
  BY <1>5 DEF S

(* A word's number is the sum of its digits.                               *)
LEMMA NumberIsSum ==
  ASSUME NEW x
  PROVE  NumberOf(x) = SumOf(Digits(x))[Width]
<1> DEFINE s == SumOf(Digits(x))
           f == [b \in 0 .. Width |-> s[b]]
           E(g) == [b \in 0 .. Width |->
                      IF b = 0 THEN 0
                      ELSE IF b - 1 \in x THEN g[b - 1] + TwoTo[b - 1]
                      ELSE g[b - 1]]
<1>1. f = E(f)
  <2>1. s[0] = 0
    BY DigitsAreBits, SumStarts
  <2>2. ASSUME NEW b \in 0 .. Width, b # 0
        PROVE  f[b] = IF b - 1 \in x THEN f[b - 1] + TwoTo[b - 1]
                      ELSE f[b - 1]
    <3> DEFINE n == b - 1
    <3>1. n \in Nat /\ b = n + 1 /\ n \in 0 .. Width
      BY <2>2, WidthIsNat
    <3>2. /\ s[n] \in Nat
          /\ s[n + 1] = s[n] + Digits(x)[n] * TwoTo[n]
      BY <3>1, DigitsAreBits, SumStep
    <3>3. Digits(x)[n] = IF n \in x THEN 1 ELSE 0
      BY <3>1, DigitsAreBits
    <3>4. TwoTo[n] \in Nat
      BY <3>1, TwoToIsLarge
    <3>5. f[b] = s[n + 1] /\ f[n] = s[n]
      BY <3>1
    <3> HIDE DEF n, s, f
    <3>6. f[b] = IF n \in x THEN f[n] + TwoTo[n] ELSE f[n]
      BY <3>2, <3>3, <3>4, <3>5
    <3> QED
      BY <3>6 DEF n
  <2> QED
    BY <2>1, <2>2
<1>2. ASSUME NEW g, g = E(g)
      PROVE  \A b \in Nat : b <= Width => g[b] = s[b]
  <2> DEFINE S == {b \in Nat : b <= Width => g[b] = s[b]}
  <2>1. 0 \in S
    <3>1. s[0] = 0
      BY DigitsAreBits, SumStarts
    <3>2. g[0] = 0
      BY <1>2, WidthIsNat
    <3> QED
      BY <3>1, <3>2
  <2>2. ASSUME NEW n \in Nat, n \in S
        PROVE  n + 1 \in S
    <3>1. SUFFICES ASSUME n + 1 <= Width PROVE g[n + 1] = s[n + 1]
      OBVIOUS
    <3>2. n + 1 \in 0 .. Width /\ n + 1 # 0 /\ (n + 1) - 1 = n /\ n <= Width
      BY <3>1, WidthIsNat
    <3>3. g[n + 1] = IF n \in x THEN g[n] + TwoTo[n] ELSE g[n]
      BY <1>2, <3>2
    <3>4. /\ s[n] \in Nat
          /\ s[n + 1] = s[n] + Digits(x)[n] * TwoTo[n]
      BY DigitsAreBits, SumStep
    <3>5. Digits(x)[n] = IF n \in x THEN 1 ELSE 0
      BY DigitsAreBits
    <3>6. TwoTo[n] \in Nat
      BY TwoToIsLarge
    <3>7. g[n] = s[n]
      BY <2>2, <3>2
    <3> HIDE DEF s
    <3> QED
      BY <3>3, <3>4, <3>5, <3>6, <3>7
  <2> HIDE DEF S
  <2>3. \A n \in Nat : n \in S
    BY <2>1, <2>2, SetInduction
  <2> QED
    BY <2>3 DEF S
<1> DEFINE below == CHOOSE g : g = E(g)
<1>3. NumberOf(x) = below[Width]
  BY DEF NumberOf
<1>4. below = E(below)
  <2> HIDE DEF f, E
  <2> QED
    BY <1>1
<1> HIDE DEF below, E
<1> QED
  BY <1>2, <1>3, <1>4, WidthIsNat

LEMMA NumberIsNat ==
  ASSUME NEW x
  PROVE  NumberOf(x) \in Nat /\ NumberOf(x) < TwoTo[Width]
  BY NumberIsSum, DigitsBelow, DigitsAreBits, SumStep, WidthIsNat

(* Words of the same number, modulo 2^Width, are the same.                 *)
LEMMA WordsAreDetermined ==
  ASSUME NEW x \in SUBSET Places, NEW y \in SUBSET Places,
         NEW p \in Nat, NEW q \in Nat,
         NumberOf(x) + p * TwoTo[Width] = NumberOf(y) + q * TwoTo[Width]
  PROVE  x = y
<1> DEFINE M == TwoTo[Width]
           i == NumberOf(x)
           j == NumberOf(y)
<1>1. /\ i \in Nat /\ i < M
      /\ j \in Nat /\ j < M
      /\ M \in Nat
  BY NumberIsNat, TwoToIsLarge, WidthIsNat
<1>2. i + p * M = j + q * M
  OBVIOUS
<1>3. i = j
  <2> HIDE DEF M, i, j
  <2>1. ASSUME NEW a \in Nat, NEW b \in Nat, a < b
        PROVE  (a + 1) * M <= b * M
    BY <1>1, <2>1, ProductGrows
  <2>2. \A a \in Nat : (a + 1) * M = a * M + M /\ a * M \in Nat
    BY <1>1, Z3
  <2>3. CASE p < q
    <3>1. (p + 1) * M <= q * M
      BY <2>1, <2>3
    <3>2. p * M \in Nat /\ q * M \in Nat /\ (p + 1) * M = p * M + M
      BY <2>2
    <3> DEFINE u == p * M
               v == q * M
    <3>3. u \in Nat /\ v \in Nat /\ u + M <= v /\ i + u = j + v
      BY <1>2, <3>1, <3>2
    <3> HIDE DEF u, v
    <3> QED
      BY <1>1, <3>3
  <2>4. CASE q < p
    <3>1. (q + 1) * M <= p * M
      BY <2>1, <2>4
    <3>2. p * M \in Nat /\ q * M \in Nat /\ (q + 1) * M = q * M + M
      BY <2>2
    <3> DEFINE u == p * M
               v == q * M
    <3>3. u \in Nat /\ v \in Nat /\ v + M <= u /\ i + u = j + v
      BY <1>2, <3>1, <3>2
    <3> HIDE DEF u, v
    <3> QED
      BY <1>1, <3>3
  <2>5. CASE p = q
    <3>1. p * M \in Nat
      BY <2>2
    <3> DEFINE u == p * M
    <3>2. u \in Nat /\ i + u = j + u
      BY <1>2, <2>5, <3>1
    <3> HIDE DEF u
    <3> QED
      BY <1>1, <3>2
  <2> QED
    BY <2>3, <2>4, <2>5
<1>4. \A b \in 0 .. Width - 1 : b \in x <=> b \in y
  BY <1>3, NumberIsSum, WidthIsNat, DigitsAreDetermined
<1> QED
  BY <1>4 DEF Places

-----------------------------------------------------------------------------
(***************************************************************************)
(* Sums of columns.                                                        *)
(***************************************************************************)

(* The recursive definition of the carries defines what it says.           *)
LEMMA CarriesDefined ==
  ASSUME NEW column \in [Places -> Nat]
  PROVE  /\ Carries(column)[0] = 0
         /\ \A b \in 0 .. Width : Carries(column)[b] \in Nat
         /\ \A b \in Places :
              Carries(column)[b + 1] = (column[b] + Carries(column)[b]) \div 2
<1> DEFINE zero == 0
           step == [n \in Nat |-> [v \in Nat |->
                      IF n \in Places THEN (column[n] + v) \div 2 ELSE 0]]
           E(g) == [b \in 0 .. Width |->
                      IF b = 0 THEN 0 ELSE (column[b - 1] + g[b - 1]) \div 2]
<1>1. \A i, j \in Nat : (i + j) \div 2 \in Nat
  OBVIOUS
<1>2. IsRecursion(Nat, zero, step)
  <2>1. \A n, v \in Nat :
          (IF n \in Places THEN (column[n] + v) \div 2 ELSE 0) \in Nat
    BY <1>1
  <2>2. step \in [Nat -> [Nat -> Nat]]
    BY <2>1
  <2> QED
    BY <2>2 DEF IsRecursion
<1>3. PICK f : IsBeginning(f, Width, Nat, zero, step)
  <2> HIDE DEF zero, step
  <2> QED
    BY <1>2, WidthIsNat, BeginningExists, Zenon
<1>4. f \in [0 .. Width -> Nat] /\ f[0] = 0
  BY <1>3 DEF IsBeginning
<1>5. ASSUME NEW b \in 0 .. Width, b # 0
      PROVE  f[b] = (column[b - 1] + f[b - 1]) \div 2
  <2> DEFINE n == b - 1
  <2>1. n \in 0 .. Width - 1 /\ n \in Places /\ n \in Nat /\ n + 1 = b
    BY <1>5, WidthIsNat
  <2>2. f[n] \in Nat
    BY <1>4, <2>1, WidthIsNat
  <2> HIDE DEF n
  <2>3. f[n + 1] = step[n][f[n]]
    BY <1>3, <2>1 DEF IsBeginning
  <2>4. step[n][f[n]] = (column[n] + f[n]) \div 2
    BY <2>1, <2>2
  <2> QED
    BY <2>1, <2>3, <2>4 DEF n
<1>6. f = E(f)
  <2>1. \A b \in 0 .. Width : f[b] = E(f)[b]
    BY <1>4, <1>5
  <2>2. f = [b \in 0 .. Width |-> f[b]]
    BY <1>4
  <2> QED
    BY <2>1, <2>2
<1> DEFINE carry == CHOOSE g : g = E(g)
<1>7. Carries(column) = carry
  BY DEF Carries
<1>8. carry = E(carry)
  <2> HIDE DEF E
  <2> QED
    BY <1>6
<1> HIDE DEF carry
<1>9. carry[0] = 0
  BY <1>8, WidthIsNat
<1>10. ASSUME NEW b \in Places
       PROVE  carry[b + 1] = (column[b] + carry[b]) \div 2
  <2>1. b + 1 \in 0 .. Width /\ b + 1 # 0 /\ (b + 1) - 1 = b
    BY WidthIsNat
  <2> QED
    BY <1>8, <2>1
<1>11. \A b \in 0 .. Width : carry[b] \in Nat
  <2> DEFINE S == {n \in Nat : n <= Width => carry[n] \in Nat}
  <2>1. 0 \in S
    BY <1>9
  <2>2. ASSUME NEW n \in Nat, n \in S
        PROVE  n + 1 \in S
    <3>1. SUFFICES ASSUME n + 1 <= Width PROVE carry[n + 1] \in Nat
      OBVIOUS
    <3>2. n \in Places /\ n <= Width
      BY <3>1, WidthIsNat
    <3>3. carry[n] \in Nat /\ column[n] \in Nat
      BY <2>2, <3>2
    <3> QED
      BY <1>1, <1>10, <3>2, <3>3
  <2> HIDE DEF S
  <2>3. \A n \in Nat : n \in S
    BY <2>1, <2>2, SetInduction
  <2> QED
    BY <2>3, WidthIsNat DEF S
<1> QED
  BY <1>7, <1>9, <1>10, <1>11

(* The columns as digits.                                                  *)
Columns(column) == [b \in Nat |-> IF b \in Places THEN column[b] ELSE 0]

LEMMA DoublingMoves ==
  ASSUME NEW i \in Nat, NEW j \in Nat, NEW k \in Nat, NEW l \in Nat,
         NEW p \in Nat, i + j = 2 * k + l
  PROVE  i * p + j * p = k * (2 * p) + l * p
  BY Z3

(* The word of a sum is the sum of the columns, modulo 2^Width.            *)
LEMMA CarriedIsSum ==
  ASSUME NEW column \in [Places -> Nat]
  PROVE  \E q \in Nat :
           SumOf(Columns(column))[Width] =
             NumberOf(Carried(column)) + q * TwoTo[Width]
<1> DEFINE x == Carried(column)
           a == Columns(column)
           d == Digits(x)
           carry == Carries(column)
           S == {n \in Nat : n <= Width =>
                   SumOf(a)[n] = SumOf(d)[n] + carry[n] * TwoTo[n]}
<1>1. a \in [Nat -> Nat] /\ \A b \in Places : a[b] = column[b]
  BY WidthIsNat DEF Columns
<1>2. d \in [Nat -> Nat]
  BY DigitsAreBits
<1>3. /\ carry[0] = 0
      /\ \A b \in 0 .. Width : carry[b] \in Nat
      /\ \A b \in Places : carry[b + 1] = (column[b] + carry[b]) \div 2
  BY CarriesDefined
<1>4. \A b \in Places : d[b] = (column[b] + carry[b]) % 2
  <2>1. ASSUME NEW b \in Places
        PROVE  d[b] = (column[b] + carry[b]) % 2
    <3>1. b \in Nat /\ b \in 0 .. Width
      BY WidthIsNat
    <3>2. b \in x <=> (column[b] + carry[b]) % 2 = 1
      BY DEF Carried
    <3>3. carry[b] \in Nat /\ column[b] \in Nat
      BY <1>3, <3>1
    <3>4. (column[b] + carry[b]) % 2 \in 0 .. 1
      BY <3>3
    <3>5. d[b] = IF b \in x THEN 1 ELSE 0
      BY <3>1, DigitsAreBits
    <3> HIDE DEF x, d, carry
    <3> QED
      BY <3>2, <3>4, <3>5
  <2> QED
    BY <2>1
<1> HIDE DEF x, a, d, carry
<1>5. 0 \in S
  <2>1. SumOf(a)[0] = 0 /\ SumOf(d)[0] = 0
    BY <1>1, <1>2, SumStarts
  <2>2. carry[0] * TwoTo[0] = 0
    BY <1>3, TwoToStep
  <2> QED
    BY <2>1, <2>2
<1>6. ASSUME NEW n \in Nat, n \in S
      PROVE  n + 1 \in S
  <2>1. SUFFICES ASSUME n + 1 <= Width
                 PROVE  SumOf(a)[n + 1] =
                          SumOf(d)[n + 1] + carry[n + 1] * TwoTo[n + 1]
    OBVIOUS
  <2>2. n \in Places /\ n \in 0 .. Width /\ n + 1 \in 0 .. Width /\ n <= Width
    BY <2>1, WidthIsNat
  <2> DEFINE t == column[n] + carry[n]
             p == TwoTo[n]
  <2>3. /\ column[n] \in Nat /\ carry[n] \in Nat /\ carry[n + 1] \in Nat
        /\ carry[n + 1] = t \div 2 /\ d[n] = t % 2 /\ a[n] = column[n]
    BY <1>1, <1>3, <1>4, <2>2
  <2>4. t = 2 * carry[n + 1] + d[n]
    BY <2>3
  <2>5. /\ SumOf(a)[n] \in Nat /\ SumOf(d)[n] \in Nat /\ d[n] \in Nat
        /\ SumOf(a)[n + 1] = SumOf(a)[n] + a[n] * p
        /\ SumOf(d)[n + 1] = SumOf(d)[n] + d[n] * p
    BY <1>1, <1>2, SumStep
  <2>6. p \in Nat /\ TwoTo[n + 1] = 2 * p
    BY TwoToStep, TwoToIsLarge
  <2>7. SumOf(a)[n] = SumOf(d)[n] + carry[n] * p
    BY <1>6, <2>2
  <2>8. column[n] * p + carry[n] * p = carry[n + 1] * (2 * p) + d[n] * p
    <3> HIDE DEF p
    <3> DEFINE i == column[n]
               j == carry[n]
               k == carry[n + 1]
               l == d[n]
    <3>1. /\ i \in Nat /\ j \in Nat /\ k \in Nat /\ l \in Nat /\ p \in Nat
          /\ i + j = 2 * k + l
      BY <2>3, <2>4, <2>5, <2>6
    <3> HIDE DEF i, j, k, l
    <3>2. i * p + j * p = k * (2 * p) + l * p
      BY <3>1, DoublingMoves
    <3> QED
      BY <3>2 DEF i, j, k, l
  <2> DEFINE A == column[n] * p
             B == carry[n] * p
             C == carry[n + 1] * (2 * p)
             D == d[n] * p
  <2>9. A \in Nat /\ B \in Nat /\ C \in Nat /\ D \in Nat
    <3>1. 2 * p \in Nat
      BY <2>6
    <3> HIDE DEF p
    <3> QED
      BY <2>3, <2>5, <2>6, <3>1, ProductIsNat
  <2>10. /\ A + B = C + D
         /\ SumOf(a)[n] = SumOf(d)[n] + B
         /\ SumOf(a)[n + 1] = SumOf(a)[n] + A
         /\ SumOf(d)[n + 1] = SumOf(d)[n] + D
    BY <2>3, <2>5, <2>7, <2>8
  <2>11. carry[n + 1] * TwoTo[n + 1] = C
    BY <2>6
  <2> HIDE DEF A, B, C, D, p, t
  <2> QED
    BY <2>5, <2>9, <2>10, <2>11
<1> HIDE DEF S
<1>7. \A n \in Nat : n \in S
  BY <1>5, <1>6, SetInduction
<1>8. Width \in S
  BY <1>7, WidthIsNat
<1>9. SumOf(a)[Width] = SumOf(d)[Width] + carry[Width] * TwoTo[Width]
  BY <1>8, WidthIsNat DEF S
<1>10. SumOf(d)[Width] = NumberOf(x)
  BY NumberIsSum DEF d
<1>11. carry[Width] \in Nat
  BY <1>3, WidthIsNat
<1> QED
  BY <1>9, <1>10, <1>11 DEF a, x

LEMMA CarriedIsWord ==
  ASSUME NEW column
  PROVE  Carried(column) \in SUBSET Places
  BY DEF Carried

(* Addition, modulo 2^Width.                                               *)
LEMMA AddIsSum ==
  ASSUME NEW x \in SUBSET Places, NEW y \in SUBSET Places
  PROVE  \E q \in Nat :
           NumberOf(x) + NumberOf(y) = NumberOf(Add(x, y)) + q * TwoTo[Width]
<1> DEFINE column == [b \in Places |-> Bit(x, b) + Bit(y, b)]
           t == Columns(column)
<1>1. column \in [Places -> Nat]
  BY DEF Bit
<1>2. t \in [Nat -> Nat]
  BY <1>1 DEF Columns
<1>3. \A k \in Nat : t[k] = Digits(x)[k] + Digits(y)[k]
  BY DigitsAreBits DEF Columns, Bit
<1>4. SumOf(t)[Width] = SumOf(Digits(x))[Width] + SumOf(Digits(y))[Width]
  <2> DEFINE u == Digits(x)
             v == Digits(y)
  <2>1. u \in [Nat -> Nat] /\ v \in [Nat -> Nat]
    BY DigitsAreBits
  <2> HIDE DEF t, u, v
  <2>2. \A m \in Nat : SumOf(t)[m] = SumOf(u)[m] + SumOf(v)[m]
    BY <1>2, <1>3, <2>1, SumAdds DEF u, v
  <2> QED
    BY <2>2, WidthIsNat DEF u, v
<1>5. PICK q \in Nat :
        SumOf(t)[Width] = NumberOf(Carried(column)) + q * TwoTo[Width]
  <2> HIDE DEF column
  <2> QED
    BY <1>1, CarriedIsSum
<1>6. Add(x, y) = Carried(column)
  BY DEF Add
<1> HIDE DEF column, t
<1> QED
  BY <1>4, <1>5, <1>6, NumberIsSum

(* The word of a number is that number, modulo 2^Width.                    *)
LEMMA WordIsNumber ==
  ASSUME NEW n \in Nat
  PROVE  \E q \in Nat : n = NumberOf(Word(n)) + q * TwoTo[Width]
<1> DEFINE column == [b \in Places |-> IF b = 0 THEN n ELSE 0]
           a == Columns(column)
           z == [b \in Nat |-> 0]
<1>1. column \in [Places -> Nat]
  OBVIOUS
<1>2. a \in [Nat -> Nat] /\ a[0] = n /\ \A k \in Nat \ {0} : a[k] = 0
  BY WidthIsNat DEF Columns
<1> HIDE DEF column, a
<1>3. SumOf(a)[1] = n
  <2>1. SumOf(a)[0] = 0
    BY <1>2, SumStarts
  <2>2. SumOf(a)[0 + 1] = SumOf(a)[0] + a[0] * TwoTo[0]
    BY <1>2, SumStep
  <2> QED
    BY <1>2, <2>1, <2>2, TwoToStep
<1>4. \A k \in Nat : SumOf(a)[k + 1] = n
  <2> DEFINE S == {k \in Nat : SumOf(a)[k + 1] = n}
  <2>1. 0 \in S
    BY <1>3
  <2>2. ASSUME NEW k \in Nat, k \in S
        PROVE  k + 1 \in S
    <3>1. a[k + 1] = 0 /\ k + 1 \in Nat
      BY <1>2
    <3>2. SumOf(a)[(k + 1) + 1] = SumOf(a)[k + 1] + a[k + 1] * TwoTo[k + 1]
      BY <1>2, <3>1, SumStep
    <3>3. TwoTo[k + 1] \in Nat
      BY <3>1, TwoToIsLarge
    <3>4. a[k + 1] * TwoTo[k + 1] = 0
      BY <3>1, <3>3
    <3> QED
      BY <2>2, <3>2, <3>4
  <2> HIDE DEF S
  <2>3. \A k \in Nat : k \in S
    BY <2>1, <2>2, SetInduction
  <2> QED
    BY <2>3 DEF S
<1>5. SumOf(a)[Width] = n
  <2>1. Width - 1 \in Nat /\ (Width - 1) + 1 = Width
    BY WidthIsNat
  <2> QED
    BY <1>4, <2>1
<1>6. PICK q \in Nat :
        SumOf(a)[Width] = NumberOf(Carried(column)) + q * TwoTo[Width]
  BY <1>1, CarriedIsSum DEF a
<1>7. Word(n) = Carried(column)
  BY DEF Word, column
<1> QED
  BY <1>5, <1>6, <1>7

-----------------------------------------------------------------------------
(***************************************************************************)
(* Products.                                                               *)
(***************************************************************************)

(* The places below k of x that add to column b of the product with y.     *)
Pairs(x, y, k, b) == {c \in x : c < k /\ c <= b /\ b - c \in y}

PairColumns(x, y, k) == [b \in Places |-> Cardinality(Pairs(x, y, k, b))]

LEMMA PairsAreFinite ==
  ASSUME NEW x \in SUBSET Places, NEW y \in SUBSET Places,
         NEW k \in Nat, NEW b \in Nat
  PROVE  /\ IsFiniteSet(Pairs(x, y, k, b))
         /\ Cardinality(Pairs(x, y, k, b)) \in Nat
<1>1. IsFiniteSet(Places)
  BY FS_Interval, WidthIsNat
<1>2. Pairs(x, y, k, b) \subseteq Places
  BY DEF Pairs
<1> QED
  BY <1>1, <1>2, FS_Subset, FS_CardinalityType

(* One place more of x adds the digits of y, moved to that place.          *)
LEMMA PairsGrow ==
  ASSUME NEW x \in SUBSET Places, NEW y \in SUBSET Places,
         NEW k \in Nat, NEW b \in Nat
  PROVE  Cardinality(Pairs(x, y, k + 1, b)) =
           Cardinality(Pairs(x, y, k, b)) +
             IF k \in x /\ k <= b /\ b - k \in y THEN 1 ELSE 0
<1> DEFINE P == Pairs(x, y, k, b)
           Q == Pairs(x, y, k + 1, b)
<1>1. IsFiniteSet(P) /\ Cardinality(P) \in Nat
  BY PairsAreFinite
<1>2. \A c \in x : c \in Nat /\ (c < k + 1 <=> (c < k \/ c = k))
  BY WidthIsNat
<1>3. CASE k \in x /\ k <= b /\ b - k \in y
  <2>1. Q = P \cup {k} /\ k \notin P
    <3>1. \A c : c \in Q <=> c \in P \/ c = k
      BY <1>2, <1>3 DEF Pairs
    <3>2. k \notin P
      BY DEF Pairs
    <3> HIDE DEF P, Q
    <3> QED
      BY <3>1, <3>2
  <2>2. Cardinality(P \cup {k}) = Cardinality(P) + 1
    BY <1>1, <2>1, FS_AddElement
  <2> QED
    BY <1>3, <2>1, <2>2
<1>4. CASE ~ (k \in x /\ k <= b /\ b - k \in y)
  <2>1. Q = P
    BY <1>2, <1>4 DEF Pairs
  <2> QED
    BY <1>1, <1>4, <2>1
<1> QED
  BY <1>3, <1>4

LEMMA PairColumnsAreNumbers ==
  ASSUME NEW x \in SUBSET Places, NEW y \in SUBSET Places, NEW k \in Nat
  PROVE  PairColumns(x, y, k) \in [Places -> Nat]
<1>1. \A b \in Places : Cardinality(Pairs(x, y, k, b)) \in Nat
  BY PairsAreFinite, WidthIsNat
<1> QED
  BY <1>1 DEF PairColumns

(* The digits of y moved k places up.                                      *)
Moved(y, k) == [b \in Nat |-> IF k <= b /\ b - k \in y THEN 1 ELSE 0]

(* They are worth 2^k times as much, modulo 2^Width.                       *)
LEMMA MovedIsMultiple ==
  ASSUME NEW y, NEW k \in Nat, k <= Width
  PROVE  \E q \in Nat :
           TwoTo[k] * NumberOf(y) =
             SumOf(Moved(y, k))[Width] + q * TwoTo[Width]
<1> DEFINE a == Digits(y)
           t == Moved(y, k)
           m == Width - k
<1>1. /\ a \in [Nat -> Nat]
      /\ t \in [Nat -> Nat]
      /\ m \in Nat /\ k + m = Width /\ m + k = Width
  BY DigitsAreBits, WidthIsNat DEF Moved
<1>2. \A n \in 0 .. k - 1 : t[n] = 0
  BY DEF Moved
<1>3. \A n \in Nat : t[k + n] = a[n]
  <2>1. ASSUME NEW n \in Nat
        PROVE  t[k + n] = a[n]
    <3>1. k + n \in Nat /\ k <= k + n /\ (k + n) - k = n
      OBVIOUS
    <3>2. t[k + n] = IF n \in y THEN 1 ELSE 0
      BY <3>1 DEF Moved
    <3> QED
      BY <3>2, DigitsAreBits
  <2> QED
    BY <2>1
<1>4. NumberOf(y) = SumOf(a)[Width]
  BY NumberIsSum
<1> HIDE DEF a, t, m
<1>5. SumOf(t)[k + m] = TwoTo[k] * SumOf(a)[m]
  BY <1>1, <1>2, <1>3, SumShifts
<1>6. PICK q \in Nat : SumOf(a)[m + k] = SumOf(a)[m] + q * TwoTo[m]
  BY <1>1, SumTail
<1>7. TwoTo[Width] = TwoTo[k] * TwoTo[m]
  <2>1. TwoTo[k + m] = TwoTo[k] * TwoTo[m]
    BY <1>1, TwoToSum
  <2> QED
    BY <1>1, <2>1
<1>8. SumOf(a)[m] \in Nat /\ TwoTo[k] \in Nat /\ TwoTo[m] \in Nat
  BY <1>1, SumStep, TwoToIsLarge
<1>9. \A p, s, r \in Nat : p * (s + q * r) = p * s + q * (p * r)
  BY Z3
<1> DEFINE p == TwoTo[k]
           s == SumOf(a)[m]
           r == TwoTo[m]
<1>10. p * (s + q * r) = p * s + q * (p * r)
  BY <1>8, <1>9
<1>11. TwoTo[k] * NumberOf(y) = SumOf(t)[Width] + q * TwoTo[Width]
  BY <1>1, <1>4, <1>5, <1>6, <1>7, <1>10
<1> QED
  BY <1>11 DEF t

(* The sum of the columns of the first k places of x.                      *)
LEMMA ProductGrowsByPlace ==
  ASSUME NEW x \in SUBSET Places, NEW y \in SUBSET Places,
         NEW k \in Nat, k < Width
  PROVE  SumOf(Columns(PairColumns(x, y, k + 1)))[Width] =
           SumOf(Columns(PairColumns(x, y, k)))[Width] +
             IF k \in x THEN SumOf(Moved(y, k))[Width] ELSE 0
<1> DEFINE a == Columns(PairColumns(x, y, k))
           c == Columns(PairColumns(x, y, k + 1))
           e == Moved(y, k)
           t == [b \in Nat |-> a[b] + e[b]]
<1>1. /\ a \in [Nat -> Nat]
      /\ c \in [Nat -> Nat]
      /\ e \in [Nat -> Nat]
  <2>1. k + 1 \in Nat
    OBVIOUS
  <2>2. /\ PairColumns(x, y, k) \in [Places -> Nat]
        /\ PairColumns(x, y, k + 1) \in [Places -> Nat]
    BY <2>1, PairColumnsAreNumbers
  <2> QED
    BY <2>2 DEF Columns, Moved
<1>2. \A b \in Places :
        /\ b \in Nat
        /\ c[b] = a[b] + IF k \in x THEN e[b] ELSE 0
  <2>1. ASSUME NEW b \in Places
        PROVE  /\ b \in Nat
               /\ c[b] = a[b] + IF k \in x THEN e[b] ELSE 0
    <3>1. b \in Nat
      BY WidthIsNat
    <3>2. /\ a[b] = Cardinality(Pairs(x, y, k, b))
          /\ c[b] = Cardinality(Pairs(x, y, k + 1, b))
          /\ e[b] = IF k <= b /\ b - k \in y THEN 1 ELSE 0
      BY <3>1 DEF Columns, PairColumns, Moved
    <3>3. Cardinality(Pairs(x, y, k + 1, b)) =
            Cardinality(Pairs(x, y, k, b)) +
              IF k \in x /\ k <= b /\ b - k \in y THEN 1 ELSE 0
      BY <3>1, PairsGrow
    <3> HIDE DEF a, c, e
    <3> QED
      BY <3>1, <3>2, <3>3
  <2> QED
    BY <2>1
<1> HIDE DEF a, c, e
<1>3. CASE k \in x
  <2>1. t \in [Nat -> Nat] /\ \A b \in Nat : t[b] = a[b] + e[b]
    BY <1>1
  <2>2. \A b \in 0 .. Width - 1 : t[b] = c[b]
    BY <1>2, <1>3, WidthIsNat
  <2> HIDE DEF t
  <2>3. SumOf(t)[Width] = SumOf(a)[Width] + SumOf(e)[Width]
    <3>1. ASSUME NEW m \in Nat
          PROVE  SumOf(t)[m] = SumOf(a)[m] + SumOf(e)[m]
      <4>1. a \in [Nat -> Nat] /\ e \in [Nat -> Nat] /\ t \in [Nat -> Nat]
        BY <1>1, <2>1
      <4>2. \A b \in Nat : t[b] = a[b] + e[b]
        BY <2>1
      <4> QED
        BY <4>1, <4>2, SumAdds, Zenon
    <3> QED
      BY <3>1, WidthIsNat
  <2>4. SumOf(t)[Width] = SumOf(c)[Width]
    BY <1>1, <2>1, <2>2, SumAgrees, WidthIsNat
  <2> QED
    BY <1>3, <2>3, <2>4 DEF a, c, e
<1>4. CASE k \notin x
  <2>1. \A b \in 0 .. Width - 1 : c[b] = a[b]
    BY <1>1, <1>2, <1>4, WidthIsNat
  <2>2. SumOf(c)[Width] = SumOf(a)[Width]
    BY <1>1, <2>1, SumAgrees, WidthIsNat
  <2>3. SumOf(a)[Width] \in Nat
    BY <1>1, SumStep, WidthIsNat
  <2> QED
    BY <1>4, <2>2, <2>3 DEF a, c
<1> QED
  BY <1>3, <1>4

(* Multiplication, modulo 2^Width.                                         *)
LEMMA MultiplyIsProduct ==
  ASSUME NEW x \in SUBSET Places, NEW y \in SUBSET Places
  PROVE  \E q \in Nat :
           NumberOf(x) * NumberOf(y) =
             NumberOf(Multiply(x, y)) + q * TwoTo[Width]
<1> DEFINE d == Digits(x)
           C(k) == SumOf(Columns(PairColumns(x, y, k)))[Width]
           v == NumberOf(y)
           M == TwoTo[Width]
           S == {k \in Nat : k <= Width =>
                   \E q \in Nat : SumOf(d)[k] * v = C(k) + q * M}
<1>1. /\ d \in [Nat -> Nat]
      /\ \A b \in Nat : d[b] = IF b \in x THEN 1 ELSE 0
  BY DigitsAreBits
<1>2. v \in Nat /\ M \in Nat
  BY NumberIsNat, TwoToIsLarge, WidthIsNat
<1>3. ASSUME NEW k \in Nat PROVE C(k) \in Nat
  <2>1. Columns(PairColumns(x, y, k)) \in [Nat -> Nat]
    BY PairColumnsAreNumbers DEF Columns
  <2> QED
    BY <2>1, SumStep, WidthIsNat
<1>4. 0 \in S
  <2> DEFINE a == Columns(PairColumns(x, y, 0))
  <2>1. a \in [Nat -> Nat]
    BY PairColumnsAreNumbers DEF Columns
  <2>2. \A b \in 0 .. Width - 1 : a[b] = 0
    <3>1. \A b : Pairs(x, y, 0, b) = {}
      <4>1. \A c \in x : ~ (c < 0)
        BY WidthIsNat
      <4> QED
        BY <4>1 DEF Pairs
    <3> QED
      BY <3>1, FS_EmptySet DEF Columns, PairColumns
  <2> HIDE DEF a
  <2>3. SumOf(a)[Width] = 0
    BY <2>1, <2>2, SumOfZeros, WidthIsNat
  <2>4. C(0) = 0
    BY <2>3 DEF a
  <2>5. SumOf(d)[0] = 0
    BY <1>1, SumStarts
  <2> HIDE DEF C, v, M, d
  <2>6. SumOf(d)[0] * v = C(0) + 0 * M
    BY <1>2, <2>4, <2>5
  <2> QED
    BY <2>6
<1>5. ASSUME NEW k \in Nat, k \in S
      PROVE  k + 1 \in S
  <2>1. SUFFICES ASSUME k + 1 <= Width
                 PROVE  \E q \in Nat : SumOf(d)[k + 1] * v = C(k + 1) + q * M
    OBVIOUS
  <2>2. k < Width /\ k <= Width
    BY <2>1, WidthIsNat
  <2>3. PICK q \in Nat : SumOf(d)[k] * v = C(k) + q * M
    BY <1>5, <2>2
  <2>4. C(k + 1) = C(k) + IF k \in x THEN SumOf(Moved(y, k))[Width] ELSE 0
    BY <2>2, ProductGrowsByPlace
  <2>5. PICK r \in Nat : TwoTo[k] * v = SumOf(Moved(y, k))[Width] + r * M
    BY <2>2, MovedIsMultiple
  <2>6. /\ SumOf(d)[k] \in Nat
        /\ SumOf(d)[k + 1] = SumOf(d)[k] + d[k] * TwoTo[k]
    BY <1>1, SumStep
  <2>7. C(k) \in Nat /\ C(k + 1) \in Nat
    <3>1. k + 1 \in Nat
      OBVIOUS
    <3> QED
      BY <1>3, <3>1
  <2>8. TwoTo[k] \in Nat
    BY TwoToIsLarge
  <2>9. SumOf(Moved(y, k))[Width] \in Nat
    <3>1. Moved(y, k) \in [Nat -> Nat]
      BY DEF Moved
    <3> QED
      BY <3>1, SumStep, WidthIsNat
  <2> DEFINE s == SumOf(d)[k]
             p == TwoTo[k]
             e == SumOf(Moved(y, k))[Width]
             f == C(k)
             g == C(k + 1)
             h == SumOf(d)[k + 1]
  <2>10. CASE k \in x
    <3>1. d[k] = 1
      BY <1>1, <2>10
    <3>2. d[k] * TwoTo[k] = p
      BY <2>8, <3>1
    <3>3. h = s + p /\ g = f + e
      BY <2>4, <2>6, <2>10, <3>2
    <3>4. /\ s \in Nat /\ p \in Nat /\ e \in Nat /\ f \in Nat
          /\ s * v = f + q * M
          /\ p * v = e + r * M
      BY <2>3, <2>5, <2>6, <2>7, <2>8, <2>9
    <3> HIDE DEF s, p, e, f, g, h, v, M
    <3>5. (s + p) * v = s * v + p * v
      BY <1>2, <3>4, Z3
    <3>6. (q + r) * M = q * M + r * M
      BY <1>2, Z3
    <3>7. q * M \in Nat /\ r * M \in Nat
      BY <1>2, ProductIsNat
    <3>8. h * v = g + (q + r) * M
      BY <3>3, <3>4, <3>5, <3>6, <3>7
    <3>9. q + r \in Nat
      OBVIOUS
    <3> QED
      BY <3>8, <3>9 DEF h, g, C
  <2>11. CASE k \notin x
    <3>1. d[k] * TwoTo[k] = 0
      BY <1>1, <2>8, <2>11
    <3>2. h = s /\ g = f
      BY <2>4, <2>6, <2>7, <2>11, <3>1
    <3> QED
      BY <2>3, <3>2
  <2> QED
    BY <2>10, <2>11
<1>6. \A k \in Nat : k \in S
  <2> HIDE DEF S
  <2> QED
    BY <1>4, <1>5, SetInduction
<1>7. Width \in S /\ Width <= Width
  BY <1>6, WidthIsNat
<1>8. PICK q \in Nat : SumOf(d)[Width] * v = C(Width) + q * M
  BY <1>7
<1>9. SumOf(d)[Width] = NumberOf(x)
  BY NumberIsSum
<1> DEFINE column == PairColumns(x, y, Width)
<1>10. Multiply(x, y) = Carried(column)
  <2>1. \A b : Pairs(x, y, Width, b) = {c \in x : c <= b /\ b - c \in y}
    <3>1. \A c \in x : c < Width
      BY WidthIsNat
    <3> QED
      BY <3>1 DEF Pairs
  <2> QED
    BY <2>1 DEF Multiply, PairColumns
<1>11. column \in [Places -> Nat]
  BY PairColumnsAreNumbers, WidthIsNat
<1>12. PICK r \in Nat :
         SumOf(Columns(column))[Width] = NumberOf(Carried(column)) + r * M
  <2> HIDE DEF column
  <2> QED
    BY <1>11, CarriedIsSum
<1>13. NumberOf(x) * v = (NumberOf(Multiply(x, y)) + r * M) + q * M
  BY <1>8, <1>9, <1>10, <1>12
<1> DEFINE z == NumberOf(Multiply(x, y))
<1>14. z \in Nat
  BY NumberIsNat
<1>15. r + q \in Nat
  OBVIOUS
<1>16. (z + r * M) + q * M = z + (r + q) * M
  <2> HIDE DEF z, M
  <2> QED
    BY <1>2, <1>14, Z3
<1> QED
  BY <1>13, <1>15, <1>16

-----------------------------------------------------------------------------
(***************************************************************************)
(* The generator's states and samples.                                     *)
(***************************************************************************)

LEMMA ConstantsAreWords ==
  Gamma \in SUBSET Places /\ Factor1 \in SUBSET Places
  /\ Factor2 \in SUBSET Places
  BY DEF Gamma, Factor1, Factor2, Hex

(* The n-th state is the seed plus n times the increment, modulo 2^Width.  *)
LEMMA StateIsMultiple ==
  ASSUME NEW start \in SUBSET Places, NEW n \in Nat
  PROVE  /\ StateAt(start, n) \in SUBSET Places
         /\ \E q \in Nat :
              NumberOf(start) + n * NumberOf(Gamma) =
                NumberOf(StateAt(start, n)) + q * TwoTo[Width]
<1> DEFINE w == Word(n)
           m == Multiply(w, Gamma)
           M == TwoTo[Width]
           g == NumberOf(Gamma)
           s == NumberOf(start)
           i == NumberOf(w)
           j == NumberOf(m)
           k == NumberOf(StateAt(start, n))
<1>1. w \in SUBSET Places /\ m \in SUBSET Places
  BY CarriedIsWord DEF Word, Multiply
<1>2. StateAt(start, n) = Add(start, m)
  BY DEF StateAt
<1>3. StateAt(start, n) \in SUBSET Places
  BY <1>2, CarriedIsWord DEF Add
<1>4. PICK a \in Nat : n = i + a * M
  BY WordIsNumber
<1>5. PICK b \in Nat : i * g = j + b * M
  <2> HIDE DEF w
  <2> QED
    BY <1>1, ConstantsAreWords, MultiplyIsProduct
<1>6. PICK c \in Nat : s + j = k + c * M
  <2> HIDE DEF m
  <2> QED
    BY <1>1, <1>2, AddIsSum
<1>7. /\ M \in Nat /\ g \in Nat /\ s \in Nat
      /\ i \in Nat /\ j \in Nat /\ k \in Nat
  BY NumberIsNat, TwoToIsLarge, WidthIsNat
<1>8. s + n * g = k + (c + b + a * g) * M
  <2> HIDE DEF w, m, M, g, s, i, j, k
  <2>1. n * g = i * g + (a * g) * M
    BY <1>4, <1>7, Z3
  <2>2. (c + b + a * g) * M = c * M + b * M + (a * g) * M
    BY <1>7, Z3
  <2> DEFINE u == (a * g) * M
             t == c * M
             r == b * M
  <2>3. u \in Nat /\ t \in Nat /\ r \in Nat
    BY <1>7, ProductIsNat
  <2>4. i * g \in Nat
    BY <1>7, ProductIsNat
  <2> DEFINE e == i * g
  <2>5. /\ n * g = e + u
        /\ (c + b + a * g) * M = t + r + u
        /\ e = j + r
        /\ s + j = k + t
        /\ e \in Nat
    BY <1>5, <1>6, <2>1, <2>2, <2>4
  <2> HIDE DEF u, t, r, e
  <2> QED
    BY <1>7, <2>3, <2>5
<1>9. c + b + a * g \in Nat
  <2> HIDE DEF g
  <2> QED
    BY <1>7, ProductIsNat
<1> QED
  BY <1>3, <1>8, <1>9

(* Before the first step it is the seed.                                   *)
LEMMA StateStarts ==
  ASSUME NEW start \in SUBSET Places
  PROVE  StateAt(start, 0) = start
<1> DEFINE M == TwoTo[Width]
           g == NumberOf(Gamma)
           s == NumberOf(start)
           k == NumberOf(StateAt(start, 0))
<1>1. StateAt(start, 0) \in SUBSET Places
  BY StateIsMultiple
<1>2. PICK q \in Nat : s + 0 * g = k + q * M
  BY StateIsMultiple
<1>3. s \in Nat /\ g \in Nat /\ M \in Nat /\ k \in Nat
  BY NumberIsNat, TwoToIsLarge, WidthIsNat
<1>4. s + 0 * M = k + q * M
  <2> HIDE DEF s, g, M, k
  <2>1. 0 * g = 0 /\ 0 * M = 0
    BY <1>3
  <2> QED
    BY <1>2, <1>3, <2>1
<1> QED
  BY <1>1, <1>4, WordsAreDetermined

(* Each step adds the increment.                                           *)
LEMMA StateSteps ==
  ASSUME NEW start \in SUBSET Places, NEW n \in Nat
  PROVE  StateAt(start, n + 1) = Add(StateAt(start, n), Gamma)
<1> DEFINE M == TwoTo[Width]
           g == NumberOf(Gamma)
           s == NumberOf(start)
           x == StateAt(start, n)
           y == StateAt(start, n + 1)
           z == Add(x, Gamma)
           i == NumberOf(x)
           j == NumberOf(y)
           k == NumberOf(z)
<1>1. n + 1 \in Nat
  OBVIOUS
<1>2. x \in SUBSET Places /\ y \in SUBSET Places
  BY <1>1, StateIsMultiple
<1>3. z \in SUBSET Places
  BY CarriedIsWord DEF Add
<1>4. PICK p \in Nat : s + n * g = i + p * M
  BY StateIsMultiple
<1>5. PICK q \in Nat : s + (n + 1) * g = j + q * M
  BY <1>1, StateIsMultiple
<1>6. PICK r \in Nat : i + g = k + r * M
  <2> HIDE DEF x
  <2> QED
    BY <1>2, ConstantsAreWords, AddIsSum
<1>7. /\ M \in Nat /\ g \in Nat /\ s \in Nat
      /\ i \in Nat /\ j \in Nat /\ k \in Nat
  BY NumberIsNat, TwoToIsLarge, WidthIsNat
<1>8. j + q * M = k + (r + p) * M
  <2> HIDE DEF M, g, s, x, y, z, i, j, k
  <2>1. (n + 1) * g = n * g + g
    BY <1>7, Z3
  <2>2. (r + p) * M = r * M + p * M
    BY <1>7, Z3
  <2> DEFINE e == n * g
             u == p * M
             v == q * M
             t == r * M
  <2>3. e \in Nat /\ u \in Nat /\ v \in Nat /\ t \in Nat
    BY <1>7, ProductIsNat
  <2>4. /\ s + e = i + u
        /\ s + (e + g) = j + v
        /\ i + g = k + t
        /\ (r + p) * M = t + u
    BY <1>4, <1>5, <1>6, <2>1, <2>2
  <2> HIDE DEF e, u, t
  <2> QED
    BY <1>7, <2>3, <2>4
<1>9. r + p \in Nat
  OBVIOUS
<1>10. y = z
  <2> HIDE DEF x, y, z
  <2> QED
    BY <1>2, <1>3, <1>8, <1>9, WordsAreDetermined
<1> QED
  BY <1>10

(* A word of few places is a small number.                                 *)
LEMMA FewPlacesAreSmall ==
  ASSUME NEW x, NEW m \in Nat, NEW n \in Nat,
         m + n = Width, \A b \in x : b \in 0 .. m - 1
  PROVE  NumberOf(x) < TwoTo[m]
<1> DEFINE d == Digits(x)
           S == {k \in Nat : SumOf(d)[m + k] = SumOf(d)[m]}
<1>1. d \in [Nat -> Nat] /\ \A k \in Nat : d[m + k] = 0
  <2>1. d \in [Nat -> Nat]
    BY DigitsAreBits
  <2>2. \A k \in Nat : m + k \in Nat /\ m + k \notin x
    OBVIOUS
  <2> QED
    BY <2>1, <2>2, DigitsAreBits
<1> HIDE DEF d
<1>2. 0 \in S
  OBVIOUS
<1>3. ASSUME NEW k \in Nat, k \in S
      PROVE  k + 1 \in S
  <2>1. m + k \in Nat /\ m + (k + 1) = (m + k) + 1
    OBVIOUS
  <2>2. /\ SumOf(d)[m + k] \in Nat
        /\ SumOf(d)[(m + k) + 1] = SumOf(d)[m + k] + d[m + k] * TwoTo[m + k]
    BY <1>1, <2>1, SumStep
  <2>3. d[m + k] * TwoTo[m + k] = 0
    <3>1. TwoTo[m + k] \in Nat /\ d[m + k] = 0
      BY <1>1, <2>1, TwoToIsLarge
    <3> QED
      BY <3>1
  <2> QED
    BY <1>3, <2>1, <2>2, <2>3
<1> HIDE DEF S
<1>4. \A k \in Nat : k \in S
  BY <1>2, <1>3, SetInduction
<1>5. n \in S
  BY <1>4
<1>6. SumOf(d)[Width] = SumOf(d)[m]
  BY <1>5 DEF S
<1> QED
  BY <1>6, NumberIsSum, DigitsBelow DEF d

LEMMA XorShiftIsWord ==
  ASSUME NEW x \in SUBSET Places, NEW n \in Nat
  PROVE  XorShift(x, n) \in SUBSET Places
<1>1. ShiftRight(x, n) \subseteq Places
  <2>1. \A c \in x : c >= n => c - n \in 0 .. Width - 1
    BY WidthIsNat
  <2> QED
    BY <2>1, WidthIsNat DEF ShiftRight
<1> QED
  BY <1>1 DEF XorShift, Xor

LEMMA MixIsWord ==
  ASSUME NEW x \in SUBSET Places
  PROVE  Mix(x) \in SUBSET Places
<1> DEFINE y == Multiply(XorShift(x, 30), Factor1)
           z == Multiply(XorShift(y, 27), Factor2)
<1>1. z \in SUBSET Places
  BY CarriedIsWord DEF Multiply
<1>2. Mix(x) = XorShift(z, 31)
  BY DEF Mix
<1> HIDE DEF z
<1> QED
  BY <1>1, <1>2, XorShiftIsWord

(* Samples are 2^24 numbers around zero.                                   *)
LEMMA SampleIsTyped ==
  ASSUME NEW x \in SUBSET Places
  PROVE  /\ Sample(x) \in Int
         /\ - TwoTo[23] <= Sample(x)
         /\ Sample(x) < TwoTo[23]
<1> DEFINE y == ShiftRight(Mix(x), 40)
<1>1. \A b \in y : b \in 0 .. 24 - 1
  <2>1. \A c \in Mix(x) : c \in 0 .. 63
    BY MixIsWord DEF Places, Width
  <2>2. \A c \in 0 .. 63 : c >= 40 => c - 40 \in 0 .. 24 - 1
    OBVIOUS
  <2> HIDE DEF Mix
  <2> QED
    BY <2>1, <2>2 DEF ShiftRight
<1> HIDE DEF y
<1>2. NumberOf(y) < TwoTo[24]
  <2>1. 24 \in Nat /\ 40 \in Nat /\ 24 + 40 = Width
    BY DEF Width
  <2> QED
    BY <1>1, <2>1, FewPlacesAreSmall
<1>3. NumberOf(y) \in Nat
  BY NumberIsNat
<1>4. TwoTo[23] \in Nat /\ TwoTo[24] = 2 * TwoTo[23]
  <2>1. TwoTo[23 + 1] = 2 * TwoTo[23]
    BY TwoToStep
  <2> QED
    BY <2>1, TwoToIsLarge
<1>5. Sample(x) = NumberOf(y) - TwoTo[23]
  BY DEF Sample, y
<1> QED
  BY <1>2, <1>3, <1>4, <1>5

-----------------------------------------------------------------------------
(***************************************************************************)
(* The vectors.                                                            *)
(***************************************************************************)

LEMMA SampleIsElement ==
  ASSUME NEW x \in SUBSET Places
  PROVE  IsElement(Sample(x))
  BY SampleIsTyped DEF IsElement

(* A vector with an element stored stays one.                              *)
LEMMA StoreKeepsVector ==
  ASSUME NEW v, NEW n \in Nat, NEW i \in 0 .. n - 1, NEW e, IsElement(e),
         DOMAIN v = 0 .. n - 1, \A k \in DOMAIN v : IsElement(v[k])
  PROVE  /\ DOMAIN [v EXCEPT ![i] = e] = 0 .. n - 1
         /\ \A k \in 0 .. n - 1 :
              /\ IsElement([v EXCEPT ![i] = e][k])
              /\ [v EXCEPT ![i] = e][k] = IF k = i THEN e ELSE v[k]
  OBVIOUS

(***************************************************************************)
(* GeneratorInv is inductive, so every state is as many steps from the     *)
(* seed as stores were done.                                               *)
(***************************************************************************)
THEOREM GeneratorIsInvariant == GeneratorSpec => []GeneratorInv
<1>1. GeneratorInit => GeneratorInv
  <2> SUFFICES ASSUME GeneratorInit PROVE GeneratorInv
    OBVIOUS
  <2>1. seed \in SUBSET Places /\ length \in Nat
    BY SeedsAssumption, LengthsAssumption DEF GeneratorInit
  <2>2. GeneratorTypeOK
    BY <2>1 DEF GeneratorInit, GeneratorTypeOK, IsElement
  <2>3. target # "rhs" /\ 2 * input_index + 0 = 0
    BY DEF GeneratorInit
  <2>4. IndexInv
    BY <2>1, <2>3, StateStarts DEF GeneratorInit, IndexInv
  <2> QED
    BY <2>2, <2>4 DEF GeneratorInv
<1>2. GeneratorInv /\ [GeneratorNext]_generatorVars => GeneratorInv'
  <2> SUFFICES ASSUME GeneratorInv, [GeneratorNext]_generatorVars
               PROVE  GeneratorInv'
    OBVIOUS
  <2> DEFINE i == input_index
             next == Add(state, Gamma)
  <2>1. /\ seed \in Seeds /\ length \in Lengths
        /\ seed \in SUBSET Places /\ length \in Nat
        /\ i \in 0 .. length
        /\ DOMAIN lhs = 0 .. length - 1
        /\ \A k \in DOMAIN lhs : IsElement(lhs[k])
        /\ DOMAIN rhs = 0 .. length - 1
        /\ \A k \in DOMAIN rhs : IsElement(rhs[k])
    BY SeedsAssumption, LengthsAssumption
       DEF GeneratorInv, GeneratorTypeOK, IsElement
  <2>2. next \in SUBSET Places /\ IsElement(Sample(next))
    <3>1. next \in SUBSET Places
      BY CarriedIsWord DEF Add
    <3> HIDE DEF next
    <3> QED
      BY <3>1, SampleIsElement
  <2>3. /\ target \in {"lhs", "rhs", "done"}
        /\ target # "done" => i \in 0 .. length - 1
        /\ target = "lhs" => state = StateAt(seed, 2 * i)
        /\ target = "rhs" => /\ state = StateAt(seed, 2 * i + 1)
                             /\ lhs[i] = Draw(seed, 2 * i + 1)
        /\ \A k \in 0 .. i - 1 : /\ lhs[k] = Draw(seed, 2 * k + 1)
                                  /\ rhs[k] = Draw(seed, 2 * k + 2)
    <3>1. target \in {"lhs", "rhs", "done"}
      BY DEF GeneratorInv, GeneratorTypeOK
    <3>2. i < length \/ target = "done"
      BY DEF GeneratorInv, IndexInv
    <3>3. 2 * i + 0 = 2 * i
      BY <2>1
    <3>4. target # "done" => i \in 0 .. length - 1
      BY <2>1, <3>2
    <3>5. state = StateAt(seed, 2 * i + IF target = "rhs" THEN 1 ELSE 0)
      BY DEF GeneratorInv, IndexInv
    <3>6. target = "lhs" => state = StateAt(seed, 2 * i)
      BY <3>3, <3>5
    <3>7. target = "rhs" => state = StateAt(seed, 2 * i + 1)
      BY <3>5
    <3>8. /\ target = "rhs" => lhs[i] = Draw(seed, 2 * i + 1)
          /\ \A k \in 0 .. i - 1 : /\ lhs[k] = Draw(seed, 2 * k + 1)
                                    /\ rhs[k] = Draw(seed, 2 * k + 2)
      BY DEF GeneratorInv, IndexInv
    <3> QED
      BY <3>1, <3>4, <3>6, <3>7, <3>8
  <2>4. CASE FillLhs
    <3>1. /\ target = "lhs" /\ target' = "rhs"
          /\ state' = next /\ lhs' = [lhs EXCEPT ![i] = Sample(next)]
          /\ seed' = seed /\ length' = length /\ i' = i /\ rhs' = rhs
      BY <2>4 DEF FillLhs
    <3>2. next = StateAt(seed, 2 * i + 1)
      <4>1. 2 * i \in Nat
        BY <2>1
      <4> QED
        BY <2>1, <2>3, <3>1, <4>1, StateSteps
    <3>3. /\ DOMAIN lhs' = 0 .. length - 1
          /\ \A k \in 0 .. length - 1 :
               /\ IsElement(lhs'[k])
               /\ lhs'[k] = IF k = i THEN Sample(next) ELSE lhs[k]
      <4>1. i \in 0 .. length - 1
        BY <2>3, <3>1
      <4> HIDE DEF i, next
      <4> QED
        BY <2>1, <2>2, <3>1, <4>1, StoreKeepsVector
    <3>4. GeneratorTypeOK'
      BY <2>1, <2>2, <3>1, <3>3 DEF GeneratorTypeOK, IsElement
    <3>5. lhs'[i] = Draw(seed, 2 * i + 1)
      BY <2>3, <3>1, <3>2, <3>3 DEF Draw
    <3>6. \A k \in 0 .. i - 1 : lhs'[k] = lhs[k]
      BY <2>1, <2>3, <3>1, <3>3
    <3>7. IndexInv'
      <4> HIDE DEF next
      <4> QED
        BY <2>1, <2>3, <3>1, <3>2, <3>5, <3>6 DEF IndexInv
    <3> QED
      BY <3>4, <3>7 DEF GeneratorInv
  <2>5. CASE FillRhs
    <3>1. /\ target = "rhs"
          /\ target' = IF i + 1 < length THEN "lhs" ELSE "done"
          /\ state' = next /\ rhs' = [rhs EXCEPT ![i] = Sample(next)]
          /\ seed' = seed /\ length' = length /\ i' = i + 1 /\ lhs' = lhs
      BY <2>5 DEF FillRhs
    <3>2. next = StateAt(seed, 2 * i + 2)
      <4>1. 2 * i + 1 \in Nat /\ (2 * i + 1) + 1 = 2 * i + 2
        BY <2>1
      <4> QED
        BY <2>1, <2>3, <3>1, <4>1, StateSteps
    <3>3. /\ DOMAIN rhs' = 0 .. length - 1
          /\ \A k \in 0 .. length - 1 :
               /\ IsElement(rhs'[k])
               /\ rhs'[k] = IF k = i THEN Sample(next) ELSE rhs[k]
      <4>1. i \in 0 .. length - 1
        BY <2>3, <3>1
      <4> HIDE DEF i, next
      <4> QED
        BY <2>1, <2>2, <3>1, <4>1, StoreKeepsVector
    <3>4. i' \in 0 .. length /\ (i' < length <=> target' = "lhs")
          /\ (i' = length <=> target' = "done")
      BY <2>1, <2>3, <3>1
    <3>5. GeneratorTypeOK'
      BY <2>1, <2>2, <3>1, <3>3, <3>4 DEF GeneratorTypeOK, IsElement
    <3>6. ASSUME NEW k \in 0 .. i' - 1
          PROVE  /\ lhs'[k] = Draw(seed, 2 * k + 1)
                 /\ rhs'[k] = Draw(seed, 2 * k + 2)
      <4>1. CASE k = i
        BY <2>1, <2>3, <3>1, <3>2, <3>3, <4>1 DEF Draw
      <4>2. CASE k # i
        <5>1. k \in 0 .. i - 1 /\ k \in 0 .. length - 1
          BY <2>1, <2>3, <3>1, <4>2
        <5> QED
          BY <2>3, <3>1, <3>3, <4>2, <5>1
      <4> QED
        BY <4>1, <4>2
    <3>7. 2 * i' = 2 * i + 2 /\ 2 * i' + 0 = 2 * i + 2 /\ target' # "rhs"
      BY <2>1, <3>1
    <3>8. IndexInv'
      <4> HIDE DEF next
      <4> QED
        BY <3>1, <3>2, <3>4, <3>6, <3>7 DEF IndexInv
    <3> QED
      BY <3>5, <3>8 DEF GeneratorInv
  <2>6. CASE UNCHANGED generatorVars
    BY <2>6 DEF generatorVars, GeneratorInv, GeneratorTypeOK, IndexInv
  <2> QED
    BY <2>4, <2>5, <2>6 DEF GeneratorNext
<1> QED
  BY <1>1, <1>2, PTL DEF GeneratorSpec

(* Every element written is in [-1, 1) and exact in a float.               *)
THEOREM GeneratorIsTyped == GeneratorSpec => []GeneratorTypeOK
<1>1. GeneratorInv => GeneratorTypeOK
  BY DEF GeneratorInv
<1> QED
  BY <1>1, GeneratorIsInvariant, PTL

(* Every element is the draw of its own index from the seed, however long  *)
(* the vectors are.                                                        *)
THEOREM DrawsAreAlwaysIndexed == GeneratorSpec => []DrawsAreIndexed
<1>1. GeneratorInv => DrawsAreIndexed
  BY DEF GeneratorInv, IndexInv, DrawsAreIndexed
<1> QED
  BY <1>1, GeneratorIsInvariant, PTL
=============================================================================
