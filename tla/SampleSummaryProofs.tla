-------------------------- MODULE SampleSummaryProofs --------------------------
(***************************************************************************)
(* The summary is exact for every number of samples and every sorting of   *)
(* them that qsort may choose.  That neighbours in order make an ordered   *)
(* sequence is shown with a least counterexample.                          *)
(***************************************************************************)
EXTENDS SampleSummary, SequenceTheorems, FiniteSetTheorems,
        WellFoundedInduction, TLAPS

-----------------------------------------------------------------------------
(***************************************************************************)
(* Numbers and sets of them.                                               *)
(***************************************************************************)

(* Every set of natural numbers has a least element.                       *)
LEMMA LeastElement ==
  ASSUME NEW T, T \subseteq Nat, T # {}
  PROVE  \E x \in T : \A y \in T : x <= y
<1> DEFINE R == OpToRel(<, Nat)
<1>1. IsWellFoundedOn(R, Nat)
  BY NatLessThanWellFounded
<1>2. \A x, y \in Nat : x < y => <<x, y>> \in R
  BY DEF OpToRel
<1> HIDE DEF R
<1>3. PICK x \in T : \A y \in T : ~ (<<y, x>> \in R)
  BY <1>1, WFMin
<1>4. \A y \in T : x <= y
  <2>1. ASSUME NEW y \in T, y < x
        PROVE  FALSE
    <3>1. <<y, x>> \in R
      BY <1>2, <2>1
    <3> QED
      BY <1>3, <3>1
  <2>2. T \subseteq Int
    OBVIOUS
  <2> QED
    BY <2>1, <2>2
<1> QED
  BY <1>4

(* The image of the numbers up to n under an injection has n elements, and *)
(* of a larger set at least as many.                                       *)
LEMMA ImageFacts ==
  ASSUME NEW n \in Nat, NEW U, IsFiniteSet(U), NEW p \in [1 .. n -> U]
  PROVE  /\ Cardinality({p[i] : i \in 1 .. n}) <= n
         /\ (\A i, j \in 1 .. n : i # j => p[i] # p[j])
              => n <= Cardinality(U)
<1> DEFINE A == {p[i] : i \in 1 .. n}
<1>1. IsFiniteSet(1 .. n) /\ Cardinality(1 .. n) = n
  BY FS_Interval
<1>2. p \in Surjection(1 .. n, A)
  <2>1. p \in [1 .. n -> A]
    OBVIOUS
  <2> QED
    BY <2>1 DEF Surjection
<1>3. Cardinality(A) <= n
  <2> HIDE DEF A
  <2> QED
    BY <1>1, <1>2, FS_Surjection
<1>4. ASSUME \A i, j \in 1 .. n : i # j => p[i] # p[j]
      PROVE  n <= Cardinality(U)
  <2>1. p \in Injection(1 .. n, U)
    BY <1>4 DEF Injection, IsInjective
  <2> QED
    BY <1>1, <2>1, FS_Injection
<1> QED
  BY <1>3, <1>4

-----------------------------------------------------------------------------
(***************************************************************************)
(* A sorting of the samples.                                               *)
(***************************************************************************)
LEMMA SampleFacts ==
  ASSUME samples_ns \in SampleLists
  PROVE  /\ sample_count \in Nat /\ DOMAIN samples_ns = 1 .. sample_count
         /\ \A k \in DOMAIN samples_ns : samples_ns[k] \in Nat
<1>1. samples_ns \in Seq(Nat)
  BY ListsAssumption
<1> QED
  BY <1>1, LenProperties, ElementOfSeq DEF sample_count

LEMMA CompareIsOrder ==
  ASSUME NEW left \in Nat, NEW right \in Nat, Compare(left, right) <= 0
  PROVE  left <= right
BY DEF Compare

(* A sorting has every sample at one place, and is in order throughout.    *)
LEMMA SortingFacts ==
  ASSUME samples_ns \in SampleLists, NEW sorted \in Sortings
  PROVE  \E p \in [1 .. sample_count -> 1 .. sample_count] :
           /\ \A i, j \in 1 .. sample_count : i # j => p[i] # p[j]
           /\ \A k \in 1 .. sample_count : \E i \in 1 .. sample_count :
                k = p[i]
           /\ \A i \in 1 .. sample_count : /\ sorted[i] = samples_ns[p[i]]
                                           /\ sorted[i] \in Nat
           /\ \A i, j \in 1 .. sample_count :
                i <= j => sorted[i] <= sorted[j]
<1> DEFINE n == sample_count
<1>1. n \in Nat /\ DOMAIN samples_ns = 1 .. n
      /\ \A k \in 1 .. n : samples_ns[k] \in Nat
  BY SampleFacts
<1>2. PICK p \in Rearrangements : sorted = [i \in 1 .. n |-> samples_ns[p[i]]]
  BY DEF Sortings
<1>3. /\ p \in [1 .. n -> 1 .. n]
      /\ \A i, j \in 1 .. n : i # j => p[i] # p[j]
  BY DEF Rearrangements
<1>4. \A i \in 1 .. n : sorted[i] = samples_ns[p[i]] /\ sorted[i] \in Nat
  BY <1>1, <1>2, <1>3
<1>5. \A k \in 1 .. n : \E i \in 1 .. n : k = p[i]
  <2>1. p \in Injection(1 .. n, 1 .. n)
    BY <1>3 DEF Injection, IsInjective
  <2>2. IsFiniteSet(1 .. n)
    BY <1>1, FS_Interval
  <2>3. p \in Surjection(1 .. n, 1 .. n)
    BY <2>1, <2>2, FS_Injection
  <2> QED
    BY <2>3 DEF Surjection
<1>6. \A i \in 1 .. n - 1 : sorted[i] <= sorted[i + 1]
  <2>1. ASSUME NEW i \in 1 .. n - 1
        PROVE  sorted[i] <= sorted[i + 1]
    <3>1. Compare(sorted[i], sorted[i + 1]) <= 0
      BY DEF Sortings
    <3>2. i \in 1 .. n /\ i + 1 \in 1 .. n
      BY <1>1
    <3> QED
      BY <1>4, <3>1, <3>2, CompareIsOrder
  <2> QED
    BY <2>1
<1>7. \A i, j \in 1 .. n : i <= j => sorted[i] <= sorted[j]
  <2> DEFINE T == {j \in 1 .. n : \E i \in 1 .. j : sorted[i] > sorted[j]}
  <2>1. CASE T = {}
    <3>1. ASSUME NEW i \in 1 .. n, NEW j \in 1 .. n, i <= j
          PROVE  sorted[i] <= sorted[j]
      <4>1. i \in 1 .. j /\ sorted[i] \in Nat /\ sorted[j] \in Nat
        BY <1>1, <1>4, <3>1
      <4>2. ~ sorted[i] > sorted[j]
        BY <2>1, <4>1
      <4> QED
        BY <4>1, <4>2
    <3> QED
      BY <3>1
  <2>2. CASE T # {}
    <3>1. PICK j \in T : \A k \in T : j <= k
      <4>1. T \subseteq Nat
        BY <1>1
      <4> HIDE DEF T
      <4> QED
        BY <2>2, <4>1, LeastElement
    <3>2. PICK i \in 1 .. j : sorted[i] > sorted[j]
      OBVIOUS
    <3>3. /\ j \in 1 .. n /\ i \in 1 .. n
          /\ sorted[i] \in Nat /\ sorted[j] \in Nat
      BY <1>1, <1>4
    <3>4. i # j
      BY <3>2, <3>3
    <3>5. j - 1 \in 1 .. n - 1 /\ (j - 1) + 1 = j /\ i \in 1 .. j - 1
          /\ j - 1 \in 1 .. n
      BY <1>1, <3>3, <3>4
    <3>6. sorted[j - 1] <= sorted[j] /\ sorted[j - 1] \in Nat
      BY <1>4, <1>6, <3>5
    <3>7. j - 1 \notin T
      BY <1>1, <3>1, <3>3
    <3>8. ~ sorted[i] > sorted[j - 1]
      BY <3>5, <3>7
    <3> QED
      BY <3>2, <3>3, <3>6, <3>8
  <2> QED
    BY <2>1, <2>2
<1> QED
  BY <1>3, <1>4, <1>5, <1>7

(* The r-th element of a sorting is an r-th smallest sample.               *)
LEMMA SortingRanks ==
  ASSUME samples_ns \in SampleLists, NEW sorted \in Sortings,
         NEW r \in 1 .. sample_count
  PROVE  HasRank(sorted[r], r)
<1> DEFINE n == sample_count
           v == sorted[r]
           Below == {k \in DOMAIN samples_ns : samples_ns[k] < v}
           UpTo == {k \in DOMAIN samples_ns : samples_ns[k] <= v}
<1>1. n \in Nat /\ DOMAIN samples_ns = 1 .. n
      /\ \A k \in 1 .. n : samples_ns[k] \in Nat
  BY SampleFacts
<1>2. PICK p \in [1 .. n -> 1 .. n] :
        /\ \A i, j \in 1 .. n : i # j => p[i] # p[j]
        /\ \A k \in 1 .. n : \E i \in 1 .. n : k = p[i]
        /\ \A i \in 1 .. n : sorted[i] = samples_ns[p[i]] /\ sorted[i] \in Nat
        /\ \A i, j \in 1 .. n : i <= j => sorted[i] <= sorted[j]
  BY SortingFacts
<1>3. IsFiniteSet(1 .. n)
  BY <1>1, FS_Interval
<1>4. r \in Nat /\ r - 1 \in Nat /\ v \in Nat
  BY <1>1, <1>2
<1>5. Cardinality(Below) < r
  <2> DEFINE f == [i \in 1 .. r - 1 |-> p[i]]
             A == {f[i] : i \in 1 .. r - 1}
  <2>1. f \in [1 .. r - 1 -> 1 .. n]
    BY <1>1
  <2>2. Cardinality(A) <= r - 1
    <3> HIDE DEF f
    <3> QED
      BY <1>3, <1>4, <2>1, ImageFacts
  <2>3. A \subseteq 1 .. n
    BY <1>1
  <2>4. Below \subseteq A
    <3>1. ASSUME NEW k \in Below
          PROVE  k \in A
      <4>1. k \in 1 .. n /\ samples_ns[k] < v
        BY <1>1
      <4>2. PICK i \in 1 .. n : k = p[i]
        BY <1>2, <4>1
      <4>3. sorted[i] < v /\ sorted[i] \in Nat
        BY <1>2, <4>1, <4>2
      <4>4. ~ r <= i
        <5>1. r <= i => v <= sorted[i]
          BY <1>2
        <5> HIDE DEF v
        <5> QED
          BY <1>4, <4>3, <5>1
      <4>5. i \in 1 .. r - 1
        BY <1>1, <4>4
      <4> QED
        BY <4>2, <4>5
    <3> QED
      BY <3>1
  <2> HIDE DEF A, Below
  <2>5. IsFiniteSet(A)
    BY <1>3, <2>3, FS_Subset
  <2>6. IsFiniteSet(Below) /\ Cardinality(Below) <= Cardinality(A)
    BY <2>4, <2>5, FS_Subset
  <2>7. Cardinality(A) \in Nat /\ Cardinality(Below) \in Nat
    BY <2>5, <2>6, FS_CardinalityType
  <2> QED
    BY <1>4, <2>2, <2>6, <2>7
<1>6. r <= Cardinality(UpTo)
  <2> DEFINE g == [i \in 1 .. r |-> p[i]]
  <2>1. UpTo \subseteq 1 .. n
    BY <1>1
  <2>2. IsFiniteSet(UpTo)
    <3> HIDE DEF UpTo
    <3> QED
      BY <1>3, <2>1, FS_Subset
  <2>3. g \in [1 .. r -> UpTo]
    <3>1. ASSUME NEW i \in 1 .. r
          PROVE  p[i] \in UpTo
      <4>1. i \in 1 .. n /\ i <= r
        BY <1>1
      <4> QED
        BY <1>1, <1>2, <4>1
    <3> QED
      BY <3>1
  <2>4. \A i, j \in 1 .. r : i # j => g[i] # g[j]
    BY <1>1, <1>2
  <2> HIDE DEF g, UpTo
  <2> QED
    BY <1>4, <2>2, <2>3, <2>4, ImageFacts
<1> QED
  BY <1>5, <1>6 DEF HasRank

(* TwiceMedian is the sum of the two central elements of a sorting.        *)
LEMMA MedianFacts ==
  ASSUME sample_count \in Nat \ {0},
         \A i \in 1 .. sample_count : sorted_samples[i] \in Nat
  PROVE  LET lower == (sample_count + 1) \div 2
             upper == sample_count \div 2 + 1
         IN  /\ lower \in 1 .. sample_count /\ upper \in 1 .. sample_count
             /\ TwiceMedian = sorted_samples[lower] + sorted_samples[upper]
<1> DEFINE n == sample_count
           u == n \div 2
<1>1. n \in Nat \ {0} /\ u \in Nat
  BY Z3
<1>2. CASE n % 2 = 0
  <2>1. n = 2 * u /\ (n + 1) \div 2 = u
    BY <1>1, <1>2, Z3
  <2>2. u \in 1 .. n /\ u + 1 \in 1 .. n
    BY <1>1, <2>1
  <2>3. TwiceMedian = sorted_samples[u] + sorted_samples[u + 1]
    BY <1>2 DEF TwiceMedian
  <2> QED
    BY <2>1, <2>2, <2>3
<1>3. CASE n % 2 # 0
  <2>1. n = 2 * u + 1 /\ (n + 1) \div 2 = u + 1
    BY <1>1, <1>3, Z3
  <2>2. u + 1 \in 1 .. n
    BY <1>1, <2>1
  <2>3. TwiceMedian = 2 * sorted_samples[u + 1]
    BY <1>3 DEF TwiceMedian
  <2>4. sorted_samples[u + 1] \in Nat
    BY <2>2
  <2>5. TwiceMedian = sorted_samples[u + 1] + sorted_samples[u + 1]
    BY <2>3, <2>4
  <2> QED
    BY <2>1, <2>2, <2>5
<1> QED
  BY <1>2, <1>3

-----------------------------------------------------------------------------
(***************************************************************************)
(* The sum of the samples.                                                 *)
(***************************************************************************)

(* g is the sums of the first samples, up to m of them.                    *)
AreSums(g, m) ==
  /\ g \in [0 .. m -> Nat]
  /\ g[0] = 0
  /\ \A k \in 1 .. m : g[k] = g[k - 1] + samples_ns[k]

(* There are such sums for every number of samples there is.               *)
LEMMA SumsExist ==
  ASSUME samples_ns \in SampleLists
  PROVE  \E g : AreSums(g, sample_count)
<1> DEFINE n == sample_count
           Missing == {m \in 0 .. n : ~ \E g : AreSums(g, m)}
<1>1. n \in Nat /\ \A k \in 1 .. n : samples_ns[k] \in Nat
  BY SampleFacts
<1>2. ASSUME Missing # {}
      PROVE  FALSE
  <2>1. PICK m \in Missing : \A k \in Missing : m <= k
    <3>1. Missing \subseteq Nat
      BY <1>1
    <3> HIDE DEF Missing
    <3> QED
      BY <1>2, <3>1, LeastElement
  <2>2. m # 0
    <3>1. AreSums([k \in 0 .. 0 |-> 0], 0)
      BY DEF AreSums
    <3> QED
      BY <3>1
  <2>3. /\ m \in 1 .. n /\ m - 1 \in 0 .. n /\ ~ m <= m - 1
        /\ m - 1 \in Nat /\ m \in Nat
    BY <1>1, <2>2
  <2>4. PICK g : AreSums(g, m - 1)
    BY <2>1, <2>3
  <2> DEFINE x == samples_ns[m]
             h == [k \in 0 .. m |-> IF k = m THEN g[m - 1] + x ELSE g[k]]
  <2>5. /\ g \in [0 .. m - 1 -> Nat] /\ g[0] = 0 /\ x \in Nat
        /\ \A k \in 1 .. m - 1 : g[k] = g[k - 1] + samples_ns[k]
    BY <1>1, <2>3, <2>4 DEF AreSums
  <2>6. h \in [0 .. m -> Nat]
    <3>1. g[m - 1] \in Nat
      BY <2>3, <2>5
    <3>2. g[m - 1] + x \in Nat
      BY <2>5, <3>1
    <3>3. ASSUME NEW k \in 0 .. m, k # m
          PROVE  g[k] \in Nat
      <4>1. k \in 0 .. m - 1
        BY <2>3, <3>3
      <4> QED
        BY <2>5, <4>1
    <3> QED
      BY <3>2, <3>3
  <2>7. h[0] = 0
    BY <2>3, <2>5
  <2>8. ASSUME NEW k \in 1 .. m
        PROVE  h[k] = h[k - 1] + samples_ns[k]
    <3>1. k \in 0 .. m /\ k - 1 \in 0 .. m /\ k - 1 # m
      BY <2>3
    <3>2. CASE k = m
      BY <3>1, <3>2
    <3>3. CASE k # m
      <4>1. k \in 1 .. m - 1
        BY <2>3, <3>3
      <4> QED
        BY <2>5, <3>1, <3>3, <4>1
    <3> QED
      BY <3>2, <3>3
  <2>9. AreSums(h, m)
    <3> HIDE DEF h
    <3> QED
      BY <2>6, <2>7, <2>8 DEF AreSums
  <2> QED
    BY <2>1, <2>9
<1>3. n \in 0 .. n
  BY <1>1
<1> QED
  BY <1>2, <1>3

(* So SumTo is what its recursion says.                                    *)
LEMMA SumFacts ==
  ASSUME samples_ns \in SampleLists
  PROVE  /\ SumTo[0] = 0
         /\ \A k \in 1 .. sample_count : SumTo[k] = SumTo[k - 1] + samples_ns[k]
<1> DEFINE n == sample_count
           Sums(g) == [k \in 0 .. n |-> IF k = 0 THEN 0
                                        ELSE g[k - 1] + samples_ns[k]]
<1>1. n \in Nat
  BY SampleFacts
<1>2. PICK g : AreSums(g, n)
  BY SumsExist
<1>3. g = Sums(g)
  <2>1. /\ g \in [0 .. n -> Nat] /\ g[0] = 0
        /\ \A k \in 1 .. n : g[k] = g[k - 1] + samples_ns[k]
    BY <1>2 DEF AreSums
  <2>2. ASSUME NEW k \in 0 .. n
        PROVE  g[k] = IF k = 0 THEN 0 ELSE g[k - 1] + samples_ns[k]
    <3>1. k = 0 \/ k \in 1 .. n
      BY <1>1
    <3> QED
      BY <2>1, <3>1
  <2> QED
    BY <2>1, <2>2
<1>4. SumTo = Sums(SumTo)
  <2>1. SumTo = CHOOSE f : f = Sums(f)
    BY DEF SumTo
  <2> HIDE DEF Sums
  <2> QED
    BY <1>3, <2>1, Zenon
<1>5. 0 \in 0 .. n /\ \A k \in 1 .. n : k \in 0 .. n /\ k # 0
  BY <1>1
<1> HIDE DEF n
<1>6. ASSUME NEW k \in 0 .. n
      PROVE  SumTo[k] = IF k = 0 THEN 0 ELSE SumTo[k - 1] + samples_ns[k]
  BY <1>4
<1> QED
  BY <1>5, <1>6 DEF n

(* One more sample is added to the sum of those before it.                 *)
LEMMA AddKeepsTheSum ==
  ASSUME SummaryInv, Add, index <= sample_count
  PROVE  total' = SumTo[index' - 1] /\ total' \in Nat
<1>1. /\ total' = total + samples_ns[index] /\ index' = index + 1
      /\ total = SumTo[index - 1] /\ total \in Nat
  BY DEF Add, SummaryInv
<1>2. /\ sample_count \in Nat /\ index \in 1 .. sample_count
      /\ samples_ns[index] \in Nat
  BY SampleFacts DEF SummaryInv
<1>3. SumTo[index] = SumTo[index - 1] + samples_ns[index]
  BY <1>2, SumFacts DEF SummaryInv
<1>4. index' - 1 = index
  BY <1>1, <1>2
<1> QED
  BY <1>1, <1>2, <1>3, <1>4

-----------------------------------------------------------------------------
(***************************************************************************)
(* The steps.                                                              *)
(***************************************************************************)

LEMMA NextKeeps ==
  ASSUME SummaryInv, [Next]_vars
  PROVE  SummaryInv'
<1>1. /\ sample_count \in Nat /\ DOMAIN samples_ns = 1 .. sample_count
      /\ samples_ns' = samples_ns
  BY SampleFacts DEF SummaryInv, Next, Check, Sort, Add, Summarize, vars
<1>2. sample_count' = sample_count /\ Sortings' = Sortings
  BY <1>1 DEF sample_count, Sortings, Rearrangements
<1>3. SumTo' = SumTo
  BY <1>1, <1>2 DEF SumTo
<1>4. CASE Check
  BY <1>1, <1>2, <1>3, <1>4 DEF Check, SummaryInv
<1>5. CASE \E ok \in BOOLEAN : Sort(ok)
  BY <1>1, <1>2, <1>3, <1>5 DEF Sort, SummaryInv
<1>6. CASE Add
  <2>1. CASE index <= sample_count
    <3>1. total' = SumTo[index' - 1] /\ total' \in Nat
      BY <1>6, <2>1, AddKeepsTheSum
    <3>2. /\ index' = index + 1 /\ pc = "add" /\ pc' = pc
          /\ sorted_samples' = sorted_samples
      BY <1>6, <2>1 DEF Add
    <3>3. index' \in 1 .. sample_count + 1
      BY <1>1, <2>1, <3>2 DEF SummaryInv
    <3> QED
      BY <1>1, <1>2, <1>3, <3>1, <3>2, <3>3 DEF SummaryInv
  <2>2. CASE ~ index <= sample_count
    <3>1. /\ index' = index /\ total' = total /\ pc = "add"
          /\ pc' = "summarize" /\ sorted_samples' = sorted_samples
      BY <1>6, <2>2 DEF Add
    <3>2. index = sample_count + 1
      BY <1>1, <2>2 DEF SummaryInv
    <3> QED
      BY <1>1, <1>2, <1>3, <3>1, <3>2 DEF SummaryInv
  <2> QED
    BY <2>1, <2>2
<1>7. CASE Summarize
  <2>1. /\ pc = "summarize" /\ pc' = "returned" /\ index' = index
        /\ total' = total /\ sorted_samples' = sorted_samples
        /\ summary' = [min_ns |-> sorted_samples[1],
                       twice_median_ns |-> TwiceMedian, total_ns |-> total]
    BY <1>7 DEF Summarize
  <2>2. TwiceMedian' = TwiceMedian
    BY <1>2, <2>1 DEF TwiceMedian
  <2> QED
    BY <1>1, <1>2, <1>3, <2>1, <2>2 DEF SummaryInv
<1>8. CASE UNCHANGED vars
  <2>1. TwiceMedian' = TwiceMedian
    BY <1>2, <1>8 DEF TwiceMedian, vars
  <2> QED
    BY <1>1, <1>2, <1>3, <1>8, <2>1 DEF SummaryInv, vars
<1> QED
  BY <1>4, <1>5, <1>6, <1>7, <1>8 DEF Next

-----------------------------------------------------------------------------
(***************************************************************************)
(* The theorems.                                                           *)
(***************************************************************************)

(* The copy is sorted before it is read, and total is the sum of as many   *)
(* samples as the loop has passed (benchmark_runner.c:106-155).            *)
THEOREM SummaryIsInvariant == Spec => []SummaryInv
<1>1. Init => SummaryInv
  <2> SUFFICES ASSUME Init PROVE SummaryInv
    OBVIOUS
  <2>1. sample_count \in Nat
    BY SampleFacts DEF Init
  <2>2. SumTo[0] = 0 /\ 1 - 1 = 0
    BY SumFacts DEF Init
  <2> QED
    BY <2>1, <2>2 DEF Init, SummaryInv
<1>2. SummaryInv /\ [Next]_vars => SummaryInv'
  BY NextKeeps
<1> QED
  BY <1>1, <1>2, PTL DEF Spec

(* The minimum, the median and the mean are those of the samples, for any  *)
(* number of them in any order and any sorting qsort may choose            *)
(* (benchmark.h:80-84, :126-145).                                          *)
THEOREM SummariesAreExact == Spec => []SummaryIsExact
<1>1. ASSUME SummaryInv
      PROVE  SummaryIsExact
  <2> SUFFICES ASSUME pc = "returned"
               PROVE  SummaryIsExact
    BY DEF SummaryIsExact
  <2> DEFINE n == sample_count
             s == sorted_samples
             lower == (n + 1) \div 2
             upper == n \div 2 + 1
  <2>1. /\ samples_ns \in SampleLists /\ s \in Sortings
        /\ n # 0 /\ index = n + 1 /\ total = SumTo[index - 1]
        /\ summary = [min_ns |-> s[1], twice_median_ns |-> TwiceMedian,
                      total_ns |-> total]
    BY <1>1 DEF SummaryInv
  <2>2. /\ n \in Nat \ {0} /\ DOMAIN samples_ns = 1 .. n
        /\ \A k \in DOMAIN samples_ns : samples_ns[k] \in Nat
    BY <2>1, SampleFacts
  <2>3. PICK p \in [1 .. n -> 1 .. n] :
          /\ \A k \in 1 .. n : \E i \in 1 .. n : k = p[i]
          /\ \A i \in 1 .. n : s[i] = samples_ns[p[i]] /\ s[i] \in Nat
          /\ \A i, j \in 1 .. n : i <= j => s[i] <= s[j]
    BY <2>1, SortingFacts
  <2>4. \A r \in 1 .. n : HasRank(s[r], r)
    BY <2>1, SortingRanks
  <2>5. 1 \in 1 .. n /\ n \in 1 .. n
    BY <2>2
  <2>6. /\ lower \in 1 .. n /\ upper \in 1 .. n
        /\ TwiceMedian = s[lower] + s[upper]
    BY <2>2, <2>3, MedianFacts
  <2> HIDE DEF n, s
  <2>7. HasRank(summary.min_ns, 1)
    BY <2>1, <2>4, <2>5
  <2>8. \E i, j \in DOMAIN samples_ns :
          /\ HasRank(samples_ns[i], lower)
          /\ HasRank(samples_ns[j], upper)
          /\ summary.twice_median_ns = samples_ns[i] + samples_ns[j]
    <3> HIDE DEF lower, upper
    <3>1. p[lower] \in DOMAIN samples_ns /\ p[upper] \in DOMAIN samples_ns
      BY <2>2, <2>3, <2>6
    <3>2. s[lower] = samples_ns[p[lower]] /\ s[upper] = samples_ns[p[upper]]
      BY <2>3, <2>6
    <3> QED
      BY <2>1, <2>4, <2>6, <3>1, <3>2
  <2>9. summary.total_ns = SumTo[n]
    <3>1. index - 1 = n
      BY <2>1, <2>2
    <3> QED
      BY <2>1, <3>1
  <2> QED
    BY <2>7, <2>8, <2>9 DEF SummaryIsExact, n
<1> QED
  BY <1>1, SummaryIsInvariant, PTL
================================================================================
