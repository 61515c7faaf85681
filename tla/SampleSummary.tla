----------------------------- MODULE SampleSummary -----------------------------
(***************************************************************************)
(* rct_benchmark_summarize_samples of src/benchmark/benchmark_runner.c:    *)
(* the minimum, the median and the mean of the samples of one              *)
(* implementation, by way of a sorted copy.                                *)
(*                                                                         *)
(* Samples are unsigned integers; the doubles of the code are exact here,  *)
(* the median as its double and the mean as the total, so that both are    *)
(* integers.  The rounding of doubles beyond 2^53 ns is not modelled.      *)
(***************************************************************************)
EXTENDS Integers, Sequences, FiniteSets

CONSTANTS
  SampleLists,  \* the samples a call may be given
  SizeMax,      \* SIZE_MAX
  SampleSize,   \* sizeof(uint64_t)
  IntMax        \* INT_MAX

ASSUME ListsAssumption == SampleLists \subseteq Seq(Nat)
ASSUME SizesAssumption == /\ SizeMax \in Nat
                          /\ SampleSize \in Nat \ {0}
                          /\ IntMax \in Nat \ {0}

VARIABLES
  pc,              \* the next step, "returned" or "failed"
  samples_ns,      \* the argument
  sorted_samples,  \* the copy
  index,           \* the loop variable, from 1
  total,           \* the sum of the samples before index
  summary          \* *summary

vars == <<pc, samples_ns, sorted_samples, index, total, summary>>

sample_count == Len(samples_ns)

Unknown == [min_ns |-> 0, twice_median_ns |-> 0, total_ns |-> 0]

MultiplyFits(left, right) == ~ (left # 0 /\ right > SizeMax \div left)

(* Mutant: the difference of the two values, narrowed to an int.           *)
CompareByDifference(left, right) ==
  ((left - right + IntMax + 1) % (2 * (IntMax + 1))) - IntMax - 1

Compare(left, right) ==
  (IF left > right THEN 1 ELSE 0) - (IF left < right THEN 1 ELSE 0)

(* What qsort may leave: the same samples, no neighbours out of order.     *)
Rearrangements ==
  {p \in [1 .. sample_count -> 1 .. sample_count] :
     \A i, j \in 1 .. sample_count : i # j => p[i] # p[j]}

Sortings ==
  {sorted \in {[i \in 1 .. sample_count |-> samples_ns[p[i]]] :
                 p \in Rearrangements} :
     \A i \in 1 .. sample_count - 1 : Compare(sorted[i], sorted[i + 1]) <= 0}

-----------------------------------------------------------------------------
Init ==
  /\ pc = "check"
  /\ samples_ns \in SampleLists
  /\ sorted_samples = <<>>
  /\ index = 1
  /\ total = 0
  /\ summary = Unknown

Check ==
  /\ pc = "check"
  /\ pc' = IF sample_count # 0 /\ MultiplyFits(sample_count, SampleSize)
           THEN "sort" ELSE "failed"
  /\ UNCHANGED <<samples_ns, sorted_samples, index, total, summary>>

(* malloc, memcpy and qsort.                                               *)
Sort(ok) ==
  /\ pc = "sort"
  /\ IF ok
     THEN pc' = "add" /\ sorted_samples' \in Sortings
     ELSE pc' = "failed" /\ UNCHANGED sorted_samples
  /\ UNCHANGED <<samples_ns, index, total, summary>>

Add ==
  /\ pc = "add"
  /\ IF index <= sample_count
     THEN /\ total' = total + samples_ns[index]
          /\ index' = index + 1
          /\ UNCHANGED pc
     ELSE pc' = "summarize" /\ UNCHANGED <<index, total>>
  /\ UNCHANGED <<samples_ns, sorted_samples, summary>>

(* sorted_samples counts from 1 and the code from 0.                       *)
TwiceMedian ==
  LET upper_index == sample_count \div 2
  IN  IF sample_count % 2 = 0
      THEN sorted_samples[upper_index] + sorted_samples[upper_index + 1]
      ELSE 2 * sorted_samples[upper_index + 1]

Summarize ==
  /\ pc = "summarize"
  /\ pc' = "returned"
  /\ summary' = [min_ns |-> sorted_samples[1],
                 twice_median_ns |-> TwiceMedian, total_ns |-> total]
  /\ UNCHANGED <<samples_ns, sorted_samples, index, total>>

Next == Check \/ (\E ok \in BOOLEAN : Sort(ok)) \/ Add \/ Summarize

Spec == Init /\ [][Next]_vars

-----------------------------------------------------------------------------
(* The value v is the r-th smallest sample.                                *)
HasRank(v, r) ==
  /\ Cardinality({k \in DOMAIN samples_ns : samples_ns[k] < v}) < r
  /\ r <= Cardinality({k \in DOMAIN samples_ns : samples_ns[k] <= v})

(* The sum of the first n samples.                                         *)
SumTo[n \in 0 .. sample_count] ==
  IF n = 0 THEN 0 ELSE SumTo[n - 1] + samples_ns[n]

(* The summary is that of the samples, whatever their order, their number  *)
(* and their repetitions: the minimum is the smallest, the median the mean *)
(* of the two central ones (which are one if the count is odd), and the    *)
(* mean that of all of them (benchmark.h:80-84, :126-145).                 *)
SummaryIsExact ==
  pc = "returned" =>
    LET n == sample_count
    IN  /\ HasRank(summary.min_ns, 1)
        /\ \E i, j \in DOMAIN samples_ns :
             /\ HasRank(samples_ns[i], (n + 1) \div 2)
             /\ HasRank(samples_ns[j], n \div 2 + 1)
             /\ summary.twice_median_ns = samples_ns[i] + samples_ns[j]
        /\ summary.total_ns = SumTo[n]
-----------------------------------------------------------------------------
(***************************************************************************)
(* What holds of every state.                                              *)
(***************************************************************************)

SummaryInv ==
  /\ pc \in {"check", "sort", "add", "summarize", "returned", "failed"}
  /\ samples_ns \in SampleLists
  /\ index \in 1 .. sample_count + 1
  /\ total \in Nat
  /\ total = SumTo[index - 1]
  /\ pc \notin {"check", "failed"} => sample_count # 0
  /\ pc \in {"add", "summarize", "returned"} => sorted_samples \in Sortings
  /\ pc \in {"summarize", "returned"} => index = sample_count + 1
  /\ pc = "returned" =>
       summary = [min_ns |-> sorted_samples[1],
                  twice_median_ns |-> TwiceMedian, total_ns |-> total]
================================================================================
