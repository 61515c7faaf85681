--------------------------- MODULE ElapsedTimeProofs ---------------------------
(***************************************************************************)
(* rct_elapsed_ns is exact for every width of its integers and every       *)
(* length of a second.                                                     *)
(***************************************************************************)
EXTENDS ElapsedTime, TLAPS

(* A number that fits is not changed by the conversion.                    *)
LEMMA FittingIsKept ==
  ASSUME NEW x \in Int, 0 <= x, x <= U64Max
  PROVE  U64(x) = x
<1>1. U64Max + 1 \in Nat \ {0} /\ x \in 0 .. (U64Max + 1) - 1
  BY WidthAssumption
<1>2. \A N \in Nat \ {0} : \A y \in 0 .. N - 1 : y % N = y
  BY Z3
<1> QED
  BY <1>1, <1>2 DEF U64

(* A small negative number wraps around once.                              *)
LEMMA NegativeWraps ==
  ASSUME NEW x \in Int, x < 0, -U64Max <= x
  PROVE  U64(x) = x + (U64Max + 1)
<1>1. \A N \in Nat \ {0} : \A y \in Int : -N <= y /\ y < 0 => y % N = y + N
  BY Z3
<1>2. U64Max + 1 \in Nat \ {0} /\ -(U64Max + 1) <= x
  BY WidthAssumption
<1> QED
  BY <1>1, <1>2 DEF U64

(* A number just beyond the width wraps back.                              *)
LEMMA ExcessWraps ==
  ASSUME NEW x \in Nat, x <= U64Max
  PROVE  U64(x + (U64Max + 1)) = x
<1>1. \A N \in Nat \ {0} : \A y \in 0 .. N - 1 : (y + N) % N = y
  BY Z3
<1>2. U64Max + 1 \in Nat \ {0} /\ x \in 0 .. (U64Max + 1) - 1
  BY WidthAssumption
<1> QED
  BY <1>1, <1>2 DEF U64

(* The bound on the seconds is the bound on the combined difference.       *)
LEMMA BoundIsExact ==
  ASSUME NEW s \in Nat, NEW n \in Nat, n < Second
  PROVE  ~ (s > (U64Max - n) \div Second) <=> s * Second + n <= U64Max
<1> DEFINE room == U64Max - n
<1> DEFINE q == room \div Second
<1>1. room \in Nat /\ Second \in Nat \ {0}
  BY SecondAssumption, WidthAssumption
<1>2. q \in Nat /\ q * Second <= room /\ room < q * Second + Second
  <2>1. \A N \in Nat \ {0} : \A x \in Nat :
          x \div N \in Nat /\ (x \div N) * N <= x /\ x < (x \div N) * N + N
    BY Z3
  <2> QED
    BY <1>1, <2>1
<1>3. \A a, b \in Nat : a <= b => a * Second <= b * Second
  BY <1>1, Z3
<1> HIDE DEF q
<1>4. CASE s <= q
  <2>1. s * Second <= q * Second
    BY <1>2, <1>3, <1>4
  <2>2. s * Second \in Nat /\ q * Second \in Nat
    BY <1>1, <1>2, Z3
  <2>3. s * Second <= room
    BY <1>1, <1>2, <2>1, <2>2
  <2>4. s * Second + n <= U64Max
    BY <2>2, <2>3, WidthAssumption
  <2> QED
    BY <1>2, <1>4, <2>4 DEF q
<1>5. CASE s > q
  <2>1. (q + 1) * Second <= s * Second
    BY <1>2, <1>3, <1>5
  <2>2. (q + 1) * Second = q * Second + Second
    BY <1>1, <1>2, Z3
  <2>3. s * Second \in Nat /\ q * Second \in Nat
    BY <1>1, <1>2, Z3
  <2>4. room < s * Second
    BY <1>1, <1>2, <2>1, <2>2, <2>3
  <2>5. ~ (s * Second + n <= U64Max)
    BY <2>3, <2>4, WidthAssumption
  <2> QED
    BY <1>2, <1>5, <2>5 DEF q
<1> QED
  BY <1>2, <1>4, <1>5

(* The reads are integers and a difference of their seconds fits.          *)
LEMMA ReadTypes ==
  ASSUME TypeOK
  PROVE  /\ start.tv_sec \in Nat /\ end.tv_sec \in Nat
         /\ start.tv_nsec \in Int /\ end.tv_nsec \in Int
         /\ start.tv_sec <= U64Max /\ end.tv_sec <= U64Max
<1>1. U64Max \div 2 \in Nat /\ U64Max \div 2 <= U64Max
  BY WidthAssumption, Z3
<1>2. /\ start \in [tv_sec : 0 .. U64Max \div 2, tv_nsec : Int]
      /\ end \in [tv_sec : 0 .. U64Max \div 2, tv_nsec : Int]
  BY ReadsAssumption DEF TypeOK
<1> QED
  BY <1>1, <1>2, WidthAssumption

(* The true difference, second by second.                                  *)
LEMMA DifferenceSplits ==
  ASSUME TypeOK
  PROVE  /\ Difference = (end.tv_sec - start.tv_sec) * Second
                         + (end.tv_nsec - start.tv_nsec)
         /\ Difference \in Int
<1>1. /\ start.tv_sec \in Int /\ end.tv_sec \in Int
      /\ start.tv_nsec \in Int /\ end.tv_nsec \in Int /\ Second \in Int
  BY ReadTypes, SecondAssumption
<1>2. \A a, b \in Int : (a - b) * Second = a * Second - b * Second
  BY <1>1, Z3
<1>3. \A a \in Int : a * Second \in Int
  BY <1>1, Z3
<1> QED
  BY <1>1, <1>2, <1>3 DEF Difference, Moment

-----------------------------------------------------------------------------
(* Reads that are out of order have a negative difference.                 *)
LEMMA DisorderIsNegative ==
  ASSUME TypeOK, NanosecondsAreValid(start), NanosecondsAreValid(end),
         ~ ReadsAreInOrder
  PROVE  Difference < 0
<1> DEFINE ds == end.tv_sec - start.tv_sec
<1> DEFINE dn == end.tv_nsec - start.tv_nsec
<1>1. /\ ds \in Int /\ dn \in Int /\ dn < Second
      /\ ds < 0 \/ (ds = 0 /\ dn < 0)
  BY ReadTypes, SecondAssumption DEF ReadsAreInOrder, NanosecondsAreValid
<1>2. Difference = ds * Second + dn
  BY DifferenceSplits
<1> HIDE DEF ds, dn
<1>3. CASE ds < 0
  <2>1. ds * Second <= -Second
    BY <1>1, <1>3, SecondAssumption, Z3
  <2>2. ds * Second \in Int
    BY <1>1, SecondAssumption, Z3
  <2> QED
    BY <1>1, <1>2, <2>1, <2>2, SecondAssumption
<1>4. CASE ds = 0 /\ dn < 0
  BY <1>1, <1>2, <1>4, SecondAssumption
<1> QED
  BY <1>1, <1>3, <1>4

(* The subtraction of the seconds, and of nanoseconds in order, is exact.  *)
LEMMA SubtractIsExact ==
  ASSUME TypeOK, ReadsAreInOrder
  PROVE  /\ U64(end.tv_sec - start.tv_sec) = end.tv_sec - start.tv_sec
         /\ end.tv_sec - start.tv_sec \in Nat
         /\ end.tv_nsec >= start.tv_nsec =>
              /\ U64(end.tv_nsec - start.tv_nsec) = end.tv_nsec - start.tv_nsec
              /\ end.tv_nsec - start.tv_nsec \in Nat
              /\ end.tv_nsec - start.tv_nsec < Second
<1>1. /\ end.tv_sec - start.tv_sec \in Nat
      /\ end.tv_sec - start.tv_sec <= U64Max
  BY ReadTypes, WidthAssumption DEF ReadsAreInOrder
<1>2. ASSUME end.tv_nsec >= start.tv_nsec
      PROVE  /\ end.tv_nsec - start.tv_nsec \in Nat
             /\ end.tv_nsec - start.tv_nsec < Second
             /\ end.tv_nsec - start.tv_nsec <= U64Max
  BY <1>2, ReadTypes, SecondAssumption, WidthAssumption
  DEF ReadsAreInOrder, NanosecondsAreValid
<1> QED
  BY <1>1, <1>2, FittingIsKept

(* With a second borrowed the wrapped nanoseconds are exact again.         *)
LEMMA BorrowIsExact ==
  ASSUME TypeOK, ReadsAreInOrder, end.tv_nsec < start.tv_nsec
  PROVE  LET n == U64(Second + U64(end.tv_nsec - start.tv_nsec))
         IN  /\ n = Second + (end.tv_nsec - start.tv_nsec)
             /\ n \in Nat
             /\ n < Second
<1> DEFINE d == end.tv_nsec - start.tv_nsec
<1>1. d \in Int /\ d < 0 /\ -Second < d
  BY ReadTypes, SecondAssumption DEF ReadsAreInOrder, NanosecondsAreValid
<1> HIDE DEF d
<1>2. -U64Max <= d
  BY <1>1, SecondAssumption, WidthAssumption
<1>3. U64(d) = d + (U64Max + 1)
  BY <1>1, <1>2, NegativeWraps
<1>4. /\ Second + d \in Nat /\ Second + d <= U64Max /\ Second + d < Second
      /\ Second + (d + (U64Max + 1)) = (Second + d) + (U64Max + 1)
  BY <1>1, SecondAssumption, WidthAssumption
<1>5. U64(Second + U64(d)) = Second + d
  BY <1>3, <1>4, ExcessWraps
<1> QED
  BY <1>4, <1>5 DEF d

-----------------------------------------------------------------------------
(* The locals hold what they should at every step.                         *)
THEOREM ElapsedIsInvariant == Spec => []ElapsedInv
<1> USE DEF ElapsedInv
<1>1. Init => ElapsedInv
  <2> SUFFICES ASSUME Init PROVE ElapsedInv
    OBVIOUS
  <2>1. TypeOK
    BY DEF Init, TypeOK
  <2>2. StepInv /\ RefusalIsNeeded
    BY DEF Init, StepInv, RefusalIsNeeded
  <2>3. ~ accepted
    BY DEF Init
  <2> QED
    BY <2>1, <2>2, <2>3 DEF SampleIsExact
<1>2. ElapsedInv /\ [Next]_vars => ElapsedInv'
  <2> SUFFICES ASSUME ElapsedInv, [Next]_vars PROVE ElapsedInv'
    OBVIOUS
  <2>1. CASE Check
    <3>1. pc' = "done" =>
            \/ ~ NanosecondsAreValid(start)
            \/ ~ NanosecondsAreValid(end)
            \/ Difference < 0
      BY <2>1, DisorderIsNegative DEF Check
    <3> QED
      BY <2>1, <3>1
      DEF Check, TypeOK, StepInv, SampleIsExact, RefusalIsNeeded, Difference,
          Moment, NanosecondsAreValid, ReadsAreInOrder
  <2>2. CASE Subtract
    <3>1. ReadsAreInOrder
      BY <2>2 DEF Subtract, StepInv
    <3>2. seconds' = end.tv_sec - start.tv_sec /\ seconds' \in Nat
      BY <2>2, <3>1, SubtractIsExact DEF Subtract
    <3>3. CASE end.tv_nsec >= start.tv_nsec
      <4>1. /\ nanoseconds' = end.tv_nsec - start.tv_nsec
            /\ nanoseconds' \in Nat /\ nanoseconds' < Second
        BY <2>2, <3>1, <3>3, SubtractIsExact DEF Subtract
      <4>2. seconds' * Second + nanoseconds' = Difference
        BY <3>2, <4>1, DifferenceSplits
      <4> QED
        BY <2>2, <3>1, <3>2, <3>3, <4>1, <4>2
        DEF Subtract, TypeOK, StepInv, SampleIsExact, RefusalIsNeeded,
            Difference, Moment, NanosecondsAreValid, ReadsAreInOrder
    <3>4. CASE ~ (end.tv_nsec >= start.tv_nsec)
      <4>1. end.tv_nsec < start.tv_nsec
        BY <3>4, ReadTypes
      <4> QED
        BY <2>2, <3>1, <3>2, <3>4, <4>1
        DEF Subtract, TypeOK, StepInv, SampleIsExact, RefusalIsNeeded,
            NanosecondsAreValid, ReadsAreInOrder
    <3> QED
      BY <3>3, <3>4
  <2>3. CASE Borrow
    <3>1. /\ ReadsAreInOrder /\ end.tv_nsec < start.tv_nsec
          /\ seconds = end.tv_sec - start.tv_sec /\ seconds \in Nat
      BY <2>3 DEF Borrow, StepInv, TypeOK
    <3>2. seconds # 0
      BY <3>1, ReadTypes DEF ReadsAreInOrder
    <3>3. /\ nanoseconds' = Second + (end.tv_nsec - start.tv_nsec)
          /\ nanoseconds' \in Nat /\ nanoseconds' < Second
      BY <2>3, <3>1, <3>2, BorrowIsExact DEF Borrow
    <3>4. seconds - 1 \in Nat /\ seconds - 1 <= U64Max
      BY <3>1, <3>2, ReadTypes, WidthAssumption
    <3>5. seconds' = seconds - 1
      BY <2>3, <3>2, <3>4, FittingIsKept DEF Borrow
    <3>6. seconds' * Second + nanoseconds' = Difference
      <4>1. (seconds - 1) * Second = seconds * Second - Second
        BY <3>1, SecondAssumption, Z3
      <4>2. seconds * Second \in Int
        BY <3>1, SecondAssumption, Z3
      <4>3. Difference = seconds * Second + (end.tv_nsec - start.tv_nsec)
        BY <3>1, DifferenceSplits
      <4> QED
        BY <3>3, <3>5, <4>1, <4>2, <4>3, ReadTypes, SecondAssumption
    <3>7. pc' = "combine" /\ UNCHANGED <<start, end, accepted, elapsed>>
      BY <2>3, <3>2 DEF Borrow
    <3>8. Difference' = Difference /\ ReadsAreInOrder'
      BY <3>1, <3>7
      DEF Difference, Moment, ReadsAreInOrder, NanosecondsAreValid
    <3> QED
      BY <2>3, <3>3, <3>4, <3>5, <3>6, <3>7, <3>8
      DEF Borrow, TypeOK, StepInv, SampleIsExact, RefusalIsNeeded
  <2>4. CASE Combine
    <3>1. /\ seconds * Second + nanoseconds = Difference
          /\ nanoseconds < Second /\ seconds \in Nat /\ nanoseconds \in Nat
      BY <2>4 DEF Combine, StepInv, TypeOK
    <3>2. DifferenceFits <=> Difference <= U64Max
      BY <3>1, BoundIsExact DEF DifferenceFits
    <3>3. seconds * Second \in Nat
      BY <3>1, SecondAssumption, Z3
    <3>4. Difference' = Difference
      BY <2>4 DEF Combine, Difference, Moment
    <3>5. CASE DifferenceFits
      <4>1. /\ U64(seconds * Second) = seconds * Second
            /\ U64(seconds * Second + nanoseconds) = Difference
            /\ Difference \in 0 .. U64Max
        BY <3>1, <3>2, <3>3, <3>5, FittingIsKept, WidthAssumption
      <4>2. elapsed' = Difference /\ accepted' = TRUE /\ pc' = "done"
        BY <2>4, <3>5, <4>1 DEF Combine
      <4> QED
        BY <2>4, <3>4, <4>1, <4>2
        DEF Combine, TypeOK, StepInv, SampleIsExact, RefusalIsNeeded
    <3>6. CASE ~ DifferenceFits
      <4>1. Difference > U64Max
        BY <3>1, <3>2, <3>3, <3>6, WidthAssumption
      <4>2. accepted' = accepted /\ ~ accepted /\ pc' = "done"
        BY <2>4, <3>6 DEF Combine
      <4> QED
        BY <2>4, <3>4, <3>6, <4>1, <4>2
        DEF Combine, TypeOK, StepInv, SampleIsExact, RefusalIsNeeded
    <3> QED
      BY <3>5, <3>6
  <2>5. CASE UNCHANGED vars
    BY <2>5
    DEF vars, TypeOK, StepInv, SampleIsExact, RefusalIsNeeded, Difference,
        Moment, NanosecondsAreValid, ReadsAreInOrder
  <2> QED
    BY <2>1, <2>2, <2>3, <2>4, <2>5 DEF Next
<1> QED
  BY <1>1, <1>2, PTL DEF Spec

(* A sample is the true time between its two clock reads.                  *)
THEOREM SamplesAreExact == Spec => []SampleIsExact
  BY ElapsedIsInvariant, PTL DEF ElapsedInv

(* No measurable interval is refused.                                      *)
THEOREM RefusalsAreNeeded == Spec => []RefusalIsNeeded
  BY ElapsedIsInvariant, PTL DEF ElapsedInv
================================================================================
