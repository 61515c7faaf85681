---------------------------- MODULE InputGenerator ----------------------------
(***************************************************************************)
(* rct_fill_vector_add_f32_inputs of src/benchmark/input.c, with SplitMix64*)
(* as it is: all its 64 bits.                                              *)
(*                                                                         *)
(* A word is the set of the places of its one bits, so that ^ is symmetric *)
(* difference and >> moves places; + and * add up the columns of the sum,  *)
(* carry to the next column and drop what leaves the word.                 *)
(***************************************************************************)
EXTENDS Integers, FiniteSets, PowersOfTwo

CONSTANTS
  Seeds,    \* the seeds a run is given, as words
  Lengths   \* the lengths of the vectors

Width == 64
Places == 0 .. Width - 1

ASSUME SeedsAssumption == Seeds \subseteq SUBSET Places
ASSUME LengthsAssumption == Lengths \subseteq Nat

VARIABLES
  seed, length,  \* the arguments
  state,         \* the generator's state
  input_index,   \* the loop's index
  lhs, rhs,      \* the vectors: an element is counted in 2^-23
  target         \* which store is next: "lhs", "rhs" or none, "done"

generatorVars == <<seed, length, state, input_index, lhs, rhs, target>>

-----------------------------------------------------------------------------
(* The word written as 16 hexadecimal digits.                              *)
Hex(digits) ==
  {b \in Places : (digits[16 - b \div 4] \div TwoTo[b % 4]) % 2 = 1}

Xor(x, y) == (x \ y) \cup (y \ x)

ShiftRight(x, n) == {b - n : b \in {c \in x : c >= n}}

(* What is carried into each column of a sum.                              *)
Carries(column) ==
  LET carry[b \in 0 .. Width] ==
        IF b = 0 THEN 0 ELSE (column[b - 1] + carry[b - 1]) \div 2
  IN  carry

(* The word that is the sum of column[b] * 2^b, modulo 2^Width.            *)
Carried(column) ==
  LET carry == Carries(column)
  IN  {b \in Places : (column[b] + carry[b]) % 2 = 1}

Bit(x, b) == IF b \in x THEN 1 ELSE 0

Add(x, y) == Carried([b \in Places |-> Bit(x, b) + Bit(y, b)])

Multiply(x, y) ==
  Carried([b \in Places |-> Cardinality({c \in x : c <= b /\ b - c \in y})])

(* The number a word stands for, where it is small.                        *)
NumberOf(x) ==
  LET below[b \in 0 .. Width] ==
        IF b = 0 THEN 0
        ELSE IF b - 1 \in x THEN below[b - 1] + TwoTo[b - 1]
        ELSE below[b - 1]
  IN  below[Width]

-----------------------------------------------------------------------------
Gamma == Hex(<<9, 14, 3, 7, 7, 9, 11, 9, 7, 15, 4, 10, 7, 12, 1, 5>>)
Factor1 == Hex(<<11, 15, 5, 8, 4, 7, 6, 13, 1, 12, 14, 4, 14, 5, 11, 9>>)
Factor2 == Hex(<<9, 4, 13, 0, 4, 9, 11, 11, 1, 3, 3, 1, 1, 1, 14, 11>>)

XorShift(x, n) == Xor(x, ShiftRight(x, n))

(* Mutant: the first two shifts are swapped.                               *)
MixWithSwappedShifts(x) ==
  XorShift(
    Multiply(XorShift(Multiply(XorShift(x, 27), Factor1), 30), Factor2), 31)

(* rct_splitmix64_next, given the state it has advanced to.  Its last      *)
(* shift does not reach the bits that a sample keeps.                      *)
Mix(x) ==
  XorShift(
    Multiply(XorShift(Multiply(XorShift(x, 30), Factor1), 27), Factor2), 31)

(* Mutant: one bit more is kept.                                           *)
SampleOf25Bits(x) == NumberOf(ShiftRight(Mix(x), 39)) - TwoTo[23]

(* rct_sample_f32: its product and its difference are exact, a float has   *)
(* 24 bits.                                                                *)
Sample(x) == NumberOf(ShiftRight(Mix(x), 40)) - TwoTo[23]

Unwritten == TwoTo[24]

GeneratorInit ==
  /\ seed \in Seeds
  /\ length \in Lengths
  /\ state = seed
  /\ input_index = 0
  /\ lhs = [i \in 0 .. length - 1 |-> Unwritten]
  /\ rhs = lhs
  /\ target = IF length = 0 THEN "done" ELSE "lhs"

(* Mutant: the generator advances a copy of its state.                     *)
FillLhsFromCopy ==
  /\ target = "lhs"
  /\ lhs' = [lhs EXCEPT ![input_index] = Sample(Add(state, Gamma))]
  /\ target' = "rhs"
  /\ UNCHANGED <<seed, length, state, input_index, rhs>>

FillLhs ==
  /\ target = "lhs"
  /\ state' = Add(state, Gamma)
  /\ lhs' = [lhs EXCEPT ![input_index] = Sample(state')]
  /\ target' = "rhs"
  /\ UNCHANGED <<seed, length, input_index, rhs>>

FillRhs ==
  /\ target = "rhs"
  /\ state' = Add(state, Gamma)
  /\ rhs' = [rhs EXCEPT ![input_index] = Sample(state')]
  /\ input_index' = input_index + 1
  /\ target' = IF input_index + 1 < length THEN "lhs" ELSE "done"
  /\ UNCHANGED <<seed, length, lhs>>

GeneratorNext == FillLhs \/ FillRhs

GeneratorSpec == GeneratorInit /\ [][GeneratorNext]_generatorVars

-----------------------------------------------------------------------------
IsElement(e) == e = Unwritten \/ (- TwoTo[23] <= e /\ e < TwoTo[23])

(* Every element written is in [-1, 1), in steps of 2^-23, which a float   *)
(* holds exactly (input.c:15-18).                                          *)
GeneratorTypeOK ==
  /\ seed \in Seeds
  /\ length \in Lengths
  /\ state \subseteq Places
  /\ input_index \in 0 .. length
  /\ \A v \in {lhs, rhs} :
       /\ DOMAIN v = 0 .. length - 1
       /\ \A i \in DOMAIN v : IsElement(v[i])
  /\ target \in {"lhs", "rhs", "done"}

(* The word of a number, modulo 2^Width: that many ones in one column.     *)
Word(n) == Carried([b \in Places |-> IF b = 0 THEN n ELSE 0])

(* The state after n steps from a seed, and the sample it is mixed to.     *)
StateAt(start, n) == Add(start, Multiply(Word(n), Gamma))

Draw(start, n) == Sample(StateAt(start, n))

(* When the vectors are filled, every element depends on the seed and its  *)
(* own index alone, not on the length, and lhs and rhs share no draw: the  *)
(* fixtures the implementations are set up with are all the same           *)
(* (input.c:20-32, vector_add_workload.c).                                 *)
DrawsAreIndexed ==
  target = "done" =>
    \A i \in 0 .. length - 1 :
      /\ lhs[i] = Draw(seed, 2 * i + 1)
      /\ rhs[i] = Draw(seed, 2 * i + 2)

(* The seed of tests/c/test_portable_vector_add.c:139 and the values it    *)
(* expects of it at lines 148 to 153, before 1.0 is subtracted.            *)
GoldenSeed == Hex([d \in 1 .. 16 |-> d - 1])
GoldenLhs == <<{20, 18, 16, 14, 13, 12, 11, 9, 5, 4, 3},
               {21, 19, 18, 17, 16, 15, 12, 7, 5, 4, 2, 1, 0},
               {16, 14, 6, 3, 2}>>
GoldenRhs == <<{23, 22, 20, 18, 16, 14, 13, 12, 9, 8, 6, 4, 1},
               {23, 21, 17, 15, 14, 12, 10, 4, 3, 0},
               {20, 18, 15, 13, 12, 11, 10, 6, 4, 2, 1, 0}>>

(* The wrap-around of every addition and multiplication and every shift is *)
(* as the test's values require, whatever was drawn before (input.c:5-18). *)
GoldenValues ==
  target = "done" /\ seed = GoldenSeed =>
    \A i \in 0 .. 2 :
      i < length =>
        /\ lhs[i] = NumberOf(GoldenLhs[i + 1]) - TwoTo[23]
        /\ rhs[i] = NumberOf(GoldenRhs[i + 1]) - TwoTo[23]

-----------------------------------------------------------------------------
(* What is true between any two stores: the state is as many steps from the*)
(* seed as stores were done, and so is what they wrote.  It is inductive   *)
(* with GeneratorTypeOK.                                                   *)
IndexInv ==
  /\ IF target = "done" THEN input_index = length ELSE input_index < length
  /\ state = StateAt(seed, 2 * input_index + IF target = "rhs" THEN 1 ELSE 0)
  /\ \A i \in 0 .. input_index - 1 :
       /\ lhs[i] = Draw(seed, 2 * i + 1)
       /\ rhs[i] = Draw(seed, 2 * i + 2)
  /\ target = "rhs" => lhs[input_index] = Draw(seed, 2 * input_index + 1)

GeneratorInv == GeneratorTypeOK /\ IndexInv
===============================================================================
