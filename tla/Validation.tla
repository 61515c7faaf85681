------------------------------ MODULE Validation ------------------------------
(***************************************************************************)
(* rct_f32_nearly_equal and rct_validate_f32 of src/benchmark/validation.c,*)
(* against the policy include/rct/validation.h states.                     *)
(*                                                                         *)
(* A float is a NaN, an infinity or a signed zero or number whose magnitude*)
(* is counted in the smallest subnormal: an integer m * 2^e with m below   *)
(* 2^Precision.  double has DoublePrecision bits, so that the product of   *)
(* two floats is exact and the difference of two may have to be rounded.   *)
(* The policy is about real numbers and rounds nothing.                    *)
(***************************************************************************)
EXTENDS Integers, Sequences, PowersOfTwo

CONSTANTS
  Precision,        \* significant bits of a float
  DoublePrecision,  \* significant bits of a double
  MaxExponent,      \* bound: the largest exponent of a float
  One,              \* the magnitude of 1.0
  Calls             \* the calls made: some of Call

(* 1.0 is a power of two times the smallest subnormal.                     *)
ASSUME PrecisionAssumption ==
  /\ Precision \in Nat \ {0}
  /\ DoublePrecision \in Nat
  /\ DoublePrecision >= 2 * Precision
  /\ MaxExponent \in Nat
  /\ \E e \in 0 .. Precision + MaxExponent : One = TwoTo[e]

Magnitudes ==
  {m * TwoTo[e] : m \in 0 .. TwoTo[Precision] - 1, e \in 0 .. MaxExponent}

Signs == {-1, 1}

Finite(sign, magnitude) ==
  [kind |-> "finite", sign |-> sign, magnitude |-> magnitude]
Infinity(sign) == [kind |-> "infinite", sign |-> sign, magnitude |-> 0]
NaN == [kind |-> "nan", sign |-> 1, magnitude |-> 0]

Float == {Finite(s, m) : s \in Signs, m \in Magnitudes}
           \cup {Infinity(s) : s \in Signs} \cup {NaN}

(* Both pointers address length floats.                                    *)
Call ==
  [actual : Seq(Float), expected : Seq(Float), abs : Float, rel : Float]

ASSUME CallsAssumption ==
  \A call \in Calls :
    call \in Call /\ Len(call.actual) = Len(call.expected)

VARIABLES
  call,   \* the arguments
  index,  \* the loop's index
  pc      \* "entry", "loop", or what was returned: "true", "false"

vars == <<call, index, pc>>

-----------------------------------------------------------------------------
(* x.sign * x.magnitude is the number a finite x stands for.               *)
Number(x) == x.sign * x.magnitude

Magnitude(n) == IF n < 0 THEN -n ELSE n

Larger(m, n) == IF m < n THEN n ELSE m

IsFinite(x) == x.kind = "finite"

(* x == y of C: no NaN equals anything, the zeros equal each other.        *)
Equal(x, y) ==
  \/ IsFinite(x) /\ IsFinite(y) /\ Number(x) = Number(y)
  \/ x.kind = "infinite" /\ x = y

(* x >= 0.0f                                                               *)
AtLeastZero(x) ==
  \/ IsFinite(x) /\ Number(x) >= 0
  \/ x = Infinity(1)

TolerancesAreValid(abs, rel) == AtLeastZero(abs) /\ AtLeastZero(rel)

(* The spacing of numbers with so many bits around n.                      *)
Spacing(n, bits) ==
  TwoTo[CHOOSE k \in 0 .. n :
          n < TwoTo[bits + k] /\ \A j \in 0 .. k - 1 : n >= TwoTo[bits + j]]

(* n to the nearest number with so many bits, ties to even.                *)
Round(n, bits) ==
  LET q == Spacing(n, bits)
      below == (n \div q) * q
  IN  IF \/ 2 * (n - below) < q
         \/ 2 * (n - below) = q /\ (n \div q) % 2 = 0
      THEN below ELSE below + q

(* Mutant: the subtraction is one of floats.                               *)
FloatError(x, y) == Round(Magnitude(Number(x) - Number(y)), Precision)

(* fabs((double)x - (double)y)                                             *)
AbsoluteError(x, y) ==
  Round(Magnitude(Number(x) - Number(y)), DoublePrecision)

(* Mutant: the tolerance is relative to the expected value.                *)
ScaleOfExpected(actual, expected) == expected.magnitude

(* fmax(fabs((double)actual), fabs((double)expected))                      *)
Scale(actual, expected) == Larger(actual.magnitude, expected.magnitude)

(* Mutant: the numbers are told from the infinities before equality.       *)
FiniteFirst(actual, expected, abs, rel) ==
  /\ TolerancesAreValid(abs, rel)
  /\ IsFinite(actual) /\ IsFinite(expected)
  /\ LET error == AbsoluteError(actual, expected)
     IN  \/ error = 0
         \/ abs = Infinity(1) \/ rel = Infinity(1)
         \/ IsFinite(abs) /\ error <= Number(abs)
         \/ /\ IsFinite(rel)
            /\ error * One <= Number(rel) * Scale(actual, expected)

NearlyEqual(actual, expected, abs, rel) ==
  /\ TolerancesAreValid(abs, rel)
  /\ \/ Equal(actual, expected)
     \/ /\ IsFinite(actual) /\ IsFinite(expected)
        /\ LET error == AbsoluteError(actual, expected)
           IN  \/ abs = Infinity(1)
               \/ IsFinite(abs) /\ error <= Number(abs)
               \/ rel = Infinity(1)
               \/ /\ IsFinite(rel)
                  /\ error * One <= Number(rel) * Scale(actual, expected)

-----------------------------------------------------------------------------
(* rct_validate_f32                                                        *)

Init ==
  /\ call \in Calls
  /\ index = 0
  /\ pc = "entry"

Enter ==
  /\ pc = "entry"
  /\ pc' = IF TolerancesAreValid(call.abs, call.rel) THEN "loop" ELSE "false"
  /\ UNCHANGED <<call, index>>

(* Mutant: the index is advanced in the body as well.                      *)
Skip ==
  /\ pc = "loop"
  /\ index < Len(call.actual)
  /\ IF NearlyEqual(call.actual[index + 1], call.expected[index + 1],
                    call.abs, call.rel)
     THEN index' = index + 2 /\ pc' = pc
     ELSE index' = index /\ pc' = "false"
  /\ UNCHANGED call

Compare ==
  /\ pc = "loop"
  /\ index < Len(call.actual)
  /\ IF NearlyEqual(call.actual[index + 1], call.expected[index + 1],
                    call.abs, call.rel)
     THEN index' = index + 1 /\ pc' = pc
     ELSE index' = index /\ pc' = "false"
  /\ UNCHANGED call

Return ==
  /\ pc = "loop"
  /\ index >= Len(call.actual)
  /\ pc' = "true"
  /\ UNCHANGED <<call, index>>

Next == Enter \/ Compare \/ Return

Spec == Init /\ [][Next]_vars

-----------------------------------------------------------------------------
TypeOK ==
  /\ call \in Call
  /\ index \in 0 .. Len(call.actual)
  /\ pc \in {"entry", "loop", "true", "false"}

(* The policy: tolerances must be nonnegative; equality succeeds, NaNs     *)
(* fail; numbers succeed within one of the tolerances.                     *)
Policy(actual, expected, abs, rel) ==
  LET error == Magnitude(Number(actual) - Number(expected))
      scale == Larger(actual.magnitude, expected.magnitude)
  IN  /\ \A t \in {abs, rel} : t \notin {NaN, Infinity(-1)} /\ Number(t) >= 0
      /\ \/ actual = expected /\ actual # NaN
         \/ /\ IsFinite(actual) /\ IsFinite(expected)
            /\ \/ \E t \in {abs, rel} : t = Infinity(1)
               \/ IsFinite(abs) /\ error <= Number(abs)
               \/ IsFinite(rel) /\ error * One <= Number(rel) * scale

Satisfies(actual, expected) == Policy(actual, expected, call.abs, call.rel)

Lanes == 1 .. Len(call.actual)

(* No vector the policy accepts element by element is rejected, neither by *)
(* the rounding of a difference nor by the order of the tests              *)
(* (validation.c:12-63).                                                   *)
PolicyIsAccepted ==
  pc = "false" =>
    \/ ~ TolerancesAreValid(call.abs, call.rel)
    \/ \E i \in Lanes : ~ Satisfies(call.actual[i], call.expected[i])

(* Whether the exact error exceeds a tolerance by no more than rounding it *)
(* to a double can hide, a part in 2^DoublePrecision.                      *)
ExceedsByRounding(actual, expected) ==
  LET error == Magnitude(Number(actual) - Number(expected))
      hidden == error * (TwoTo[DoublePrecision] - 1)
      scale == Larger(actual.magnitude, expected.magnitude)
  IN  /\ IsFinite(actual) /\ IsFinite(expected)
      /\ error >= TwoTo[DoublePrecision]
      /\ \/ hidden <= Number(call.abs) * TwoTo[DoublePrecision]
         \/ hidden * One <= Number(call.rel) * scale * TwoTo[DoublePrecision]

(* A vector is only accepted when every element satisfies the policy, but  *)
(* for what the rounding of the difference hides: no NaN, no infinity next *)
(* to a number, no element the loop has skipped (validation.c:21-63).      *)
AcceptedIsPolicy ==
  pc = "true" =>
    /\ TolerancesAreValid(call.abs, call.rel)
    /\ \A i \in Lanes :
         \/ Satisfies(call.actual[i], call.expected[i])
         \/ ExceedsByRounding(call.actual[i], call.expected[i])

(* Which of the two vectors is called expected does not matter, although   *)
(* the relative tolerance is relative to one of them (validation.c:36-37). *)
IsSymmetric ==
  \A i \in Lanes :
    NearlyEqual(call.actual[i], call.expected[i], call.abs, call.rel)
      <=> NearlyEqual(call.expected[i], call.actual[i], call.abs, call.rel)

-----------------------------------------------------------------------------
Accepted(i) ==
  NearlyEqual(call.actual[i], call.expected[i], call.abs, call.rel)

(* The inductive invariant (ValidationProofs): the loop runs with valid    *)
(* tolerances and has accepted every element before its index; the vectors *)
(* are rejected for their tolerances or for one element.                   *)
LoopInv ==
  /\ TypeOK
  /\ Len(call.actual) = Len(call.expected)
  /\ pc = "entry" => index = 0
  /\ pc \in {"loop", "true"} => /\ TolerancesAreValid(call.abs, call.rel)
                                /\ \A i \in 1 .. index : Accepted(i)
  /\ pc = "true" => index = Len(call.actual)
  /\ pc = "false" => \/ ~ TolerancesAreValid(call.abs, call.rel)
                     \/ \E i \in Lanes : ~ Accepted(i)
===============================================================================
