---------------------------- MODULE MCValidation ----------------------------
(***************************************************************************)
(* A small instance of Validation: every pair of floats of 2 bits, with    *)
(* doubles of 5, and longer vectors of a few of them.                      *)
(***************************************************************************)
EXTENDS Validation

Tolerances ==
  {Finite(1, m) : m \in {0, 1, 6, 16, 48}}
    \cup {Finite(-1, 0), Finite(-1, 1), Infinity(1), Infinity(-1), NaN}

Vectors(elements, length) == [1 .. length -> elements]

CallsOf(elements, length, tolerances) ==
  [actual : Vectors(elements, length), expected : Vectors(elements, length),
   abs : tolerances, rel : tolerances]

MCCalls ==
  CallsOf({}, 0, Tolerances) \cup CallsOf(Float, 1, Tolerances)
    \cup UNION {CallsOf({Finite(1, 0), Finite(-1, 0), Finite(1, 16),
                         Finite(1, 24), NaN},
                        length, {Finite(1, m) : m \in {0, 6, 8}}) :
                length \in 2 .. 3}
=============================================================================
