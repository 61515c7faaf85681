-------------------------- MODULE MCInputGenerator --------------------------
(***************************************************************************)
(* InputGenerator with the seed of the test, the program's own, the two    *)
(* extremes and seeds whose sums with the increment carry far.             *)
(***************************************************************************)
EXTENDS InputGenerator

DefaultSeed == Hex(<<6, 10, 0, 9, 14, 6, 6, 7, 15, 3, 11, 12, 12, 9, 0, 8>>)

MCSeeds ==
  {GoldenSeed, DefaultSeed, {}, Places, Places \ Gamma, {Width - 1},
   {0}, Gamma}
=============================================================================
