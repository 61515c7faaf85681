----------------------------- MODULE PowersOfTwo -----------------------------
(***************************************************************************)
(* The powers of two, by their recursion: the provers know nothing of ^.   *)
(***************************************************************************)
EXTENDS Integers

TwoTo[k \in Nat] == IF k = 0 THEN 1 ELSE 2 * TwoTo[k - 1]
=============================================================================
