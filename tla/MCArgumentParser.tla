-------------------------- MODULE MCArgumentParser --------------------------
(***************************************************************************)
(* A small instance of ArgumentParser: size_t of 2 bits, uint64_t of 3 and *)
(* uintmax_t of 3, texts on both sides of every limit.                     *)
(***************************************************************************)
EXTENDS ArgumentParser

Plain(digits) == [prefix |-> "", digits |-> digits, rest |-> "end"]

MCTexts ==
  {Plain(n) : n \in {0, 2, 3, 5, 8}}
    \cup {[Plain(n) EXCEPT !.prefix = " -"] : n \in {0, 2, 6, 8}}
    \cup {[Plain(2) EXCEPT !.prefix = p] : p \in {"-", " +"}}
    \cup {[Plain(2) EXCEPT !.rest = "more"], Empty}

MCDefaults == [length |-> 2, warmup |-> 1, iterations |-> 3, seed |-> 4]
=============================================================================
