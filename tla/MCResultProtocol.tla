--------------------------- MODULE MCResultProtocol ---------------------------
(***************************************************************************)
(* Runs of up to two implementations with up to two samples of one or two  *)
(* digits, and from a foreign program every text of up to four records     *)
(* after the right first two lines and some texts with wrong ones.         *)
(***************************************************************************)
EXTENDS ResultProtocol

MeasuredImplementation(name, measured) ==
  {[name |-> name, valid |-> TRUE, summary |-> s[1], samples |-> s] :
     s \in [1 .. measured -> {7, 12}]}

MCRuns ==
  {[measured |-> 2, implementations |-> <<i, j>>] :
     i \in MeasuredImplementation("a", 2), j \in MeasuredImplementation("b", 2)}
  \cup {[measured |-> 1, implementations |-> <<i>>] :
     i \in MeasuredImplementation("a", 1)}

ForeignImplementation(name, count) ==
  [type |-> "implementation", name |-> name, valid |-> FALSE, summary |-> 0,
   sample_count |-> count]

ForeignRecords ==
  {ForeignImplementation(n, count) : n \in {"a", "b"}, count \in 0 .. 2}
    \cup {SampleLine(n, index, 1) : n \in {"a", "b"}, index \in 0 .. 1}
    \cup {Malformed}

MCForeignTexts ==
  {<<Header, Benchmark(1)>> \o records_ :
     records_ \in UNION {[1 .. n -> ForeignRecords] : n \in 0 .. 4}}
  \cup [1 .. 3 -> {Header, Benchmark(1), ForeignImplementation("a", 0)}]
===============================================================================
