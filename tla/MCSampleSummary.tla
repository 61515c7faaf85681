---------------------------- MODULE MCSampleSummary ----------------------------
(* Up to five samples of 0 to 4 ns, and six that are one too many; an int  *)
(* holds -4 to 3.                                                          *)
EXTENDS SampleSummary

MCSampleLists ==
  UNION {[1 .. n -> 0 .. 4] : n \in 0 .. 5} \cup [1 .. 6 -> {1}]
===============================================================================
