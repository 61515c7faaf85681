---------------------------- MODULE MCRunBenchmark ----------------------------
(***************************************************************************)
(* A small instance of RunBenchmark: the preset's directory and another,   *)
(* two versions of CMake, and builds that are good or have one defect.     *)
(***************************************************************************)
EXTENDS RunBenchmark

Good == [ending |-> "result", commands |-> "command", report |-> "text",
         compiler |-> "text"]

MCBuildTraits ==
  {Good}
  \cup {[Good EXCEPT !.ending = e] : e \in Endings}
  \cup {[Good EXCEPT !.commands = c] : c \in CommandsTexts}
  \cup {[Good EXCEPT !.report = r] : r \in ReportTexts}
  \cup {[Good EXCEPT !.compiler = c] : c \in CompilerTexts}
===============================================================================
