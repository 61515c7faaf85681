-------------------------- MODULE MCBenchmarkRunner --------------------------
(***************************************************************************)
(* Small instances of BenchmarkRunner: definitions that pass every check   *)
(* and definitions that fail each of them.                                 *)
(***************************************************************************)
EXTENDS BenchmarkRunner

CONSTANTS a, b, c, d

MCNames == {a, b, c, d}

Named(name) == [name |-> name, source_path |-> name, invoke |-> TRUE]

Workload(implementations) ==
  [name |-> a, workload |-> Callbacks, implementations |-> implementations]

Pair == Workload(<<Named(a), Named(b)>>)

Single == Workload(<<Named(b)>>)

Triple == Workload(<<Named(c), Named(a), Named(b)>>)

(* Four results do not fit into SizeMax bytes.                             *)
TooMany == Workload(<<Named(a), Named(b), Named(c), Named(d)>>)

BadDefinitions ==
  {NULL, TooMany,
   Workload(<<Named(a), Named(a)>>),
   Workload(<<>>),
   Workload(<<Named(a), [Named(b) EXCEPT !.source_path = NoText]>>),
   Workload(<<[Named(a) EXCEPT !.name = NoText]>>),
   Workload(<<[Named(a) EXCEPT !.invoke = FALSE]>>),
   [Pair EXCEPT !.name = NoText],
   [Pair EXCEPT !.workload = Callbacks \ {"observe"}]}

Config(warmup, measured) == [warmup |-> warmup, measured |-> measured]

GoodCall == [definition |-> Pair, workload_config |-> TRUE,
             run_config |-> Config(2, 2), run_result |-> TRUE,
             failed_implementation |-> TRUE]

(* No measured iteration is an error; eight samples do not fit.            *)
MCCalls ==
  {GoodCall,
   [GoodCall EXCEPT !.failed_implementation = FALSE],
   [GoodCall EXCEPT !.run_config = Config(0, 1)],
   [GoodCall EXCEPT !.run_config = Config(1, 3), !.definition = Single],
   [GoodCall EXCEPT !.run_config = Config(1, 2), !.definition = Triple],
   [GoodCall EXCEPT !.run_config = Config(1, 0)],
   [GoodCall EXCEPT !.run_config = Config(0, 8)],
   [GoodCall EXCEPT !.run_config = NULL],
   [GoodCall EXCEPT !.workload_config = FALSE],
   [GoodCall EXCEPT !.run_result = FALSE],
   [GoodCall EXCEPT !.run_result = FALSE, !.failed_implementation = FALSE]}
  \cup {[GoodCall EXCEPT !.definition = definition] :
               definition \in BadDefinitions}
==============================================================================
