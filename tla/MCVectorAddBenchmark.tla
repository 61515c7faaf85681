------------------------- MODULE MCVectorAddBenchmark -------------------------
(***************************************************************************)
(* Small instances of VectorAddBenchmark: two-element vectors and every    *)
(* build of the three kernels over them.                                   *)
(***************************************************************************)
EXTENDS VectorAddBenchmark

MCNames == {"reference", "scalar", "auto", "vector_add_f32"}

Config(warmup, measured) == [warmup |-> warmup, measured |-> measured]

MCCalls ==
  {[definition |-> VectorAddDefinition, workload_config |-> TRUE,
    run_config |-> config, run_result |-> TRUE,
    failed_implementation |-> TRUE] : config \in {Config(1, 2), Config(0, 3)}}

(* Kernels that write every element, rightly or wrongly.                   *)
TotalBuilds == [MCNames \ {"vector_add_f32"} -> [0 .. 1 -> {"sum", "other"}]]

(* The reference kernel is right; the others may skip elements as well.    *)
PartialBuilds ==
  {b \in [MCNames \ {"vector_add_f32"} ->
            [0 .. 1 -> {"sum", "other", "nothing"}]] :
     \A e \in 0 .. 1 : b["reference"][e] = "sum"}
===============================================================================
