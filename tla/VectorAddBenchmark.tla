-------------------------- MODULE VectorAddBenchmark --------------------------
(***************************************************************************)
(* The benchmark rct_bench runs: the generic runner (BenchmarkRunner)      *)
(* with the vector-add workload (VectorAddWorkload) behind its callbacks.  *)
(* Every callback of the runner is one step of both; every other step of   *)
(* the runner leaves the fixture alone.                                    *)
(***************************************************************************)
EXTENDS BenchmarkRunner

CONSTANTS Builds, MaxLength, FloatSize,
          Lengths   \* the vector lengths of the workload configurations

VARIABLES build, blocks, badFree, length, reference, output

(* RCT_VECTOR_ADD_F32_IMPLEMENTATIONS, in their order.                     *)
Order == <<"reference", "scalar", "auto">>

Kernels == {Order[i] : i \in DOMAIN Order}

Vector == INSTANCE VectorAddWorkload

(* rct_vector_add_f32_benchmark                                            *)
VectorAddDefinition ==
  [name |-> "vector_add_f32", workload |-> Callbacks,
   implementations |->
     [i \in DOMAIN Order |->
        [name |-> Order[i], source_path |-> Order[i], invoke |-> TRUE]]]

ASSUME VectorAddAssumption ==
  /\ Names = Kernels \cup {"vector_add_f32"}
  /\ \A c \in Calls : c.definition = VectorAddDefinition
ASSUME BuildsAssumption ==
  Builds \subseteq [Kernels -> [Vector!Elements -> {"sum", "other", "nothing"}]]
ASSUME FloatSizeAssumption == MaxLength \in Nat /\ FloatSize \in Nat \ {0}
ASSUME LengthsAssumption ==
  \A n \in Lengths : n \in 0 .. MaxLength \/ ~ Vector!SizeFits(n)

fixtureVars == <<build, blocks, badFree, length, reference, output>>

systemVars == <<vars, fixtureVars>>

SystemInit == Init /\ Vector!Init

VectorSetup ==
  \E n \in Lengths, got \in SUBSET Vector!FixtureBlocks :
    LET ok == Vector!SetupSucceeds(n, got)
    IN  Setup(ok, ok) /\ Vector!Setup(n, got)

VectorPrepare == Prepare /\ Vector!Prepare

VectorInvoke == Invoke /\ Vector!Invoke(Implementations[index].name)

VectorObserve == Observe /\ Vector!Observe

VectorValidate == \E ok \in BOOLEAN : Validate(ok) /\ Vector!Validate(ok)

VectorDestroy == Destroy /\ Vector!Destroy

VectorStep ==
  \/ VectorSetup
  \/ VectorPrepare
  \/ VectorInvoke
  \/ VectorObserve
  \/ VectorValidate
  \/ VectorDestroy

SystemNext ==
  \/ (CallerStep \/ RunnerStep) /\ UNCHANGED fixtureVars
  \/ VectorStep

SystemSpec == SystemInit /\ [][SystemNext]_systemVars

-----------------------------------------------------------------------------
(* The runner owns a fixture exactly while the workload's five blocks are  *)
(* allocated: none is left behind by a setup that fails half way or by a   *)
(* run that stops anywhere, and none is freed twice or used too late       *)
(* (vector_add_workload.c:38-91, 122-134; benchmark_runner.c:323-326).     *)
FixtureIsReleased ==
  /\ ~ badFree
  /\ blocks = IF fixture THEN Vector!FixtureBlocks ELSE {}

(* Neither validate nor observe reads an element nobody has written, in    *)
(* the output or in the expected sums; malloc leaves both undefined and    *)
(* prepare clears nothing (vector_add_workload.c:61-65, 93-120).           *)
ReadsAreWritten ==
  /\ pc = "observe" =>
       output[Vector!ObservedElement(iteration)] # "unwritten"
  /\ pc = "validate" =>
       \A e \in DOMAIN output : "unwritten" \notin {output[e], reference[e]}

(* The elements at which a kernel does not do what the reference does.     *)
WrongElements(kernel) ==
  {e \in DOMAIN output : build[kernel][e] # build["reference"][e]}

(* A run succeeds only if every kernel computes what the reference kernel  *)
(* computes at every element (README.md:5, "validate every result").       *)
SuccessMeansAgreement ==
  pc = "returned" /\ status = "ok" =>
    \A kernel \in Kernels : WrongElements(kernel) = {}

(* And a kernel is blamed only if it does not.                             *)
BlameIsDeserved ==
  pc = "returned" /\ status = "validation_failure"
                  /\ call.failed_implementation =>
    WrongElements(failed) # {}
-----------------------------------------------------------------------------
(* The inductive invariant (VectorAddBenchmarkProofs): the runner has a    *)
(* fixture at most between its setup and its cleanup.                      *)
FixtureInv ==
  /\ FixtureIsReleased
  /\ pc \in {"idle", "enter", "allocate", "setup", "release", "returned"} =>
       ~ fixture

(* The kernels of every build write every element, as those of the         *)
(* repository do (VectorAddKernels).  MCStaleOutput shows why validation   *)
(* says little of any other kernel.                                        *)
BuildsAreTotal ==
  \A b \in Builds, kernel \in Kernels, e \in Vector!Elements :
    b[kernel][e] # "nothing"

(* The array that the kernel alone has written.                            *)
WrittenBy(kernel) == [e \in 0 .. length - 1 |-> build[kernel][e]]

(* What the arrays hold while the runner loops, and what a verdict says of *)
(* the kernel it is on; inductive together with RunnerInv and MeasureInv.  *)
OutputInv ==
  /\ build \in Builds
  /\ pc # "idle" => call \in Calls
  /\ pc \in Looping =>
       /\ length \in 1 .. MaxLength
       /\ reference = WrittenBy("reference")
       /\ DOMAIN output = 0 .. length - 1
  /\ pc \in {"end_clock", "observe", "store", "validate"} =>
       output = WrittenBy(Implementations[index].name)
  /\ \A i \in Slots :
       accepted[i] # 0 => WrongElements(Implementations[i].name) = {}
  /\ rejected # 0 => WrongElements(Implementations[rejected].name) # {}
===============================================================================
