----------------------- MODULE VectorAddBenchmarkProofs -----------------------
(***************************************************************************)
(* The composed benchmark implements the generic runner, neither half      *)
(* leaks the fixture they share, and its verdicts on the kernels are right *)
(* when every kernel writes every element, as the loops of the repository's*)
(* kernels do.                                                             *)
(***************************************************************************)
EXTENDS VectorAddBenchmark, VectorAddKernels, BenchmarkRunnerProofs,
        SequenceTheorems

(* Every step of the composed benchmark is a step of the runner, so that   *)
(* whatever holds of the runner with any workload holds with this one.     *)
THEOREM BenchmarkImplementsRunner == SystemSpec => Spec
<1>1. SystemInit => Init
  BY DEF SystemInit
<1>2. [SystemNext]_systemVars => [Next]_vars
  <2> SUFFICES ASSUME [SystemNext]_systemVars PROVE [Next]_vars
    OBVIOUS
  <2>1. CASE (CallerStep \/ RunnerStep) /\ UNCHANGED fixtureVars
    BY <2>1 DEF Next
  <2>2. CASE VectorSetup
    <3>1. PICK n \in Lengths, got \in SUBSET Vector!FixtureBlocks :
            Setup(Vector!SetupSucceeds(n, got), Vector!SetupSucceeds(n, got))
      BY <2>2 DEF VectorSetup
    <3>2. Vector!SetupSucceeds(n, got) \in BOOLEAN
      BY DEF Vector!SetupSucceeds
    <3> QED
      BY <3>1, <3>2 DEF Next, WorkloadStep
  <2>3. CASE VectorPrepare \/ VectorInvoke \/ VectorObserve \/ VectorDestroy
    BY <2>3
    DEF VectorPrepare, VectorInvoke, VectorObserve, VectorDestroy, Next,
        WorkloadStep
  <2>4. CASE VectorValidate
    BY <2>4 DEF VectorValidate, Next, WorkloadStep
  <2>5. CASE UNCHANGED systemVars
    BY <2>5 DEF systemVars
  <2> QED
    BY <2>1, <2>2, <2>3, <2>4, <2>5 DEF SystemNext, VectorStep
<1> QED
  BY <1>1, <1>2, PTL DEF SystemSpec, Spec

(* In particular the benchmark's results are never leaked or freed twice.  *)
THEOREM BenchmarkHeapIsOwned == SystemSpec => []HeapIsOwned
  BY BenchmarkImplementsRunner, HeapIsAlwaysOwned, PTL

-----------------------------------------------------------------------------
(* A setup leaves all of its blocks or none.                               *)
LEMMA SetupIsAllOrNothing ==
  ASSUME FixtureInv, VectorSetup
  PROVE  FixtureInv'
<1>1. PICK n \in Lengths, got \in SUBSET Vector!FixtureBlocks :
        /\ Setup(Vector!SetupSucceeds(n, got), Vector!SetupSucceeds(n, got))
        /\ Vector!Setup(n, got)
  BY DEF VectorSetup
<1>2. ~ badFree'
  BY <1>1 DEF Vector!Setup, FixtureInv, FixtureIsReleased
<1>3. CASE Vector!SetupSucceeds(n, got)
  <2>1. got = Vector!FixtureBlocks
    BY <1>3
    DEF Vector!SetupSucceeds, Vector!Allocated, Vector!FixtureBlocks
  <2>2. blocks' = Vector!FixtureBlocks
    BY <1>1, <1>3, <2>1 DEF Vector!Setup
  <2>3. fixture' = TRUE
    BY <1>1, <1>3 DEF Setup
  <2>4. pc' \in {"prepare", "allocate_samples", "cleanup"}
    BY <1>1, <1>3 DEF Setup, CheckFrom, MeasureFrom
  <2> QED
    BY <1>2, <2>2, <2>3, <2>4 DEF FixtureInv, FixtureIsReleased
<1>4. CASE ~ Vector!SetupSucceeds(n, got)
  <2>1. Vector!Kept(n, got) = {}
    BY DEF Vector!Kept, Vector!Allocated, Vector!FixtureBlocks
  <2>2. blocks' = {}
    BY <1>1, <1>4, <2>1 DEF Vector!Setup
  <2>3. fixture' = FALSE
    BY <1>1, <1>4 DEF Setup, Vector!SetupSucceeds
  <2> QED
    BY <1>2, <2>2, <2>3 DEF FixtureInv, FixtureIsReleased
<1> QED
  BY <1>3, <1>4

(* The five frees of destroy free the five blocks of setup.                *)
LEMMA DestroyFreesTheFixture ==
  ASSUME FixtureInv, VectorDestroy
  PROVE  FixtureInv'
<1>1. /\ Destroy /\ Vector!Destroy /\ fixture
      /\ ~ badFree /\ blocks = Vector!FixtureBlocks
  BY DEF VectorDestroy, Destroy, FixtureInv, FixtureIsReleased
<1> DEFINE freed == {"output", "reference", "rhs", "lhs", "fixture"}
<1>2. freed = blocks
  BY <1>1 DEF Vector!FixtureBlocks
<1>3. blocks' = blocks \ freed
  BY <1>1 DEF Vector!Destroy, Vector!Free
<1>4. badFree' = (badFree \/ ~ (freed \subseteq blocks))
  BY <1>1 DEF Vector!Destroy, Vector!Free
<1>5. fixture' = FALSE
  BY <1>1 DEF Destroy
<1> QED
  BY <1>1, <1>2, <1>3, <1>4, <1>5 DEF FixtureInv, FixtureIsReleased

(* Every other step keeps fixture and blocks, and passes by the places     *)
(* where there is no fixture only when there is none.                      *)
LEMMA OtherStepsKeepTheFixture ==
  ASSUME FixtureInv,
         \/ (CallerStep \/ RunnerStep) /\ UNCHANGED fixtureVars
         \/ VectorPrepare
         \/ VectorInvoke
         \/ VectorObserve
         \/ VectorValidate
         \/ UNCHANGED systemVars
  PROVE  FixtureInv'
<1> USE DEF FixtureInv, FixtureIsReleased
<1>1. CASE CallerStep /\ UNCHANGED fixtureVars
  BY <1>1 DEF CallerStep, CallRunner, Discard, workload, fixtureVars
<1>2. CASE RunnerStep /\ UNCHANGED fixtureVars
  <2>1. CASE Enter \/ Finish \/ Release
    BY <1>2, <2>1 DEF Enter, Finish, Release, workload, fixtureVars
  <2>2. CASE \E ok \in BOOLEAN : Allocate(ok) \/ AllocateSamples(ok)
    BY <1>2, <2>2
    DEF Allocate, AllocateSamples, Iterate, Fail, workload, fixtureVars
  <2>3. CASE \E ok \in BOOLEAN : StartClock(ok) \/ EndClock(ok)
    BY <1>2, <2>3 DEF StartClock, EndClock, Fail, fixtureVars
  <2>4. CASE \E ok \in BOOLEAN : Store(ok) \/ Summarize(ok)
    BY <1>2, <2>4
    DEF Store, Summarize, Iterate, MeasureFrom, Fail, workload, fixtureVars
  <2> QED
    BY <1>2, <2>1, <2>2, <2>3, <2>4 DEF RunnerStep
<1>3. CASE VectorPrepare \/ VectorInvoke
  BY <1>3
  DEF VectorPrepare, VectorInvoke, Prepare, Invoke, Vector!Prepare,
      Vector!Invoke, Vector!fixtureVars
<1>4. CASE VectorObserve
  BY <1>4
  DEF VectorObserve, Observe, Iterate, Fail, Vector!Observe,
      Vector!fixtureVars
<1>5. CASE VectorValidate
  BY <1>5
  DEF VectorValidate, Validate, Accept, Reject, CheckFrom, MeasureFrom, Fail,
      workload, Vector!Validate, Vector!fixtureVars
<1>6. CASE UNCHANGED systemVars
  BY <1>6 DEF systemVars, vars, control, workload, fixtureVars
<1> QED
  BY <1>1, <1>2, <1>3, <1>4, <1>5, <1>6

(* The runner holds a fixture exactly while the workload's blocks are      *)
(* allocated, whatever fails in whichever call.                            *)
THEOREM FixtureIsAlwaysReleased == SystemSpec => []FixtureIsReleased
<1>1. SystemInit => FixtureInv
  BY DEF SystemInit, Init, Vector!Init, FixtureInv, FixtureIsReleased
<1>2. FixtureInv /\ [SystemNext]_systemVars => FixtureInv'
  BY SetupIsAllOrNothing, DestroyFreesTheFixture, OtherStepsKeepTheFixture
  DEF SystemNext, VectorStep
<1>3. FixtureInv => FixtureIsReleased
  BY DEF FixtureInv
<1> QED
  BY <1>1, <1>2, <1>3, PTL DEF SystemSpec

-----------------------------------------------------------------------------
(***************************************************************************)
(* The verdicts on the kernels, for kernels that write every element.      *)
(***************************************************************************)

(* The composed benchmark keeps the runner's invariants.                   *)
LEMMA RunnerInvariants == SystemSpec => [](RunnerInv /\ MeasureInv)
  BY BenchmarkImplementsRunner, MeasureIsInvariant, PTL

(* Every call is for the three kernels, in their order.                    *)
LEMMA TheImplementations ==
  ASSUME call \in Calls
  PROVE  /\ Slots = 1 .. 3
         /\ \A i \in Slots : Implementations[i].name = Order[i]
         /\ \A i \in Slots : Implementations[i].name \in Kernels
         /\ \A kernel \in Kernels :
              \E i \in Slots : Implementations[i].name = kernel
<1> DEFINE table == VectorAddDefinition.implementations
<1>1. call.definition = VectorAddDefinition
  BY VectorAddAssumption
<1>2. DOMAIN Order = 1 .. 3
  BY DEF Order
<1>3. table = [i \in 1 .. 3 |->
                 [name |-> Order[i], source_path |-> Order[i], invoke |-> TRUE]]
  BY <1>2 DEF VectorAddDefinition
<1>4. Kernels = {Order[i] : i \in 1 .. 3}
  BY <1>2 DEF Kernels
<1>5. VectorAddDefinition \in Definition
  <2>1. \A i \in 1 .. 3 : Order[i] \in Text
    BY <1>4, VectorAddAssumption DEF Text
  <2>2. table \in [1 .. 3 -> Implementation]
    BY <1>3, <2>1 DEF Implementation
  <2>3. table \in Seq(Implementation)
    BY <2>2, SeqDef
  <2>4. "vector_add_f32" \in Text
    BY VectorAddAssumption DEF Text
  <2> QED
    BY <2>3, <2>4 DEF VectorAddDefinition, Definition
<1>6. Implementations = table
  BY <1>1, <1>5, NullAssumption DEF Implementations, ImplementationsOf
<1> HIDE DEF table
<1>7. Slots = 1 .. 3
  BY <1>3, <1>6 DEF Slots, Count
<1>8. \A i \in Slots : Implementations[i].name = Order[i]
  BY <1>3, <1>6, <1>7
<1> QED
  BY <1>4, <1>7, <1>8

(* A kernel of a total build writes an array that holds no unwritten       *)
(* element, and writing it leaves nothing of what was there before.        *)
LEMMA KernelsWriteAll ==
  ASSUME BuildsAreTotal, build \in Builds, length \in 1 .. MaxLength,
         NEW kernel \in Kernels
  PROVE  /\ DOMAIN WrittenBy(kernel) = 0 .. length - 1
         /\ \A e \in 0 .. length - 1 : WrittenBy(kernel)[e] # "unwritten"
         /\ \A array : DOMAIN array = 0 .. length - 1 =>
              Vector!Written(kernel, array) = WrittenBy(kernel)
<1>1. \A e \in 0 .. length - 1 : e \in Vector!Elements
  BY FloatSizeAssumption DEF Vector!Elements
<1>2. \A e \in 0 .. length - 1 : build[kernel][e] \in {"sum", "other"}
  BY <1>1, BuildsAssumption DEF BuildsAreTotal
<1> QED
  BY <1>2 DEF WrittenBy, Vector!Written

(* A step that leaves the build and the vectors alone leaves what they say *)
(* of a kernel.                                                            *)
LEMMA SameVectors ==
  ASSUME UNCHANGED fixtureVars
  PROVE  /\ \A kernel : WrongElements(kernel)' = WrongElements(kernel)
         /\ \A kernel : WrittenBy(kernel)' = WrittenBy(kernel)
  BY DEF fixtureVars, WrongElements, WrittenBy

(* A step that leaves the vectors and the verdicts alone, and does not     *)
(* come from before the loops or from before an invocation.                *)
LEMMA QuietStepKeepsOutput ==
  ASSUME RunnerInv, OutputInv, UNCHANGED fixtureVars,
         call' = call, UNCHANGED <<accepted, rejected>>,
         pc \notin {"idle", "setup", "invoke"},
         pc' \in Looping => pc \in Looping,
         pc' \in {"end_clock", "observe", "store", "validate"} =>
           /\ index' = index
           /\ pc \in {"end_clock", "observe", "store", "validate"}
  PROVE  OutputInv'
<1>1. Slots' = Slots /\ Implementations' = Implementations
  BY SameArguments
<1>2. /\ build' = build /\ length' = length
      /\ reference' = reference /\ output' = output
  BY DEF fixtureVars
<1>3. /\ \A kernel : WrongElements(kernel)' = WrongElements(kernel)
      /\ \A kernel : WrittenBy(kernel)' = WrittenBy(kernel)
  BY SameVectors
<1>4. /\ build' \in Builds
      /\ pc' # "idle" => call' \in Calls
  BY <1>2 DEF OutputInv
<1>5. pc' \in Looping => /\ length' \in 1 .. MaxLength
                         /\ reference' = WrittenBy("reference")'
                         /\ DOMAIN output' = 0 .. length' - 1
  BY <1>2, <1>3 DEF OutputInv
<1>6. pc' \in {"end_clock", "observe", "store", "validate"} =>
        output' = WrittenBy(Implementations[index].name)'
  <2> SUFFICES ASSUME pc' \in {"end_clock", "observe", "store", "validate"}
               PROVE  output' = WrittenBy(Implementations[index].name)'
    OBVIOUS
  <2>1. index' = index /\ Implementations' = Implementations
    BY <1>1
  <2>2. output = WrittenBy(Implementations[index].name)
    BY DEF OutputInv
  <2> QED
    BY <1>2, <2>1, <2>2 DEF WrittenBy
<1>7. /\ \A i \in Slots' : accepted'[i] # 0 =>
           WrongElements(Implementations[i].name)' = {}
      /\ rejected' # 0 =>
           WrongElements(Implementations[rejected].name)' # {}
  BY <1>1, <1>2 DEF OutputInv, WrongElements
<1> QED
  BY <1>4, <1>5, <1>6, <1>7 DEF OutputInv

(* A new call is accepted for nothing and blames nobody.                   *)
LEMMA CallKeepsOutput ==
  ASSUME OutputInv, UNCHANGED fixtureVars, NEW c \in Calls, CallRunner(c)
  PROVE  OutputInv'
<1> DEFINE n == Len(ImplementationsOf(c))
<1>1. Slots' = 1 .. n
  BY DEF CallRunner, Count, Slots, Implementations, ImplementationsOf
<1>2. accepted' = [i \in 1 .. n |-> 0] /\ rejected' = 0
  BY DEF CallRunner, Zeros
<1>3. call' = c /\ pc' = "enter"
  BY DEF CallRunner
<1> QED
  BY <1>1, <1>2, <1>3 DEF OutputInv, fixtureVars, Looping

(* The runner's own steps, and the caller's, leave the vectors alone.      *)
LEMMA RunnerKeepsOutput ==
  ASSUME RunnerInv, OutputInv, CallerStep \/ RunnerStep,
         UNCHANGED fixtureVars
  PROVE  OutputInv'
<1> USE DEF Looping
<1>1. Measured \in Nat /\ Warmup \in Nat
  BY ArgumentTypes DEF RunnerInv, TypeOK
<1>2. CASE \E c \in Calls : CallRunner(c)
  BY <1>2, CallKeepsOutput
<1>3. CASE Discard \/ Enter \/ Finish \/ Release
  BY <1>3, QuietStepKeepsOutput
  DEF Discard, Enter, Finish, Release, record
<1>4. CASE \E ok \in BOOLEAN : Allocate(ok) \/ StartClock(ok) \/ EndClock(ok)
  BY <1>4, QuietStepKeepsOutput
  DEF Allocate, StartClock, EndClock, Fail, record
<1>5. CASE \E ok \in BOOLEAN : AllocateSamples(ok)
  <2>1. Measured # 0
    BY <1>5
    DEF AllocateSamples, RunnerInv, ControlInv, Running, PcValues, CallIsValid
  <2>2. pc' \in {"prepare", "cleanup"}
    BY <1>1, <1>5, <2>1 DEF AllocateSamples, Iterate, Fail
  <2> QED
    BY <1>5, <2>2, QuietStepKeepsOutput DEF AllocateSamples, record
<1>6. CASE \E ok \in BOOLEAN : Store(ok)
  BY <1>6, QuietStepKeepsOutput DEF Store, Iterate, Fail, record
<1>7. CASE \E ok \in BOOLEAN : Summarize(ok)
  BY <1>7, QuietStepKeepsOutput DEF Summarize, MeasureFrom, Fail, record
<1> QED
  BY <1>2, <1>3, <1>4, <1>5, <1>6, <1>7 DEF CallerStep, RunnerStep

(* A setup that succeeds computes the expected sums, before any verdict.   *)
LEMMA SetupKeepsOutput ==
  ASSUME RunnerInv, MeasureInv, OutputInv, BuildsAreTotal, VectorSetup
  PROVE  OutputInv'
<1>1. PICK n \in Lengths, got \in SUBSET Vector!FixtureBlocks :
        /\ Setup(Vector!SetupSucceeds(n, got), Vector!SetupSucceeds(n, got))
        /\ Vector!Setup(n, got)
  BY DEF VectorSetup
<1>2. /\ call' = call /\ pc = "setup"
      /\ accepted' = accepted /\ rejected' = rejected /\ build' = build
  BY <1>1 DEF Setup, record, Vector!Setup
<1>3. Slots' = Slots /\ Implementations' = Implementations
  BY <1>2, SameArguments
<1>4. /\ \A i \in Slots' : accepted'[i] = 0
      /\ rejected' = 0
  <2>1. \A i \in Slots : accepted[i] = 0
    BY <1>2 DEF MeasureInv, Fresh
  <2>2. rejected = 0
    BY <1>2 DEF RunnerInv, BlameInv, Closing
  <2> QED
    BY <1>2, <1>3, <2>1, <2>2
<1>5. build' \in Builds /\ call' \in Calls
  BY <1>2 DEF OutputInv
<1>6. pc' \notin {"end_clock", "observe", "store", "validate"}
  BY <1>1 DEF Setup, CheckFrom, MeasureFrom, Fail
<1>7. ASSUME pc' \in Looping
      PROVE  /\ length' \in 1 .. MaxLength
             /\ reference' = WrittenBy("reference")'
             /\ DOMAIN output' = 0 .. length' - 1
  <2>1. Vector!SetupSucceeds(n, got)
    BY <1>1, <1>7 DEF Setup, Fail, Looping
  <2>2. /\ length' = n
        /\ reference' = Vector!Expected(n)
        /\ output' = Vector!Unwritten(n)
    BY <1>1, <2>1 DEF Vector!Setup
  <2>3. n \in 1 .. MaxLength
    <3>1. n # 0 /\ Vector!SizeFits(n)
      BY <2>1
      DEF Vector!SetupSucceeds, Vector!Allocated, Vector!FixtureBlocks
    <3> QED
      BY <3>1, LengthsAssumption, FloatSizeAssumption
  <2>4. \A e \in 0 .. n - 1 : build["reference"][e] # "nothing"
    <3>1. "reference" \in Kernels
      BY DEF Kernels, Order
    <3>2. \A e \in 0 .. n - 1 : e \in Vector!Elements
      BY <2>3, FloatSizeAssumption DEF Vector!Elements
    <3> QED
      BY <3>1, <3>2 DEF OutputInv, BuildsAreTotal
  <2>5. Vector!Expected(n) = [e \in 0 .. n - 1 |-> build["reference"][e]]
    BY <2>4 DEF Vector!Expected, Vector!Written, Vector!Unwritten
  <2>6. DOMAIN output' = 0 .. n - 1
    BY <2>2 DEF Vector!Unwritten
  <2> QED
    BY <1>2, <2>2, <2>3, <2>5, <2>6 DEF WrittenBy
<1> QED
  BY <1>4, <1>5, <1>6, <1>7 DEF OutputInv

(* An invocation replaces all that an earlier kernel has left.             *)
LEMMA InvokeKeepsOutput ==
  ASSUME RunnerInv, OutputInv, BuildsAreTotal, VectorInvoke
  PROVE  OutputInv'
<1>1. /\ call' = call /\ pc = "invoke" /\ index' = index
      /\ accepted' = accepted /\ rejected' = rejected
      /\ build' = build /\ length' = length /\ reference' = reference
      /\ output' = Vector!Written(Implementations[index].name, output)
  BY DEF VectorInvoke, Invoke, Vector!Invoke
<1>2. Slots' = Slots /\ Implementations' = Implementations
  BY <1>1, SameArguments
<1>3. /\ build \in Builds /\ call \in Calls
      /\ length \in 1 .. MaxLength
      /\ reference = WrittenBy("reference")
      /\ DOMAIN output = 0 .. length - 1
  BY <1>1 DEF OutputInv, Looping
<1>4. index \in Slots /\ Implementations[index].name \in Kernels
  BY <1>1, <1>3, TheImplementations DEF RunnerInv, ControlInv, Looping
<1>5. output' = WrittenBy(Implementations[index].name)
  BY <1>1, <1>3, <1>4, KernelsWriteAll
<1>6. DOMAIN output' = DOMAIN output
  BY <1>3, <1>5 DEF WrittenBy
<1>7. output' = WrittenBy(Implementations[index].name)'
  BY <1>1, <1>2, <1>5 DEF WrittenBy
<1>8. reference' = WrittenBy("reference")'
  BY <1>1, <1>3 DEF WrittenBy
<1>9. /\ \A i \in Slots' : accepted'[i] # 0 =>
           WrongElements(Implementations[i].name)' = {}
      /\ rejected' # 0 =>
           WrongElements(Implementations[rejected].name)' # {}
  BY <1>1, <1>2, <1>6 DEF OutputInv, WrongElements
<1> QED
  BY <1>1, <1>3, <1>6, <1>7, <1>8, <1>9 DEF OutputInv

(* What validate compares is what the kernel and the reference kernel      *)
(* write, so that its verdict is on the kernel.                            *)
LEMMA VerdictsAreOnTheKernel ==
  ASSUME RunnerInv, OutputInv, BuildsAreTotal, pc = "validate",
         NEW ok \in BOOLEAN, Vector!Validate(ok)
  PROVE  ok <=> WrongElements(Implementations[index].name) = {}
<1> DEFINE kernel == Implementations[index].name
<1>1. /\ build \in Builds /\ call \in Calls
      /\ length \in 1 .. MaxLength
      /\ reference = WrittenBy("reference")
      /\ output = WrittenBy(kernel)
  BY DEF OutputInv, Looping
<1>2. kernel \in Kernels /\ "reference" \in Kernels
  <2>1. index \in Slots
    BY DEF RunnerInv, ControlInv, Looping
  <2> QED
    BY <1>1, <2>1, TheImplementations DEF Kernels, Order
<1>3. /\ DOMAIN output = 0 .. length - 1
      /\ \A e \in DOMAIN output : "unwritten" \notin {output[e], reference[e]}
  BY <1>1, <1>2, KernelsWriteAll
<1>4. \A e \in DOMAIN output :
        output[e] = build[kernel][e] /\ reference[e] = build["reference"][e]
  BY <1>1, <1>3 DEF WrittenBy
<1> HIDE DEF kernel
<1>5. CASE ok = TRUE
  <2>1. \A e \in DOMAIN output : Vector!MayBeEqual(e)
    BY <1>5 DEF Vector!Validate
  <2>2. \A e \in DOMAIN output : build[kernel][e] = build["reference"][e]
    BY <1>3, <1>4, <2>1 DEF Vector!MayBeEqual
  <2> QED
    BY <1>5, <2>2 DEF WrongElements, kernel
<1>6. CASE ok = FALSE
  <2>1. \E e \in DOMAIN output : Vector!MayDiffer(e)
    BY <1>6 DEF Vector!Validate
  <2>2. \E e \in DOMAIN output : build[kernel][e] # build["reference"][e]
    BY <1>3, <1>4, <2>1 DEF Vector!MayDiffer
  <2> QED
    BY <1>6, <2>2 DEF WrongElements, kernel
<1> QED
  BY <1>5, <1>6

(* The verdict is entered for the kernel it is on.                         *)
LEMMA ValidateKeepsOutput ==
  ASSUME RunnerInv, OutputInv, BuildsAreTotal, VectorValidate
  PROVE  OutputInv'
<1>1. PICK ok \in BOOLEAN : Validate(ok) /\ Vector!Validate(ok)
  BY DEF VectorValidate
<1>2. /\ call' = call /\ pc = "validate" /\ UNCHANGED fixtureVars
  BY <1>1 DEF Validate, Vector!Validate, Vector!fixtureVars, fixtureVars
<1>3. Slots' = Slots /\ Implementations' = Implementations
  BY <1>2, SameArguments
<1>4. index \in Slots /\ accepted \in [Slots -> Nat] /\ rejected \in 0 .. Count
      /\ Slots = 1 .. Count /\ Count \in Nat
  BY <1>2, ArgumentTypes DEF RunnerInv, TypeOK, ControlInv, Looping
<1>5. ok <=> WrongElements(Implementations[index].name) = {}
  BY <1>1, <1>2, VerdictsAreOnTheKernel
<1>6. /\ build' = build /\ length' = length
      /\ reference' = reference /\ output' = output
  BY <1>2 DEF fixtureVars
<1>7. pc' \notin {"end_clock", "observe", "store", "validate"}
  BY <1>1 DEF Validate, Accept, Reject, CheckFrom, MeasureFrom, Fail
<1>8. /\ build' \in Builds /\ call' \in Calls
      /\ length' \in 1 .. MaxLength
      /\ reference' = WrittenBy("reference")'
      /\ DOMAIN output' = 0 .. length' - 1
  BY <1>2, <1>6 DEF OutputInv, Looping, WrittenBy
<1>9. \A i \in Slots : accepted'[i] # 0 =>
        WrongElements(Implementations[i].name) = {}
  <2>1. CASE ok = TRUE
    <3>1. accepted' = [accepted EXCEPT ![index] = @ + 1]
      BY <1>1, <2>1 DEF Validate, Accept
    <3>2. \A i \in Slots : i # index => accepted'[i] = accepted[i]
      BY <1>4, <3>1
    <3> QED
      BY <1>5, <2>1, <3>2 DEF OutputInv
  <2>2. CASE ok = FALSE
    BY <1>1, <2>2 DEF Validate, Reject, OutputInv
  <2> QED
    BY <2>1, <2>2
<1>10. ASSUME rejected' # 0
       PROVE  WrongElements(Implementations[rejected'].name) # {}
  <2>1. CASE ok = TRUE
    BY <1>1, <1>10, <2>1 DEF Validate, Accept, OutputInv
  <2>2. CASE ok = FALSE
    <3>1. rejected' = index
      BY <1>1, <2>2 DEF Validate, Reject
    <3> QED
      BY <1>5, <2>2, <3>1
  <2> QED
    BY <2>1, <2>2
<1>11. /\ \A i \in Slots' : accepted'[i] # 0 =>
            WrongElements(Implementations[i].name)' = {}
       /\ rejected' # 0 =>
            WrongElements(Implementations[rejected].name)' # {}
  BY <1>3, <1>6, <1>9, <1>10 DEF WrongElements
<1> QED
  BY <1>7, <1>8, <1>11 DEF OutputInv

(* The callbacks that leave the vectors alone, and steps of nobody.        *)
LEMMA OtherStepsKeepOutput ==
  ASSUME RunnerInv, OutputInv,
         VectorPrepare \/ VectorObserve \/ VectorDestroy \/ UNCHANGED systemVars
  PROVE  OutputInv'
<1> USE DEF Looping
<1>1. CASE VectorPrepare
  BY <1>1, QuietStepKeepsOutput
  DEF VectorPrepare, Prepare, Vector!Prepare, Vector!fixtureVars, fixtureVars,
      record
<1>2. CASE VectorObserve
  <2>1. /\ call' = call /\ UNCHANGED <<accepted, rejected>>
        /\ pc = "observe" /\ UNCHANGED fixtureVars
    BY <1>2
    DEF VectorObserve, Observe, Vector!Observe, Vector!fixtureVars,
        fixtureVars, record
  <2>2. index' = index
    BY <1>2 DEF VectorObserve, Observe, Fail
  <2> QED
    BY <2>1, <2>2, QuietStepKeepsOutput
<1>3. CASE VectorDestroy
  <2>1. /\ call' = call /\ UNCHANGED <<accepted, rejected>>
        /\ pc = "cleanup" /\ pc' = "cleanup"
    BY <1>3 DEF VectorDestroy, Destroy, record, control
  <2>2. /\ build' = build /\ output' = output
    BY <1>3 DEF VectorDestroy, Vector!Destroy
  <2>3. Slots' = Slots /\ Implementations' = Implementations
    BY <2>1, SameArguments
  <2> QED
    BY <2>1, <2>2, <2>3 DEF OutputInv, WrongElements
<1>4. CASE UNCHANGED systemVars
  <2>1. /\ call' = call /\ UNCHANGED <<pc, index, accepted, rejected>>
        /\ UNCHANGED <<build, length, reference, output>>
    BY <1>4 DEF systemVars, vars, control, record, fixtureVars
  <2>2. Slots' = Slots /\ Implementations' = Implementations
    BY <2>1, SameArguments
  <2> QED
    BY <2>1, <2>2 DEF OutputInv, WrongElements, WrittenBy
<1> QED
  BY <1>1, <1>2, <1>3, <1>4

-----------------------------------------------------------------------------
(* What the arrays hold and what verdicts say, after every step.           *)
THEOREM OutputIsInvariant ==
  ASSUME BuildsAreTotal
  PROVE  SystemSpec => [](RunnerInv /\ MeasureInv /\ OutputInv)
<1>1. SystemInit => OutputInv
  <2> SUFFICES ASSUME SystemInit PROVE OutputInv
    OBVIOUS
  <2>1. Slots = {}
    BY DEF SystemInit, Init, NoCall, Count, Slots, Implementations,
           ImplementationsOf
  <2> QED
    BY <2>1 DEF SystemInit, Init, Vector!Init, OutputInv, Looping
<1>2. RunnerInv /\ MeasureInv /\ OutputInv /\ [SystemNext]_systemVars
        => OutputInv'
  <2> SUFFICES ASSUME RunnerInv, MeasureInv, OutputInv,
                      [SystemNext]_systemVars
               PROVE  OutputInv'
    OBVIOUS
  <2>1. CASE (CallerStep \/ RunnerStep) /\ UNCHANGED fixtureVars
    BY <2>1, RunnerKeepsOutput
  <2>2. CASE VectorStep
    BY <2>2, BuildsAreTotal, SetupKeepsOutput, InvokeKeepsOutput,
       ValidateKeepsOutput, OtherStepsKeepOutput
    DEF VectorStep
  <2>3. CASE UNCHANGED systemVars
    BY <2>3, OtherStepsKeepOutput
  <2> QED
    BY <2>1, <2>2, <2>3 DEF SystemNext
<1> QED
  BY <1>1, <1>2, RunnerInvariants, PTL DEF SystemSpec

(* A run succeeds only when every kernel agrees with the reference kernel  *)
(* at every element.                                                       *)
THEOREM SuccessAlwaysMeansAgreement ==
  ASSUME BuildsAreTotal
  PROVE  SystemSpec => []SuccessMeansAgreement
<1>1. RunnerInv /\ MeasureInv /\ OutputInv => SuccessMeansAgreement
  <2> SUFFICES ASSUME MeasureInv, OutputInv, pc = "returned", status = "ok",
                      NEW kernel \in Kernels
               PROVE  WrongElements(kernel) = {}
    BY DEF SuccessMeansAgreement
  <2>1. PICK i \in Slots : Implementations[i].name = kernel
    BY TheImplementations DEF OutputInv
  <2>2. accepted[i] # 0
    BY DEF MeasureInv, Closing, Complete
  <2> QED
    BY <2>1, <2>2 DEF OutputInv
<1> QED
  BY <1>1, OutputIsInvariant, PTL

(* A kernel is blamed only when it disagrees somewhere.                    *)
THEOREM BlameIsAlwaysDeserved ==
  ASSUME BuildsAreTotal
  PROVE  SystemSpec => []BlameIsDeserved
<1>1. RunnerInv /\ MeasureInv /\ OutputInv => BlameIsDeserved
  <2> SUFFICES ASSUME RunnerInv, OutputInv, pc = "returned",
                      status = "validation_failure",
                      call.failed_implementation
               PROVE  WrongElements(failed) # {}
    BY DEF BlameIsDeserved
  <2>1. /\ rejected \in Slots
        /\ failed = Implementations[rejected].name
    BY DEF RunnerInv, BlameInv
  <2>2. rejected # 0
    BY <2>1, ArgumentTypes DEF RunnerInv, TypeOK
  <2> QED
    BY <2>1, <2>2 DEF OutputInv
<1> QED
  BY <1>1, OutputIsInvariant, PTL

(* Nothing that was never written is compared or observed.                 *)
THEOREM ReadsAreAlwaysWritten ==
  ASSUME BuildsAreTotal
  PROVE  SystemSpec => []ReadsAreWritten
<1>1. RunnerInv /\ MeasureInv /\ OutputInv => ReadsAreWritten
  <2> SUFFICES ASSUME RunnerInv, OutputInv, pc \in {"observe", "validate"}
               PROVE  ReadsAreWritten
    BY DEF ReadsAreWritten
  <2> DEFINE kernel == Implementations[index].name
  <2>1. /\ build \in Builds /\ length \in 1 .. MaxLength
        /\ call \in Calls /\ index \in Slots
        /\ output = WrittenBy(kernel) /\ reference = WrittenBy("reference")
    BY DEF OutputInv, Looping, RunnerInv, ControlInv
  <2>2. kernel \in Kernels /\ "reference" \in Kernels
    BY <2>1, TheImplementations DEF Kernels, Order
  <2>3. /\ DOMAIN output = 0 .. length - 1
        /\ \A e \in 0 .. length - 1 : output[e] # "unwritten"
        /\ \A e \in 0 .. length - 1 : reference[e] # "unwritten"
    BY <2>1, <2>2, BuildsAreTotal, KernelsWriteAll
  <2>4. iteration % length \in 0 .. length - 1
    <3>1. iteration \in Nat /\ length \in Nat \ {0}
      BY <2>1, FloatSizeAssumption DEF RunnerInv, TypeOK
    <3> QED
      BY <3>1, Z3
  <2> QED
    BY <2>3, <2>4 DEF ReadsAreWritten, Vector!ObservedElement
<1> QED
  BY <1>1, OutputIsInvariant, PTL

-----------------------------------------------------------------------------
(***************************************************************************)
(* The loops of the kernels themselves, for vectors of every length: why   *)
(* the kernels of the repository write every element.                      *)
(***************************************************************************)

(***************************************************************************)
(* A multiple of four below the rounded-down length leaves room for a      *)
(* whole unrolled iteration, which ends at a multiple of four again.       *)
(***************************************************************************)
LEMMA UnrolledFits ==
  ASSUME NEW n \in Nat, NEW i \in Nat,
         i % 4 = 0, i < n - (n % 4)
  PROVE  /\ i + 4 <= n - (n % 4)
         /\ (i + 4) % 4 = 0
         /\ n - (n % 4) <= n
  BY Z3

(* The sums below i and the one at i are the sums below i + 1.             *)
LEMMA SumsGrow ==
  ASSUME NEW i \in Nat
  PROVE  Sums(i + 1) = Sums(i) \cup {SumAt(i)}
  BY DEF Sums

(* Four times that.                                                        *)
LEMMA SumsGrowByBody ==
  ASSUME NEW i \in Nat
  PROVE  Sums(i + 4) =
           Sums(i) \cup {SumAt(i), SumAt(i + 1), SumAt(i + 2), SumAt(i + 3)}
<1>1. Sums(i + 1) = Sums(i) \cup {SumAt(i)}
  BY SumsGrow
<1>2. Sums((i + 1) + 1) = Sums(i + 1) \cup {SumAt(i + 1)}
  BY SumsGrow
<1>3. Sums((i + 2) + 1) = Sums(i + 2) \cup {SumAt(i + 2)}
  BY SumsGrow
<1>4. Sums((i + 3) + 1) = Sums(i + 3) \cup {SumAt(i + 3)}
  BY SumsGrow
<1>5. (i + 1) + 1 = i + 2 /\ (i + 2) + 1 = i + 3 /\ (i + 3) + 1 = i + 4
  OBVIOUS
<1> QED
  BY <1>1, <1>2, <1>3, <1>4, <1>5

(* A longer prefix of the sums holds a shorter one.                        *)
LEMMA SumsMonotone ==
  ASSUME NEW i \in Nat, NEW n \in Nat, i <= n
  PROVE  Sums(i) \subseteq Sums(n)
  BY DEF Sums

-----------------------------------------------------------------------------
(* At every step of every kernel, for every length, exactly the sums below *)
(* index are stored.                                                       *)
THEOREM LoopsAreCorrect == KernelSpec => []LoopInvariant
<1> USE KernelLengthsAssumption
<1>1. KernelInit => LoopInvariant
  <2> SUFFICES ASSUME KernelInit PROVE LoopInvariant
    OBVIOUS
  <2>1. KernelTypeOK
    BY DEF KernelInit, KernelTypeOK
  <2>2. stores = Sums(kernel_index)
    BY DEF KernelInit, Sums
  <2>3. 0 <= UnrolledLength /\ 0 % Unroll = 0
    BY <2>1, Z3 DEF UnrolledLength, Unroll, KernelTypeOK
  <2> QED
    BY <2>1, <2>2, <2>3 DEF KernelInit, LoopInvariant, KernelTypeOK
<1>2. LoopInvariant /\ [KernelNext]_kernelVars
        => LoopInvariant'
  <2> SUFFICES ASSUME LoopInvariant, [KernelNext]_kernelVars
               PROVE  LoopInvariant'
    OBVIOUS
  <2> USE DEF LoopInvariant
  <2>0. /\ kernel_length \in Nat /\ kernel_index \in Nat
        /\ UnrolledLength \in Nat
    BY Z3 DEF KernelTypeOK, UnrolledLength, Unroll
  <2>1. CASE UnrolledIteration
    <3>1. /\ kernel_index + 4 <= UnrolledLength
          /\ (kernel_index + 4) % 4 = 0
      BY <2>0, <2>1, UnrolledFits
      DEF UnrolledIteration, UnrolledLength, Unroll
    <3>2. stores' = Sums(kernel_index')
      BY <2>0, <2>1, SumsGrowByBody
      DEF UnrolledIteration, BodyStores, Unroll
    <3>3. BodyStores \subseteq Nat \X Nat \X Nat
      BY <2>0 DEF BodyStores, SumAt
    <3>4. KernelTypeOK'
      BY <2>0, <2>1, <3>3
      DEF UnrolledIteration, KernelTypeOK, Unroll
    <3> QED
      BY <2>1, <3>1, <3>2, <3>4
      DEF UnrolledIteration, UnrolledLength, Unroll
  <2>2. CASE UnrolledExit
    <3>1. UnrolledLength <= kernel_length
      BY <2>0, Z3 DEF UnrolledLength, Unroll
    <3> QED
      BY <2>0, <2>2, <3>1 DEF UnrolledExit, KernelTypeOK
  <2>3. CASE SimpleIteration
    <3>1. stores' = Sums(kernel_index')
      BY <2>0, <2>3, SumsGrow DEF SimpleIteration
    <3>2. KernelTypeOK'
      BY <2>0, <2>3 DEF SimpleIteration, KernelTypeOK, SumAt
    <3> QED
      BY <2>0, <2>3, <3>1, <3>2 DEF SimpleIteration
  <2>4. CASE SimpleExit
    BY <2>0, <2>4 DEF SimpleExit, KernelTypeOK
  <2>5. CASE UNCHANGED kernelVars
    BY <2>5 DEF kernelVars, KernelTypeOK, UnrolledLength
  <2> QED
    BY <2>1, <2>2, <2>3, <2>4, <2>5 DEF KernelNext
<1> QED
  BY <1>1, <1>2, PTL DEF KernelSpec

(* No kernel touches an element beyond its length.                         *)
THEOREM KernelsStayInBounds == KernelSpec => []InBounds
<1>1. LoopInvariant => InBounds
  <2> SUFFICES ASSUME LoopInvariant PROVE InBounds
    OBVIOUS
  <2>1. kernel_length \in Nat /\ UnrolledLength <= kernel_length
    BY KernelLengthsAssumption, Z3
    DEF LoopInvariant, KernelTypeOK, UnrolledLength, Unroll
  <2>2. kernel_index \in Nat /\ kernel_index <= kernel_length
    BY <2>1, Z3 DEF LoopInvariant, KernelTypeOK, UnrolledLength, Unroll
  <2> QED
    BY <2>1, <2>2, SumsMonotone DEF LoopInvariant, InBounds
<1> QED
  BY <1>1, LoopsAreCorrect, PTL

(* Every kernel that returns has computed the whole vector addition.       *)
THEOREM KernelsReturnTheSum == KernelSpec => []ReturnsTheSum
<1>1. LoopInvariant => ReturnsTheSum
  BY DEF LoopInvariant, ReturnsTheSum
<1> QED
  BY <1>1, LoopsAreCorrect, PTL

(* In particular a kernel that returns has written every element of its    *)
(* output, with the sum of the operands' elements of the same index.       *)
THEOREM KernelsWriteEveryElement ==
  KernelSpec =>
    [](kernel_loop = "done" =>
         \A e \in 0 .. kernel_length - 1 :
           {store \in stores : store[1] = e} = {<<e, e, e>>})
<1>1. ReturnsTheSum =>
        (kernel_loop = "done" =>
           \A e \in 0 .. kernel_length - 1 :
             {store \in stores : store[1] = e} = {<<e, e, e>>})
  BY DEF ReturnsTheSum, Sums, SumAt
<1> QED
  BY <1>1, KernelsReturnTheSum, PTL
===============================================================================
