# A verification of the RISC-V Compute Toolkit

The toolkit measures numerical kernels. A C program, `rct_bench`, checks,
warms up, times and validates every implementation of a benchmark; a Python
package, `rct`, runs that program, parses what it prints and adds evidence of
how it was built. These modules are about whether a measurement can be trusted:
that a sample is the time of the invocation it claims to be of, that a wrong
kernel is not reported as valid, that a failure half way leaves nothing behind,
and that nothing is lost on the way to the experiment record.

Paths below are relative to the repository.

## Inventory

| Component | State | Operations | What makes it correct |
| --- | --- | --- | --- |
| Benchmark runner, `src/benchmark/benchmark_runner.c`, `include/rct/benchmark.h` | the caller's result and `failed_implementation`; local `fixture`, `status`, loop variables; heap blocks | `rct_run_benchmark`, `rct_benchmark_run_result_destroy` | nothing leaks or is freed twice; what is allocated is large enough; failures leave an empty result; blame is exact; nothing is measured before everything is checked; callbacks come in the promised order |
| Elapsed time, `rct_elapsed_ns` of the same file | locals | one call per sample | a sample is the true difference or the call is refused |
| Sample summary, `rct_benchmark_summarize_samples` of the same file | scratch copy | one call per implementation | minimum, median and mean are those of the samples, up to the rounding of doubles |
| Vector-add workload, `src/benchmark/vector_add_workload.c` | fixture of five blocks, expected sums, one shared output array | `setup`, `prepare`, `invoke`, `observe`, `validate`, `destroy` | blocks released once; nothing undefined is read; a wrong kernel is rejected |
| Kernels, `src/kernels/*.c` | loop index, output | three functions | every element stored, none beyond the length |
| Validation, `src/benchmark/validation.c` | none | `rct_validate_f32`, `rct_f32_nearly_equal` | tolerance policy over finite and non-finite values |
| Input generator, `src/benchmark/input.c` | 64-bit generator state | `rct_fill_vector_add_f32_inputs` | the same inputs for the same seed |
| Program, `src/benchmark/vector_add_bench.c` | configuration, result | argument parser, two printers, `main` | arguments mean what they say; the result is printed whole |
| Result protocol and parser, `rct/benchmark.py:35-194` | dictionaries of records and samples | `experiment_from_benchmark_protocol` | accepts exactly the well-formed texts, loses nothing |
| Collector, `rct/benchmark.py:197-267` | none between calls | `run_benchmark` | evidence in a record is of the binary that ran when nobody else is at work in the directory, and never older than it in the directory it was made in; a missing file costs its evidence only |
| Evidence readers, `rct/build_metadata.py`, `vectorization.py`, `codegen.py`, `disasm.py`, `capabilities.py` | none | readers of files and of `objdump` | what is unavailable is told from what is negative |
| Experiment record, `rct/experiment.py`; command line, `rct/cli.py` | immutable records | rendering, dispatch | errors become exit status 2 |
| Build configuration, `CMakeLists.txt`, `CMakePresets.json` | cache | which flags reach which kernel | the reference kernel stays neutral |
| Debugger helpers, `tools/gdb/rct.py`, `docs/debugging.md` | none | three commands | the walkthrough describes the program |

How they interact: `main` calls the runner with a definition from a static
registry; the runner calls the workload through function pointers and the
kernels through `invoke`; the workload calls the generator, the reference
kernel and the validation. `main` prints the result to a pipe that
`run_benchmark` reads to its end and parses; `run_benchmark` then reads the
build directory and disassembles the binary. There is one thread; the hard
behaviours are failures in the middle (allocations, clock, setup, validation,
output), state that outlives a call or an invocation (the result object,
`failed_implementation`, the shared output array), the order of callbacks and
loops, boundaries of integers and loops, and files that change while the
collector reads them. `PROJECT.json` lists them line by line under `hazards`,
with the properties that cover them.

## Modules

**BenchmarkContract** is the abstract specification: what `benchmark.h`
promises of a series of calls. The fixture has a lifecycle (setup once, rounds
of prepare, invoke, observe, destroy once), the timed interval contains the
invocation only, and a call returns a complete result on success, an empty one
on failure, and `validation_failure` exactly when an implementation was
rejected.

**BenchmarkRunner** is `rct_run_benchmark` with
`rct_benchmark_run_result_destroy`, called again and again by a caller with one
result object and one `failed_implementation` variable. `pc` names the next
statement that calls out; each such statement is an action that may fail in
each way the code tests for, and the code between two of them belongs to the
first. The workload's callbacks are actions of their own (`WorkloadStep`) so
that a workload can be composed with them. A heap block is a number; a sample
is, instead of a duration, the number of the invocation it is the time of,
which is what `SamplesAreMeasured` needs to tell warm-up, check and measured
invocations apart. `lifecycle`, `timed`, `invocations`, `accepted` and
`rejected` record what the code did and are read by properties only.
`MCBenchmarkRunner` gives the calls: good ones with one to three
implementations, and one of every kind of invalid argument.

**VectorAddWorkload** is the fixture and its callbacks. An element is `"sum"`,
`"other"` or `"unwritten"`; a build says what each kernel's machine code writes
at each element. **VectorAddBenchmark** composes it with the runner: each
callback is one step of both modules. `MCVectorAddBenchmark` has the builds.

**VectorAddKernels** is the three loops, their state the set of stores done.
Its names differ from the workload's (`KernelInit`, `kernel_index`), so that
one module can speak of both.

**ElapsedTime** is `rct_elapsed_ns`, in unsigned arithmetic of width `U64Max`
with a second of `Second` nanoseconds. **SampleSummary** is
`rct_benchmark_summarize_samples`; what `qsort` does is that any sequence in
which no neighbours are out of order, as the comparison says, may result.
`SummaryIsExact` compares with ranks counted in the samples and with their sum
by its recursion (`SumTo`).

**ResultProtocol** is the printer of `vector_add_bench.c:186-235`, the pipe and
the parser. A line is a record of its fields, or `malformed`. While
`rct_bench` prints it may be killed (its exit status refuses the output), or its
standard output may stop taking bytes in the middle of a line, which it does
not notice. The binary is the user's choice, so any other text may arrive too.

**RunBenchmark** is `run_benchmark` and the evidence readers it calls. Every
build has a number, and what a file holds is the number of the build it is of;
a record of evidence is then the number that was read. Each step of the
collector is one call that touches a file or a process, so that a check and the
read it guards are two steps. Between any two of them somebody may configure,
compile, link, remove or copy (`BuildStep`); how builds may be, good or with a
binary that fails or one of the three files as Python cannot read it, is chosen
as they are configured. An error that `rct` reports ends in `error`, any other exception in
`traceback`. What the readers make of the text of a file is reduced to its
outcome: unavailable, empty, found, error, exception.

**Validation** is `rct_validate_f32` with `rct_f32_nearly_equal`, over floats
of `Precision` bits with NaNs, infinities and signed zeros. `double` is a
format of `DoublePrecision` bits in which the product of two floats is exact
and a difference is rounded to nearest, ties to even. `Policy` is what the
header promises, about real numbers.

**ArgumentParser** is `rct_parse_arguments` as `main` calls it. A text that is
meant as a number is what `strtoumax` tells apart: what comes before the
digits, the number they denote, and whether anything follows.

**InputGenerator** is `rct_fill_vector_add_f32_inputs` with SplitMix64 as it
is, in 64 bits: a word is the set of the places of its one bits, and `+` and
`*` add up columns and carry. **PowersOfTwo** has the powers of two by their
recursion, because the provers know nothing of `^`.

The `...Proofs` modules hold theorems and proofs.

## Runs

| Run | What it asks | Bounds and why they are enough |
| --- | --- | --- |
| `runner` | memory, sizes, results, blame, order, the contract, termination, with every step failing everywhere and calls repeated without end | up to three implementations, so that there is an earlier and a later one to the one that fails; zero to two warm-up and up to three measured iterations, so that every loop is skipped or entered once or more; sizes that make both products overflow |
| `vector_add` | the fixture's blocks, undefined reads, wrong kernels | vectors of one and two elements, the shortest with an observed and an unobserved element; length 0 and one whose bytes overflow; every pattern of right and wrong elements |
| `stale_output` | the same with kernels that may skip elements: **violated**, see below | as above |
| `kernels` | bounds, tail and result of the loops | lengths 0 to 13: no to three unrolled iterations with each tail |
| `elapsed_time` | exactness and necessity of refusals | all pairs of reads of a five-bit clock with seconds of 3 ns; differences up to 47 where 31 is the largest representable one |
| `sample_summary` | minimum, median, mean | every list of up to five samples from 0 to 4, and one too long for its allocation |
| `result_protocol` | round trip, cut-off output, foreign text | two implementations with two samples of one or two digits, so that there is a last and an earlier sample of a last and an earlier implementation; every foreign text of four records over two names |
| `collector` | of which build each piece of a record is; when there is no record, and whether that is an error or a traceback | two directories, one the preset's; two builds, an earlier and a later one, of ten kinds (good, or with one of nine defects or omissions); two versions of CMake; two removals or copies, so that a file can vanish after a binary was copied in. Nothing is built once the collector has ended |
| `validation` | no vector within the policy is rejected, none beyond it accepted but by rounding; symmetry | floats of 2 bits and 6 exponents, doubles of 5 bits, so that differences of up to 8 bits have to be rounded; every pair of floats with ten tolerances each; vectors of two and three elements for the loop |
| `arguments` | what main runs with is what was asked for | four options, enough for one to come twice beside `--benchmark` and another; `size_t` of 2 and `uint64_t` of 3 bits; texts at, below and above every limit |
| `arguments_minus` | the number run with is the one the text denotes: **violated**, see below | as above |
| `inputs` | the values drawn | all 64 bits; eight seeds, among them the test's, the program's, zero, all ones and others whose sums carry far; vectors of up to five elements |

Each property has a mutant: a definition of the model changed as a plausible
bug in the code would, under which TLC finds the property violated. They stand
before the definitions they change, marked `Mutant`.

`CHECK_DEADLOCK FALSE` is set where one call is modelled and ends
(`VectorAddKernels`, `ElapsedTime`, `SampleSummary`, `ResultProtocol`,
`RunBenchmark`, `Validation`, `ArgumentParser`, `InputGenerator`). The
runner's caller may always call again, so deadlock is checked there.

### What the violated runs show

`rct_vector_add_f32_prepare` does nothing, and all implementations write to one
output array. The reference kernel is invoked first; if the next one wrote
nothing, `validate` would compare the reference kernel's sums with themselves.
`SuccessMeansAgreement` therefore holds only of kernels that write every element
(run `vector_add`) and fails of others (run `stale_output`). `README.md:5`
promises to "validate every result"; the fake workload of
`tests/c/test_portable_vector_add.c:67-71` does clear its output in `prepare`,
and its test expects an implementation that writes nothing to be rejected.

`rct_parse_u64` refuses texts that begin with `-`, but `strtoumax` skips white
space before a sign: `--length " -6"` is read as 2^64 - 6, where another text
would be answered with "--length must be a positive integer"
(`vector_add_bench.c:114`). `NumbersAreDenoted` fails in run `arguments_minus`;
`OnlyBlankMinusWraps`, checked in run `arguments`, says that this is the only
way a number can be read as another one.

### What else the runs showed

- An error just beyond a tolerance is accepted when its rounding to a double
  hides the excess; `AcceptedIsPolicy` bounds it by a part in 2^53. Nothing
  within the policy is ever rejected.
- The last shift of SplitMix64 does not reach the 24 bits a sample keeps.
- A build that does not write the vectorization report (only GCC is asked to)
  or `compile_commands.json` (only the presets ask for it) leaves those of an
  earlier build where they are, and they are recorded as its own: nothing in
  these files says which build they are of. `RecordIsOfOneBuild` and
  `EvidenceIsNotOlder` therefore speak of the files a build writes (`Writes`).
- A file that vanishes between `is_file` or `glob` and the read ends `rct` with
  a traceback instead of a reported error, and so does a binary's output, a
  compile command, a report or a compiler file that Python cannot read.
  `BuildsDoNotRace` says that nothing else does, builds in the middle of the
  collection included; `SettledBuildIsRecorded` that in a directory nobody
  touches only such a text, and no missing file, costs the record.
- Two things go into a record unnoticed: evidence of a build that was made
  while the collector was at work, and, with `--binary`, evidence of whatever
  was built where the binary was copied to. No property excludes them.

## Fairness

`EveryCallReturns` assumes weak fairness of the runner's and the workload's
steps together: one thread executes them and every callback returns. The
caller is assumed to do nothing. `Returns` of the kernels assumes weak
fairness of the loop, which is the execution of the code. No other property
assumes any.

## Proofs

All theorems are for every value of the constants under the named assumptions:
any set of calls of the right shape, any number of implementations and
iterations, any sizes. The inductive invariants stand at the end of the module
they are about (the argument parser's with its proofs), and TLC finds them true
of the instances of the runs.

*Runner* (`BenchmarkRunnerProofs`). The invariants the run checks are not
inductive. `RunnerInv` is, and has five parts: `TypeOK`, with the loop
variables within the arrays they index; `ControlInv`, that a step of a loop is
only reached inside its loop and after a valid call; `ResultInv`, which of its
three states the caller's object is in follows from `pc`; `BlocksInv`, that
block `i` is what entry `i` points to or nothing does, and that the heap is
exactly that; `BlameInv`, that status, `rejected` and
`failed_implementation` agree. `RunnerIsInvariant` proves it action by action;
`HeapIsAlwaysOwned`, `FailuresLeaveEmpty` and `BlameIsAlwaysExact` follow from
it. So does `AllocationsAlwaysFit`, with a fact about division
(`FittingProduct`): that the test by division of `rct_multiply_size` lets no
product pass that is beyond `SIZE_MAX`.

*Measurements* (the same module). `MeasureInv` says what has happened to each
implementation when a loop is at one of them. In the first loop those before it
are checked (invoked and accepted once) and those after it fresh; in the second
those before it are complete, those after it checked, and the one it is at was
invoked once for its check and once per iteration so far, each of its samples
being of its own measured invocation. With `RunnerInv` it is inductive
(`MeasureIsInvariant`); `SamplesAreAlwaysMeasured` and
`MeasurementIsAlwaysGated` follow. Of a call that succeeds
`RunnerInv` says that its result is the block of entries, so that what holds of
the entries holds of the result.

*Contract* (the same module). `RunnerKeepsContract` shows that every step of the
runner is a step of `BenchmarkContract` or changes nothing of what the contract
speaks of. It needs `RunnerInv` and two more parts that are invariant only
together with it: `LifecycleInv`, that where the fixture is follows from `pc`,
so a callback is never called out of turn; and `VerdictInv`, that nothing is
warmed up, measured or returned as a success before some output was accepted.

*Composition* (`VectorAddBenchmarkProofs`). `BenchmarkImplementsRunner` shows
that the composed system refines the runner, so its invariants are inherited
(`BenchmarkHeapIsOwned`); `FixtureInv`, that the runner has a fixture at most
between setup and cleanup and the five blocks are allocated exactly then, gives
`FixtureIsAlwaysReleased`. `OutputInv` says what the two arrays hold in the
loops: `reference` what the reference kernel wrote, `output` what the last
kernel wrote; and that a verdict is one about the kernel's own values. It is
inductive with the runner's invariants, which the composed system inherits, and
gives `SuccessAlwaysMeansAgreement`, `BlameIsAlwaysDeserved` and
`ReadsAreAlwaysWritten`. These three assume `BuildsAreTotal`, that every kernel
writes every element: `KernelsWriteEveryElement` proves this of the
repository's kernels, and run `stale_output` shows that the first fails of
others.

*Kernels* (the same module). `LoopInvariant`: the stores are the sums below
`kernel_index`, and an unrolled iteration starts at a multiple of four. Bounds
and result follow. `KernelsWriteEveryElement` says of a kernel that returns that
each element was stored exactly once, as the sum of its own operands; a build of
such kernels is one `BuildsAreTotal` admits.

*Elapsed time* (`ElapsedTimeProofs`). `ElapsedInv`: at the last step
`seconds * Second + nanoseconds` is the true difference, so the bound decides
representability exactly. Assumed: a second fits twice into the type, and
`tv_sec` is not negative, as of a monotonic clock.

*Argument parser* (`ArgumentParserProofs`). `ParserInv` has six parts beside
`TypeOK`: while a value is awaited there is room for it; a benchmark is chosen
once; length and iterations are positive unless parsing has failed; every
option that was given was given last somewhere; until parsing fails each member
of the configuration is what that last value says; and every number that was
given passed its checks. The last part with `ParsedNumber`, which says what
passes them, gives `NothingElseWraps`; `RunWasAskedFor` and `LastValueDecides`
follow from the others. Assumed: `size_t` is no wider than `uint64_t`, that no
wider than `uintmax_t`, and no benchmark is called NULL.

*Collector* (`RunBenchmarkProofs`). `RecordInv` is about the directories first.
`DirectoryInv`: where nobody has removed or copied a file since its last build
was begun, a directory holds what that build has written so far. `AgeInv`: once
a binary is linked, the directory it was made in never again holds anything
older of what that build writes, wherever the binary has been copied and
whatever is being built; this is what makes evidence that is read later than
the binary ran no older than it. `CollectorInv` and `SettledInv` then say what
has been read so far, of any build and of a directory nobody touches, and
`RaceInv` that what was checked stays there while nothing is removed.
`EvidenceIsNeverOlder`, `RecordsAreOfOneBuild`, `SettledBuildsAreRecorded` and
`BuildsNeverRace` follow, for any number of directories, versions of CMake, builds, removals and
copies.

*Result protocol* (`ResultProtocolProofs`). Two invariants. `ResultInv` is about
`rct_bench`: the lines of its text are numbered by cursors (an implementation
and a sample of it), each line in the pipe follows the one before it in this
order, only the last may be what is left of a line, and the parser's
dictionaries are determined by the cursor of the last line it has read. From it
`CutOffsCostDigitsOnly`: a text can only be accepted at the cursor of the very
last sample; and `WholeTextIsAccepted`, an action property: at every cursor
either branch of the parser's loop takes the next line. `ScanInv` is about any
text: the dictionaries are a reading of the lines before `position`, each
sample counted at its implementation; then where the records end is the same in
any well-formed reading of the text, every refusal contradicts one, and
acceptance is one (`ExactlyWellFormedIsAccepted`). Assumed: results have
implementations, with distinct names and as many samples as were measured
iterations, because `rct_run_benchmark` refuses everything else
(`benchmark_runner.c:70-104`, `:206`); and numbers of foreign lines are natural
ones, because the parser takes no others (`benchmark.py:35-38`).

*Sample summary* (`SampleSummaryProofs`). `SummaryInv`: from the sort on the copy
is a sorted rearrangement of the samples, and `total` is the sum of those added
so far. That `SumTo` satisfies its recursion at all is shown first, by the least
number of samples without such sums (`SumsExist`). Ranks are
counted in the samples and read off positions in the copy, which takes a
bijection between the two and cardinalities of intervals. That neighbours in
order make a sorted sequence is shown by its least counterexample
(`LeastElement`), as induction is out of reach of the provers.

*Validation* (`ArithmeticProofs`). `LoopInv`: the tolerances are valid while the
loop runs, and every element before `index` was accepted. The rest is about one
comparison and takes most of the proof, because the code rounds a difference to
a double and the policy does not. Rounding yields a nearest multiple of a power
of two, the spacing, and never jumps over a number of few digits: both
tolerances are such numbers, the relative one because a product of two floats
is exact in a double, so a difference within one stays within it
(`AcceptsThePolicy`). A difference that is rounded at all has more digits than
a double, so what rounding hides is at most a part in 2^53 of it
(`AcceptsOnlyThePolicy`). The equation of the powers of two, like that of any
recursive function, is proved by induction over a set of numbers, which follows
from its least missing number (`SetInduction`). Assumed: a double has at least
twice the digits of a float (53 and 24), and 1.0 is a power of two.

*Generator* (the same module). `GeneratorInv`: the state is the seed plus as
many increments, modulo 2^64, as stores were done, and each store wrote the draw
of its index. That a step keeps it is a fact about the words: `Add` and
`Multiply`, which add up columns bit by bit, are addition and multiplication
modulo 2^64 (`AddIsSum`, `MultiplyIsProduct`), and a word is determined by its
number modulo 2^64 (`WordsAreDetermined`). The first is an invariant of the
carries, the second an induction over the places of one factor, each adding the
other factor moved up. `DrawsAreAlwaysIndexed` and `GeneratorIsTyped` follow for
every seed and length.

Only model-checked:
- liveness (`EveryCallReturns`, `Returns`), which the provers do not handle;
- `GoldenValues`: values computed from one seed, not a statement about all.

## Assumptions and what is not modelled

- A setup that succeeds makes a fixture (all setups in the repository do). The
  caller destroys a complete result before it uses the object again, as the
  header asks of its owner. Every callback returns.
- Floating point: sums are abstract in the workload, exact in the summary, and
  rounded as IEEE 754 rounds in the validation, where neither overflow nor
  subnormal doubles can occur.
- A build directory is only configured with later and later versions of CMake
  (the collector takes the last in string order, 3.9 after 3.31), `CMakeFiles`
  is removed as a whole if at all, as by `cmake --fresh`, never the compiler file
  of one version out of several (the collector would read that of an older
  configuration), and whoever
  touches a file while it is being read leaves either the old or the new one.
  `objdump` prints text. That a build is complete means that it was configured,
  compiled and linked in this order with nothing removed or copied since.
- What the evidence readers make of the text of flags, diagnostics and
  mnemonics, and the query of the processor's extensions, are functions of
  their input without state and not modelled; neither are rendering, data
  classes, argument declarations, CMake's choice of flags (its pattern for
  requested ISAs included) and the table printed for people.
- The debugger helpers are commands for people. The walkthrough of
  `docs/debugging.md` is not modelled.

## State and plan

All components with state are modelled. Every safety property the passing runs
check is proved for every value of the constants, but for `GoldenValues`. What
could still be added is outside of the models: the text the evidence readers
parse, and CMake's choice of flags.
