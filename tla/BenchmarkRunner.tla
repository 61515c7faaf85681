--------------------------- MODULE BenchmarkRunner ---------------------------
(***************************************************************************)
(* rct_run_benchmark and rct_benchmark_run_result_destroy of               *)
(* src/benchmark/benchmark_runner.c, called again and again by a caller    *)
(* that keeps one result object and one failed_implementation variable.    *)
(*                                                                         *)
(* The C function is sequential: pc names the next statement that calls    *)
(* out (an allocation, a clock read, a workload callback, the kernel) and  *)
(* every such call may fail in each way the code tests for.  Heap blocks   *)
(* are numbers: ResultsBlock is the array of implementation results and    *)
(* block i holds the samples of the i-th implementation.  A sample is not  *)
(* a duration here but the number of the invocation that was timed.        *)
(***************************************************************************)
EXTENDS Integers, Sequences, FiniteSets

CONSTANTS
  Calls,        \* the argument lists the caller may call with
  Names,        \* names of implementations, compared as strcmp does
  NoText,       \* a name that is NULL or empty
  NULL,         \* the null pointer as an argument, or *failed_implementation
  SizeMax,      \* SIZE_MAX
  ResultSize,   \* sizeof(rct_benchmark_implementation_result)
  SampleSize    \* sizeof(uint64_t)

Callbacks == {"setup", "prepare", "validate", "observe", "destroy"}

Text == Names \cup {NoText}

Implementation == [name : Text, source_path : Text, invoke : BOOLEAN]

Definition == [name : Text, workload : SUBSET Callbacks,
               implementations : Seq(Implementation)]

RunConfig == [warmup : Nat, measured : Nat]

(* The pointers are NULL or good; run_result and failed_implementation say *)
(* whether the caller passed the address of its variable.                  *)
Call == [definition : Definition \cup {NULL}, workload_config : BOOLEAN,
         run_config : RunConfig \cup {NULL}, run_result : BOOLEAN,
         failed_implementation : BOOLEAN]

ASSUME CallsAssumption == Calls \subseteq Call
ASSUME NullAssumption == NULL \notin Definition \cup RunConfig \cup Text
ASSUME NoTextAssumption == NoText \notin Names
ASSUME SizesAssumption == /\ SizeMax \in Nat
                          /\ ResultSize \in Nat \ {0}
                          /\ SampleSize \in Nat \ {0}

VARIABLES
  call,         \* the arguments of the latest call
  pc,           \* the next step of the runner, "idle" or "returned"
  stage,        \* the loop the runner is in: "check", "warmup", "measure"
  index,        \* its implementation, from 1
  iteration,    \* its iteration, from 0
  status,       \* the local variable status
  fixture,      \* whether the local variable fixture is not NULL
  result,       \* the caller's rct_benchmark_run_result
  entries,      \* what the block of implementation results holds
  samples,      \* what the blocks of samples hold, 0 where nothing is written
  heap,         \* the blocks that are allocated
  fault,        \* whether a block was used or freed that is not allocated
  failed,       \* the caller's failed_implementation variable
  lifecycle,    \* what the workload has been asked for (BenchmarkContract)
  timed,        \* whether the start of an interval is read and its end is not
  invocations,  \* how often each implementation was invoked in this call
  accepted,     \* how often its output was found valid
  rejected      \* the implementation whose output was found invalid, or 0

control == <<pc, stage, index, iteration, status>>
memory == <<result, entries, samples, heap, fault>>
workload == <<fixture, lifecycle, timed>>
record == <<invocations, accepted, rejected>>
vars == <<call, control, memory, workload, failed, record>>

-----------------------------------------------------------------------------
(***************************************************************************)
(* Arguments and their checks.                                             *)
(***************************************************************************)
ImplementationsOf(c) ==
  IF c.definition = NULL THEN <<>> ELSE c.definition.implementations

MeasuredOf(c) == IF c.run_config = NULL THEN 0 ELSE c.run_config.measured

Implementations == ImplementationsOf(call)
Count == Len(Implementations)
Slots == 1 .. Count
Warmup == IF call.run_config = NULL THEN 0 ELSE call.run_config.warmup
Measured == MeasuredOf(call)
SampleIndexes == 0 .. Measured - 1

(* Mutant: the product that has wrapped around is compared with a factor.  *)
WrappedFits(left, right) == (left * right) % (SizeMax + 1) >= left

MultiplyFits(left, right) == ~ (left # 0 /\ right > SizeMax \div left)

DefinitionIsValid ==
  /\ call.definition # NULL
  /\ call.definition.name # NoText
  /\ Count # 0
  /\ call.definition.workload = Callbacks

(* Mutant: the search for an earlier implementation of the same name is    *)
(* left out.                                                               *)
DuplicateNamesPass ==
  \A i \in Slots :
    /\ Implementations[i].name # NoText
    /\ Implementations[i].source_path # NoText
    /\ Implementations[i].invoke

ImplementationsAreValid ==
  \A i \in Slots :
    /\ Implementations[i].name # NoText
    /\ Implementations[i].source_path # NoText
    /\ Implementations[i].invoke
    /\ \A previous \in 1 .. i - 1 :
         Implementations[previous].name # Implementations[i].name

CallIsValid ==
  /\ call.run_result
  /\ call.workload_config
  /\ call.run_config # NULL
  /\ Measured # 0
  /\ DefinitionIsValid
  /\ ImplementationsAreValid
  /\ MultiplyFits(Count, ResultSize)
  /\ MultiplyFits(Measured, SampleSize)

-----------------------------------------------------------------------------
(***************************************************************************)
(* The memory behind the result object.                                    *)
(***************************************************************************)
Null == -1           \* a null pointer in the result
Garbage == -2        \* a pointer nobody has initialized
ResultsBlock == 0

Empty == [implementations |-> Null, count |-> 0]

BlankEntry(name) == [name |-> name, valid |-> FALSE, samples_ns |-> Null,
                     sample_count |-> 0, summary |-> {}]

(* Nothing known of any implementation of the call c.                      *)
BlankEntries(c) ==
  [i \in 1 .. Len(ImplementationsOf(c)) |-> BlankEntry(NoText)]

BlankSamples(c) ==
  [i \in 1 .. Len(ImplementationsOf(c)) |->
     [k \in 0 .. MeasuredOf(c) - 1 |-> 0]]

Zeros(c) == [i \in 1 .. Len(ImplementationsOf(c)) |-> 0]

(* The pointers rct_benchmark_run_result_destroy passes to free.           *)
SamplePointers == {entries[i].samples_ns : i \in 1 .. result.count}

(* Mutant: the array is freed and the samples it points to are not.        *)
ForgetSamples ==
  /\ IF result.implementations \in heap \cup {Null}
     THEN heap' = heap \ {result.implementations} /\ fault' = fault
     ELSE fault' = TRUE /\ heap' = heap
  /\ result' = Empty

DestroyResult ==
  LET freed == {result.implementations} \cup
               (IF result.count = 0 THEN {} ELSE SamplePointers)
  IN  /\ IF result.count # 0 /\ result.implementations \notin heap
         THEN fault' = TRUE /\ heap' = heap
         ELSE /\ fault' = (fault \/ ~ (freed \ {Null} \subseteq heap))
              /\ heap' = heap \ freed
      /\ result' = Empty

-----------------------------------------------------------------------------
(***************************************************************************)
(* Where the loops of rct_run_benchmark go next.                           *)
(***************************************************************************)

(* The head of the measurement loop at implementation i.  Mutant: the loop *)
(* condition is <= for <.                                                  *)
MeasurePastEnd(i) ==
  /\ index' = i
  /\ pc' = IF i <= Count + 1 THEN "allocate_samples" ELSE "cleanup"
  /\ stage' = "warmup"

MeasureFrom(i) ==
  /\ index' = i
  /\ pc' = IF i <= Count THEN "allocate_samples" ELSE "cleanup"
  /\ stage' = "warmup"

(* The head of the checking loop at implementation i.  Mutant: the         *)
(* measurement starts when the first implementation is checked.            *)
CheckOnlyFirst(i) ==
  IF i <= 1
  THEN index' = i /\ pc' = "prepare" /\ stage' = "check"
  ELSE MeasureFrom(1)

CheckFrom(i) ==
  IF i <= Count
  THEN index' = i /\ pc' = "prepare" /\ stage' = "check"
  ELSE MeasureFrom(1)

(* The head of the warm-up or of the measuring loop once n iterations of   *)
(* it are done; the warm-up falls through to the first measured iteration. *)
(* Mutant: the warm-up condition is <= for <.                              *)
WarmUpOnceMore(loop, n) ==
  IF loop = "warmup" /\ n <= Warmup
  THEN stage' = "warmup" /\ iteration' = n /\ pc' = "prepare"
  ELSE LET m == IF loop = "warmup" THEN 0 ELSE n
       IN  /\ stage' = "measure"
           /\ iteration' = m
           /\ pc' = IF m < Measured THEN "prepare" ELSE "validate"

Iterate(loop, n) ==
  IF loop = "warmup" /\ n < Warmup
  THEN stage' = "warmup" /\ iteration' = n /\ pc' = "prepare"
  ELSE LET m == IF loop = "warmup" THEN 0 ELSE n
       IN  /\ stage' = "measure"
           /\ iteration' = m
           /\ pc' = IF m < Measured THEN "prepare" ELSE "validate"

(* status = why; goto cleanup                                              *)
Fail(why) ==
  /\ status' = why
  /\ pc' = "cleanup"
  /\ UNCHANGED <<stage, index, iteration>>

-----------------------------------------------------------------------------
(* Before the first call there are no arguments.                           *)
NoCall == [definition |-> NULL, workload_config |-> FALSE, run_config |-> NULL,
           run_result |-> FALSE, failed_implementation |-> FALSE]

Init ==
  /\ call = NoCall
  /\ pc = "idle"
  /\ stage = "check"
  /\ index = 1
  /\ iteration = 0
  /\ status = "ok"
  /\ fixture = FALSE
  /\ result \in {Empty, [implementations |-> Garbage, count |-> 1]}
  /\ entries = BlankEntries(call)
  /\ samples = BlankSamples(call)
  /\ heap = {}
  /\ fault = FALSE
  /\ failed \in Names \cup {NULL}
  /\ lifecycle = "none"
  /\ timed = FALSE
  /\ invocations = Zeros(call)
  /\ accepted = Zeros(call)
  /\ rejected = 0

(***************************************************************************)
(* The caller.                                                             *)
(***************************************************************************)

(* A call, with a result object that holds nothing left to destroy.        *)
CallRunner(c) ==
  /\ pc = "idle" \/ (pc = "returned" /\ status # "ok")
  /\ call' = c
  /\ pc' = "enter"
  /\ stage' = "check"
  /\ index' = 1
  /\ iteration' = 0
  /\ status' = "ok"
  /\ fixture' = FALSE
  /\ entries' = BlankEntries(c)
  /\ samples' = BlankSamples(c)
  /\ lifecycle' = "none"
  /\ timed' = FALSE
  /\ invocations' = Zeros(c)
  /\ accepted' = Zeros(c)
  /\ rejected' = 0
  /\ UNCHANGED <<result, heap, fault, failed>>

(* rct_benchmark_run_result_destroy by the caller, after any outcome.      *)
Discard ==
  /\ pc = "returned"
  /\ call.run_result
  /\ pc' = "idle"
  /\ DestroyResult
  /\ UNCHANGED <<call, stage, index, iteration, status, entries, samples,
                 workload, failed, record>>

(***************************************************************************)
(* The runner, before and after the workload is used.                      *)
(***************************************************************************)
(* Mutant: the result is not zeroed before the arguments are checked.      *)
EnterWithStaleResult ==
  /\ pc = "enter"
  /\ failed' = IF call.failed_implementation THEN NULL ELSE failed
  /\ IF CallIsValid
     THEN pc' = "allocate" /\ status' = status
     ELSE pc' = "returned" /\ status' = "invalid_configuration"
  /\ UNCHANGED <<call, stage, index, iteration, memory, workload, record>>

Enter ==
  /\ pc = "enter"
  /\ failed' = IF call.failed_implementation THEN NULL ELSE failed
  /\ result' = IF call.run_result THEN Empty ELSE result
  /\ IF CallIsValid
     THEN pc' = "allocate" /\ status' = status
     ELSE pc' = "returned" /\ status' = "invalid_configuration"
  /\ UNCHANGED <<call, stage, index, iteration, entries, samples, heap, fault,
                 workload, record>>

Allocate(ok) ==
  /\ pc = "allocate"
  /\ IF ok
     THEN /\ pc' = "setup"
          /\ heap' = heap \cup {ResultsBlock}
          /\ result' = [implementations |-> ResultsBlock, count |-> Count]
          /\ entries' = [i \in Slots |-> BlankEntry(Implementations[i].name)]
          /\ UNCHANGED status
     ELSE /\ pc' = "returned"
          /\ status' = "allocation_failure"
          /\ UNCHANGED <<heap, result, entries>>
  /\ UNCHANGED <<call, stage, index, iteration, samples, fault, workload,
                 failed, record>>

(* The end of the function, once there is no fixture to destroy.           *)
Finish ==
  /\ pc = "cleanup"
  /\ ~ fixture
  /\ pc' = IF status = "ok" THEN "returned" ELSE "release"
  /\ UNCHANGED <<call, stage, index, iteration, status, memory, workload,
                 failed, record>>

Release ==
  /\ pc = "release"
  /\ pc' = "returned"
  /\ DestroyResult
  /\ UNCHANGED <<call, stage, index, iteration, status, entries, samples,
                 workload, failed, record>>

(***************************************************************************)
(* The runner, measuring.                                                  *)
(***************************************************************************)
AllocateSamples(ok) ==
  /\ pc = "allocate_samples"
  /\ IF ok
     THEN /\ Iterate("warmup", 0)
          /\ heap' = heap \cup {index}
          /\ entries' = [entries EXCEPT ![index] =
               [@ EXCEPT !.samples_ns = index, !.sample_count = Measured]]
          /\ UNCHANGED <<index, status>>
     ELSE Fail("allocation_failure") /\ UNCHANGED <<heap, entries>>
  /\ UNCHANGED <<call, result, samples, fault, workload, failed, record>>

(* Mutant: a failing read of the clock is tried again.                     *)
RetryClock(ok) ==
  /\ pc = "start_clock"
  /\ timed' = ok
  /\ pc' = IF ok THEN "invoke" ELSE "prepare"
  /\ UNCHANGED <<call, stage, index, iteration, status, memory, fixture,
                 lifecycle, failed, record>>

StartClock(ok) ==
  /\ pc = "start_clock"
  /\ IF ok
     THEN /\ timed' = TRUE
          /\ pc' = "invoke"
          /\ UNCHANGED <<stage, index, iteration, status>>
     ELSE Fail("clock_failure") /\ UNCHANGED timed
  /\ UNCHANGED <<call, memory, fixture, lifecycle, failed, record>>

(* Mutant: a failing read goes to cleanup at once.                         *)
EndClockUnobserved(ok) ==
  /\ pc = "end_clock"
  /\ timed' = FALSE
  /\ pc' = IF ok THEN "observe" ELSE "cleanup"
  /\ status' = IF ok THEN status ELSE "clock_failure"
  /\ UNCHANGED <<call, stage, index, iteration, memory, fixture, lifecycle,
                 failed, record>>

(* A failing read still lets the workload observe the invocation.          *)
EndClock(ok) ==
  /\ pc = "end_clock"
  /\ timed' = FALSE
  /\ pc' = "observe"
  /\ status' = IF ok THEN status ELSE "clock_failure"
  /\ UNCHANGED <<call, stage, index, iteration, memory, fixture, lifecycle,
                 failed, record>>

(* rct_elapsed_ns and the store of its result.                             *)
Store(ok) ==
  /\ pc = "store"
  /\ IF ok
     THEN /\ samples' =
               [samples EXCEPT ![index][iteration] = invocations[index]]
          /\ fault' = (fault \/ entries[index].samples_ns \notin heap)
          /\ Iterate("measure", iteration + 1)
          /\ UNCHANGED <<index, status>>
     ELSE Fail("clock_failure") /\ UNCHANGED <<samples, fault>>
  /\ UNCHANGED <<call, result, entries, heap, workload, failed, record>>

(* rct_benchmark_summarize_samples, which fails when its scratch copy of   *)
(* the samples cannot be allocated, and valid = true.                      *)
Summarize(ok) ==
  /\ pc = "summarize"
  /\ IF ok
     THEN /\ entries' = [entries EXCEPT ![index] =
               [@ EXCEPT !.summary = {samples[index][k] : k \in SampleIndexes},
                         !.valid = TRUE]]
          /\ fault' = (fault \/ entries[index].samples_ns \notin heap)
          /\ MeasureFrom(index + 1)
          /\ UNCHANGED <<iteration, status>>
     ELSE Fail("allocation_failure") /\ UNCHANGED <<entries, fault>>
  /\ UNCHANGED <<call, result, samples, heap, workload, failed, record>>

-----------------------------------------------------------------------------
(***************************************************************************)
(* The runner, calling the workload.  What the workload does of its own    *)
(* state is for the module that composes the two.                          *)
(***************************************************************************)

(* A setup that succeeds makes a fixture; one that fails may have made one.*)
Setup(ok, made) ==
  /\ pc = "setup"
  /\ ok => made
  /\ fixture' = made
  /\ lifecycle' = IF made THEN "ready" ELSE "none"
  /\ IF ok
     THEN CheckFrom(1) /\ UNCHANGED <<iteration, status>>
     ELSE Fail("setup_failure")
  /\ UNCHANGED <<call, memory, timed, failed, record>>

Prepare ==
  /\ pc = "prepare"
  /\ lifecycle' = "prepared"
  /\ pc' = IF stage = "measure" THEN "start_clock" ELSE "invoke"
  /\ UNCHANGED <<call, stage, index, iteration, status, memory, fixture,
                 timed, failed, record>>

Invoke ==
  /\ pc = "invoke"
  /\ lifecycle' = "invoked"
  /\ invocations' = [invocations EXCEPT ![index] = @ + 1]
  /\ pc' = IF stage = "measure" THEN "end_clock" ELSE "observe"
  /\ UNCHANGED <<call, stage, index, iteration, status, memory, fixture,
                 timed, failed, accepted, rejected>>

Observe ==
  /\ pc = "observe"
  /\ lifecycle' = "ready"
  /\ \/ /\ status # "ok"
        /\ Fail(status)
     \/ /\ status = "ok" /\ stage = "check"
        /\ pc' = "validate"
        /\ UNCHANGED <<stage, index, iteration, status>>
     \/ /\ status = "ok" /\ stage = "warmup"
        /\ Iterate("warmup", iteration + 1)
        /\ UNCHANGED <<index, status>>
     \/ /\ status = "ok" /\ stage = "measure"
        /\ pc' = "store"
        /\ UNCHANGED <<stage, index, iteration, status>>
  /\ UNCHANGED <<call, memory, fixture, timed, failed, record>>

Accept ==
  /\ accepted' = [accepted EXCEPT ![index] = @ + 1]
  /\ IF stage = "check"
     THEN CheckFrom(index + 1) /\ UNCHANGED <<iteration, status>>
     ELSE pc' = "summarize" /\ UNCHANGED <<stage, index, iteration, status>>
  /\ UNCHANGED <<failed, rejected>>

Reject ==
  /\ rejected' = index
  /\ failed' = IF call.failed_implementation THEN Implementations[index].name
                                             ELSE failed
  /\ Fail("validation_failure")
  /\ UNCHANGED accepted

Validate(ok) ==
  /\ pc = "validate"
  /\ IF ok THEN Accept ELSE Reject
  /\ UNCHANGED <<call, memory, workload, invocations>>

Destroy ==
  /\ pc = "cleanup"
  /\ fixture
  /\ fixture' = FALSE
  /\ lifecycle' = "destroyed"
  /\ UNCHANGED <<call, control, memory, timed, failed, record>>

-----------------------------------------------------------------------------
RunnerStep ==
  \/ Enter
  \/ Finish
  \/ Release
  \/ \E ok \in BOOLEAN : \/ Allocate(ok)
                         \/ AllocateSamples(ok)
                         \/ StartClock(ok)
                         \/ EndClock(ok)
                         \/ Store(ok)
                         \/ Summarize(ok)

WorkloadStep ==
  \/ \E ok, made \in BOOLEAN : Setup(ok, made)
  \/ Prepare
  \/ Invoke
  \/ Observe
  \/ \E ok \in BOOLEAN : Validate(ok)
  \/ Destroy

CallerStep ==
  \/ \E c \in Calls : CallRunner(c)
  \/ Discard

Next == CallerStep \/ RunnerStep \/ WorkloadStep

(* One thread runs the call and its callbacks return: it never pauses for  *)
(* ever.  The caller is under no obligation to call again.                 *)
Fairness == WF_vars(RunnerStep \/ WorkloadStep)

Spec == Init /\ [][Next]_vars

FairSpec == Spec /\ Fairness
-----------------------------------------------------------------------------
(***************************************************************************)
(* Properties.                                                             *)
(***************************************************************************)
PcValues == {"idle", "enter", "allocate", "setup", "prepare", "start_clock",
             "invoke", "end_clock", "observe", "store", "validate",
             "allocate_samples", "summarize", "cleanup", "release", "returned"}

(* What the caller may see of the state (BenchmarkContract).               *)
LastVerdict ==
  IF rejected # 0 THEN "rejected"
  ELSE IF \E i \in Slots : accepted[i] # 0 THEN "accepted"
  ELSE "none"

Outcome ==
  IF pc = "idle" THEN "none"
  ELSE IF pc = "returned" THEN status
  ELSE "running"

Delivered ==
  IF pc \notin {"idle", "returned"} THEN "nothing"
  ELSE IF pc = "returned" /\ ~ call.run_result THEN "empty"
  ELSE IF result = Empty THEN "empty"
  ELSE IF result.implementations = ResultsBlock THEN "complete"
  ELSE "nothing"

Contract == INSTANCE BenchmarkContract WITH
  verdict <- LastVerdict, outcome <- Outcome, delivered <- Delivered

Entry == [name : Text, valid : BOOLEAN, samples_ns : Nat \cup {Null},
          sample_count : Nat, summary : SUBSET Nat]

(* The values of the variables; the loop variables stay within the arrays  *)
(* the runner indexes with them (benchmark_runner.c:244-321).              *)
TypeOK ==
  /\ call \in Call
  /\ pc \in PcValues
  /\ stage \in {"check", "warmup", "measure"}
  /\ index \in 1 .. Count + 1
  /\ iteration \in Nat
  /\ status \in Contract!Status
  /\ fixture \in BOOLEAN
  /\ result \in [implementations : {Null, Garbage, ResultsBlock}, count : Nat]
  /\ entries \in [Slots -> Entry]
  /\ samples \in [Slots -> [SampleIndexes -> Nat]]
  /\ heap \subseteq Nat
  /\ fault \in BOOLEAN
  /\ failed \in Text \cup {NULL}
  /\ lifecycle \in Contract!Lifecycle
  /\ timed \in BOOLEAN
  /\ invocations \in [Slots -> Nat]
  /\ accepted \in [Slots -> Nat]
  /\ rejected \in 0 .. Count

(* The blocks a result owns: its array and the samples of its entries.     *)
Owned ==
  IF result.implementations = ResultsBlock
  THEN {ResultsBlock} \cup (SamplePointers \ {Null})
  ELSE {}

(* At every moment the allocated blocks are those the caller's result      *)
(* reaches, so that destroying it frees everything; and no block is freed  *)
(* twice or used after it is freed, however calls, failures and destroys   *)
(* follow one another (rct_benchmark_run_result_destroy, :152-162).        *)
HeapIsOwned ==
  /\ ~ fault
  /\ heap = Owned

(* A call that fails leaves an empty result, whatever the object held      *)
(* before and wherever the call failed (benchmark.h:91-95).                *)
FailureLeavesEmpty ==
  pc = "returned" /\ status # "ok" /\ call.run_result => result = Empty

(* A call that succeeds delivers, for every implementation, one sample per *)
(* measured iteration in the order measured, none of them of the check or  *)
(* of the warm-up, and the summary of exactly these samples (:260-321).    *)
SamplesAreMeasured ==
  pc = "returned" /\ status = "ok" =>
    /\ result = [implementations |-> ResultsBlock, count |-> Count]
    /\ \A i \in Slots :
         /\ entries[i].valid
         /\ entries[i].name = Implementations[i].name
         /\ entries[i].sample_count = Measured
         /\ \A k \in SampleIndexes : samples[i][k] = 2 + Warmup + k
         /\ entries[i].summary = {2 + Warmup + k : k \in SampleIndexes}
         /\ invocations[i] = 1 + Warmup + Measured

(* failed_implementation names one implementation, the rejected one, after *)
(* a validation failure and nothing after any other outcome, whatever an   *)
(* earlier call left in it (:197-199, :251-254, :305-308).                 *)
BlameIsExact ==
  pc = "returned" /\ call.failed_implementation =>
    IF status = "validation_failure"
    THEN {i \in Slots : Implementations[i].name = failed} = {rejected}
    ELSE failed = NULL /\ rejected = 0

(* No implementation is warmed up or timed before every one has passed its *)
(* check and all earlier ones are done, and an entry is marked valid only  *)
(* when a second validation followed its measurement (:244-258, :305-320). *)
MeasurementIsGated ==
  \A i \in Slots :
    /\ invocations[i] > 1 => /\ \A j \in Slots : accepted[j] >= 1
                             /\ \A j \in 1 .. i - 1 : entries[j].valid
    /\ entries[i].valid => accepted[i] = 2

(* The bytes of the entries and of each sample block, counted without any  *)
(* wrap-around, fit a size_t whenever a call has got as far as allocating  *)
(* them: what malloc is asked for is what the loops will fill (:212-225,   *)
(* :266).                                                                  *)
AllocationsFit ==
  pc \notin {"idle", "enter", "returned"} =>
    /\ Count * ResultSize <= SizeMax
    /\ Measured * SampleSize <= SizeMax

(* The runner keeps the promises of benchmark.h (BenchmarkContract).       *)
KeepsContract == Contract!ContractSpec

(* Every call returns, whichever of its steps fail.                        *)
EveryCallReturns == pc = "enter" ~> pc = "returned"
-----------------------------------------------------------------------------
(***************************************************************************)
(* The inductive invariant the proofs rest on (BenchmarkRunnerProofs).     *)
(***************************************************************************)
Looping == {"prepare", "start_clock", "invoke", "end_clock", "observe",
            "store", "validate", "allocate_samples", "summarize"}
Closing == {"cleanup", "release", "returned"}
Running == PcValues \ {"idle", "enter", "returned"}

(* The loop counter is within the loops' bounds, a clock is only read and a*)
(* sample only stored in the measuring loop, and only valid calls run.     *)
ControlInv ==
  /\ pc \in Looping => index \in Slots
  /\ pc \in {"start_clock", "end_clock", "store", "summarize"} =>
       stage = "measure"
  /\ pc = "validate" => stage # "warmup"
  /\ pc \in Running => CallIsValid
  /\ pc = "release" => status # "ok"
  /\ pc = "enter" => status = "ok"

(* The caller's object is in one of three states, and which one follows    *)
(* from where the runner is.                                               *)
ResultInv ==
  /\ pc \in Running \ {"allocate"} =>
       result = [implementations |-> ResultsBlock, count |-> Count]
  /\ pc = "allocate" => result = Empty
  /\ pc = "returned" /\ status = "ok" =>
       /\ result = [implementations |-> ResultsBlock, count |-> Count]
       /\ call.run_result
  /\ pc = "returned" /\ status # "ok" /\ call.run_result => result = Empty
  /\ pc \in {"idle", "enter"} \/ (pc = "returned" /\ status # "ok") =>
       result.implementations # ResultsBlock

(* Block i is what entry i points to, or nothing does; and an implementation*)
(* that is warmed up or measured has its block.                            *)
BlocksInv ==
  /\ ~ fault
  /\ \A i \in Slots : entries[i].samples_ns \in {Null, i}
  /\ heap = IF result.implementations = ResultsBlock
            THEN {ResultsBlock} \cup {i \in Slots : entries[i].samples_ns = i}
            ELSE {}
  /\ pc \in Looping \ {"allocate_samples"} /\ stage # "check" =>
       entries[index].samples_ns = index

(* Nobody is blamed before a validation fails, and then the rejected one.  *)
BlameInv ==
  /\ pc \notin Closing \cup {"idle"} => status # "validation_failure"
  /\ pc = "enter" => rejected = 0
  /\ pc \notin {"idle", "enter"} =>
       IF status = "validation_failure"
       THEN /\ rejected \in Slots
            /\ ImplementationsAreValid
            /\ call.failed_implementation =>
                 failed = Implementations[rejected].name
       ELSE /\ rejected = 0
            /\ call.failed_implementation => failed = NULL

RunnerInv == TypeOK /\ ControlInv /\ ResultInv /\ BlocksInv /\ BlameInv

(* Where the fixture is in its lifecycle follows from where the runner is. *)
LifecycleInv ==
  /\ pc \in {"enter", "allocate", "setup"} => lifecycle = "none" /\ ~ fixture
  /\ pc \in Looping => fixture
  /\ pc \in {"prepare", "store", "validate", "allocate_samples",
             "summarize"} => lifecycle = "ready"
  /\ pc \in {"start_clock", "invoke"} => lifecycle = "prepared"
  /\ pc \in {"end_clock", "observe"} => lifecycle = "invoked"
  /\ pc \in Closing => lifecycle \in IF fixture THEN {"ready", "prepared"}
                                    ELSE {"none", "destroyed"}
  /\ pc \in {"release", "returned"} => ~ fixture
  /\ timed <=> pc \in {"invoke", "end_clock"} /\ stage = "measure"

(* Nothing is warmed up, measured or returned as a success before some     *)
(* output was accepted.                                                    *)
VerdictInv ==
  /\ pc = "allocate_samples" => stage = "warmup"
  /\ \/ pc \in Looping /\ stage # "check"
     \/ pc \in Closing /\ status = "ok"
     => \E i \in Slots : accepted[i] # 0

(* What the refinement of the contract rests on besides.                   *)
ContractInv == LifecycleInv /\ VerdictInv

(* How far an implementation has come: nothing is done, it has passed its  *)
(* check, or its measured samples and their summary are in its entry.      *)
Fresh(i) == invocations[i] = 0 /\ accepted[i] = 0 /\ ~ entries[i].valid

Checked(i) == invocations[i] = 1 /\ accepted[i] = 1 /\ ~ entries[i].valid

Sampled(i, n) == \A k \in 0 .. n - 1 : samples[i][k] = 2 + Warmup + k

Measurements == {2 + Warmup + k : k \in SampleIndexes}

Complete(i) ==
  /\ invocations[i] = 1 + Warmup + Measured
  /\ accepted[i] = 2
  /\ entries[i].valid
  /\ entries[i].sample_count = Measured
  /\ entries[i].summary = Measurements
  /\ Sampled(i, Measured)

(* 1 once the invocation of the present iteration has been made.           *)
Invoked == IF pc \in {"end_clock", "observe", "store"} THEN 1 ELSE 0

(* The first loop: implementations before the index are checked.           *)
CheckingInv ==
  pc \in Looping /\ stage = "check" =>
    /\ pc \in {"prepare", "invoke", "observe", "validate"}
    /\ \A i \in Slots : /\ i < index => Checked(i)
                        /\ i > index => Fresh(i)
    /\ invocations[index] = IF pc \in {"observe", "validate"} THEN 1 ELSE 0
    /\ accepted[index] = 0
    /\ ~ entries[index].valid

(* The second loop: those before the index are complete, those after it    *)
(* checked, and the one at the index was invoked once for its check and    *)
(* once for every iteration so far; each of its samples is of its own      *)
(* measured invocation.                                                    *)
MeasuringInv ==
  pc \in Looping /\ stage # "check" =>
    /\ \A i \in Slots : /\ i < index => Complete(i)
                        /\ i > index => Checked(i)
    /\ ~ entries[index].valid
    /\ accepted[index] = IF pc = "summarize" THEN 2 ELSE 1
    /\ pc = "allocate_samples" => stage = "warmup" /\ invocations[index] = 1
    /\ pc # "allocate_samples" => entries[index].sample_count = Measured
    /\ stage = "warmup" /\ pc # "allocate_samples" =>
         /\ pc \in {"prepare", "invoke", "observe"}
         /\ iteration < Warmup
         /\ invocations[index] = 1 + iteration + Invoked
    /\ stage = "measure" =>
         /\ IF pc \in {"validate", "summarize"}
            THEN iteration = Measured ELSE iteration < Measured
         /\ invocations[index] = 1 + Warmup + iteration + Invoked
         /\ Sampled(index, iteration)

MeasureInv ==
  /\ pc \in {"enter", "allocate", "setup"} => \A i \in Slots : Fresh(i)
  /\ pc \in Running \ {"allocate"} \/ (pc = "returned" /\ status = "ok") =>
       \A i \in Slots : entries[i].name = Implementations[i].name
  /\ CheckingInv
  /\ MeasuringInv
  /\ pc \in Closing /\ status = "ok" => \A i \in Slots : Complete(i)
  /\ pc \in Closing \cup {"idle"} => MeasurementIsGated
=============================================================================
