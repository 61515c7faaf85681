------------------------ MODULE BenchmarkRunnerProofs ------------------------
(***************************************************************************)
(* The runner's memory, verdicts and samples are right for every           *)
(* definition, configuration, failure and series of calls: RunnerInv and,  *)
(* with it, MeasureInv are inductive, and every step is one the contract   *)
(* of benchmark.h allows, or leaves what the contract speaks of alone.     *)
(***************************************************************************)
EXTENDS BenchmarkRunner, TLAPS

-----------------------------------------------------------------------------
(***************************************************************************)
(* Arguments.                                                              *)
(***************************************************************************)

(* What the runner reads from its arguments is well typed.                 *)
LEMMA ArgumentTypes ==
  ASSUME call \in Call
  PROVE  /\ Count \in Nat
         /\ Slots = 1 .. Count
         /\ Warmup \in Nat
         /\ Measured \in Nat
         /\ \A i \in Slots : Implementations[i] \in Implementation
<1> USE NullAssumption
<1>1. Implementations \in Seq(Implementation)
  BY DEF Call, Definition, Implementations, ImplementationsOf
<1>2. Warmup \in Nat /\ Measured \in Nat
  BY DEF Call, RunConfig, Warmup, Measured, MeasuredOf
<1> QED
  BY <1>1, <1>2 DEF Count, Slots

(* What passes the division has a product that fits.                       *)
LEMMA FittingProduct ==
  ASSUME NEW left \in Nat, NEW right \in Nat, MultiplyFits(left, right)
  PROVE  left * right <= SizeMax
<1> USE SizesAssumption
<1>1. CASE left = 0
  <2>1. left * right = 0
    BY <1>1
  <2> QED
    BY <2>1
<1>2. CASE left # 0
  <2> DEFINE q == SizeMax \div left
             rest == q - right
  <2>1. q \in Nat /\ left * q <= SizeMax
    BY <1>2, Z3
  <2>2. right <= q
    BY <1>2, <2>1 DEF MultiplyFits
  <2> HIDE DEF q
  <2>3. rest \in Nat /\ q = right + rest
    BY <2>1, <2>2
  <2> HIDE DEF rest
  <2>4. left * q = left * right + left * rest
    BY <2>3
  <2>5. left * rest \in Nat /\ left * right \in Nat
    BY <2>3
  <2> HIDE DEF q
  <2> QED
    BY <2>1, <2>4, <2>5
<1> QED
  BY <1>1, <1>2

(* A step that keeps the arguments keeps all that depends on nothing else. *)
LEMMA SameArguments ==
  ASSUME call' = call
  PROVE  /\ Count' = Count
         /\ Slots' = Slots
         /\ Implementations' = Implementations
         /\ Warmup' = Warmup
         /\ Measured' = Measured
         /\ SampleIndexes' = SampleIndexes
         /\ CallIsValid' = CallIsValid
         /\ ImplementationsAreValid' = ImplementationsAreValid
<1>1. Implementations' = Implementations
  BY DEF Implementations, ImplementationsOf
<1>2. Count' = Count /\ Slots' = Slots
  BY <1>1 DEF Count, Slots
<1>3. Warmup' = Warmup /\ Measured' = Measured
  BY DEF Warmup, Measured, MeasuredOf
<1>4. ImplementationsAreValid' = ImplementationsAreValid
  BY <1>1, <1>2 DEF ImplementationsAreValid
<1>5. DefinitionIsValid' = DefinitionIsValid
  BY <1>2 DEF DefinitionIsValid
<1> QED
  BY <1>1, <1>2, <1>3, <1>4, <1>5 DEF SampleIndexes, CallIsValid, MultiplyFits

(* No two implementations of a call that passed the checks have one name.  *)
LEMMA NamesAreUnique ==
  ASSUME call \in Call, ImplementationsAreValid,
         NEW i \in Slots, NEW j \in Slots,
         Implementations[i].name = Implementations[j].name
  PROVE  i = j
<1>1. i \in Nat /\ j \in Nat /\ 1 <= i /\ 1 <= j
  BY ArgumentTypes
<1>2. CASE i < j
  <2>1. i \in 1 .. j - 1
    BY <1>1, <1>2
  <2> QED
    BY <2>1 DEF ImplementationsAreValid
<1>3. CASE j < i
  <2>1. j \in 1 .. i - 1
    BY <1>1, <1>3
  <2> QED
    BY <2>1 DEF ImplementationsAreValid
<1> QED
  BY <1>1, <1>2, <1>3

-----------------------------------------------------------------------------
(***************************************************************************)
(* Blocks.                                                                 *)
(***************************************************************************)

(* Destroying a result that the runner built frees exactly the heap.       *)
LEMMA DestroyFreesAll ==
  ASSUME TypeOK, BlocksInv, DestroyResult,
         result = [implementations |-> ResultsBlock, count |-> Count]
  PROVE  heap' = {} /\ ~ fault' /\ result' = Empty
<1> USE DEF ResultsBlock, Null
<1>1. Count \in Nat /\ Slots = 1 .. Count
  BY ArgumentTypes DEF TypeOK
<1>2. result.count = Count /\ result.implementations = ResultsBlock
  OBVIOUS
<1>3. heap = {ResultsBlock} \cup {i \in Slots : entries[i].samples_ns = i}
  BY <1>2 DEF BlocksInv
<1>4. SamplePointers = {entries[i].samples_ns : i \in Slots}
  BY <1>1, <1>2 DEF SamplePointers
<1>5. SamplePointers \ {Null} = {i \in Slots : entries[i].samples_ns = i}
  BY <1>1, <1>4 DEF BlocksInv
<1> DEFINE freed == {result.implementations} \cup
                    (IF result.count = 0 THEN {} ELSE SamplePointers)
<1>6. freed \ {Null} = heap
  BY <1>1, <1>2, <1>3, <1>5
<1>7. ~ (result.count # 0 /\ result.implementations \notin heap)
  BY <1>2, <1>3
<1>8. /\ fault' = (fault \/ ~ (freed \ {Null} \subseteq heap))
      /\ heap' = heap \ freed
      /\ result' = Empty
  BY <1>7 DEF DestroyResult
<1> QED
  BY <1>6, <1>8 DEF BlocksInv

(* Destroying an empty result does nothing.                                *)
LEMMA DestroyEmpty ==
  ASSUME BlocksInv, DestroyResult, result = Empty
  PROVE  heap' = heap /\ heap = {} /\ ~ fault' /\ result' = Empty
<1> USE DEF Empty, Null, ResultsBlock
<1> DEFINE freed == {result.implementations} \cup
                    (IF result.count = 0 THEN {} ELSE SamplePointers)
<1>1. heap = {}
  BY DEF BlocksInv
<1>2. freed = {Null} /\ result.count = 0
  OBVIOUS
<1>3. /\ fault' = (fault \/ ~ (freed \ {Null} \subseteq heap))
      /\ heap' = heap \ freed
      /\ result' = Empty
  BY <1>2 DEF DestroyResult
<1>4. freed \ {Null} \subseteq heap
  BY <1>2
<1> QED
  BY <1>1, <1>3, <1>4 DEF BlocksInv

-----------------------------------------------------------------------------
(***************************************************************************)
(* The steps of the caller, and those before and after the loops.          *)
(***************************************************************************)
LEMMA InitEstablishes == Init => RunnerInv
<1> SUFFICES ASSUME Init PROVE RunnerInv
  OBVIOUS
<1>1. call \in Call
  BY DEF Init, NoCall, Call
<1>2. Count = 0 /\ Slots = {}
  BY DEF Init, NoCall, Count, Slots, Implementations, ImplementationsOf
<1>3. /\ entries = [i \in {} |-> BlankEntry(NoText)]
      /\ samples = [i \in {} |-> [k \in SampleIndexes |-> 0]]
  BY DEF Init, NoCall, BlankEntries, BlankSamples, ImplementationsOf,
         SampleIndexes, Measured, MeasuredOf
<1>4. invocations = [i \in {} |-> 0] /\ accepted = [i \in {} |-> 0]
  BY DEF Init, NoCall, Zeros, ImplementationsOf
<1>5. TypeOK
  <2>1. /\ entries \in [Slots -> Entry]
        /\ samples \in [Slots -> [SampleIndexes -> Nat]]
        /\ invocations \in [Slots -> Nat]
        /\ accepted \in [Slots -> Nat]
    BY <1>2, <1>3, <1>4
  <2>2. result \in [implementations : {Null, Garbage, ResultsBlock},
                    count : Nat]
    BY DEF Init, Empty
  <2>3. /\ index \in 1 .. Count + 1
        /\ rejected \in 0 .. Count
        /\ iteration \in Nat
    BY <1>2 DEF Init
  <2> QED
    BY <1>1, <2>1, <2>2, <2>3
    DEF Init, TypeOK, PcValues, Contract!Status, Contract!Lifecycle, Text
<1>6. ControlInv /\ BlameInv
  BY DEF Init, ControlInv, BlameInv, Looping, Closing, Running, PcValues
<1>7. ResultInv
  BY DEF Init, ResultInv, Running, PcValues, Empty, Null, Garbage, ResultsBlock
<1>8. BlocksInv
  BY <1>2
  DEF Init, BlocksInv, Looping, Empty, Null, Garbage, ResultsBlock
<1> QED
  BY <1>5, <1>6, <1>7, <1>8 DEF RunnerInv

(* Entering: the caller's object is zeroed and its last blame cleared.     *)
LEMMA EnterPreserves ==
  ASSUME RunnerInv, Enter
  PROVE  RunnerInv'
<1> USE DEF RunnerInv
<1>1. call' = call
  BY DEF Enter
<1>2. /\ Count' = Count /\ Slots' = Slots /\ Implementations' = Implementations
      /\ SampleIndexes' = SampleIndexes /\ CallIsValid' = CallIsValid
      /\ ImplementationsAreValid' = ImplementationsAreValid
  BY <1>1, SameArguments
<1>3. Count \in Nat /\ Slots = 1 .. Count
  BY ArgumentTypes DEF TypeOK
<1>4. TypeOK'
  BY <1>1, <1>2, <1>3
  DEF Enter, TypeOK, PcValues, workload, record, memory, control,
     Contract!Status, Empty, Null, ResultsBlock
<1>5. ControlInv'
  BY <1>2 DEF Enter, ControlInv, Looping, Running, PcValues
<1>6. ResultInv'
  BY <1>1, <1>2
 
  DEF Enter, ResultInv, Running, PcValues, Empty, Null, ResultsBlock,
      CallIsValid
<1>7. BlocksInv'
  BY <1>2
  DEF Enter, BlocksInv, ResultInv, Looping, Empty, Null, ResultsBlock
<1>8. BlameInv'
  BY <1>1, <1>2 DEF Enter, BlameInv, ControlInv, Closing, record
<1> QED
  BY <1>4, <1>5, <1>6, <1>7, <1>8

(* The end of the function.                                                *)
LEMMA FinishPreserves ==
  ASSUME RunnerInv, Finish
  PROVE  RunnerInv'
<1> USE DEF RunnerInv
<1>1. call' = call
  BY DEF Finish
<1>2. /\ Count' = Count /\ Slots' = Slots /\ Implementations' = Implementations
      /\ SampleIndexes' = SampleIndexes /\ CallIsValid' = CallIsValid
      /\ ImplementationsAreValid' = ImplementationsAreValid
  BY <1>1, SameArguments
<1>3. Count \in Nat /\ Slots = 1 .. Count
  BY ArgumentTypes DEF TypeOK
<1>4. TypeOK'
  BY <1>1, <1>2, <1>3
  DEF Finish, TypeOK, PcValues, workload, record, memory, control
<1>5. ControlInv'
  BY <1>2 DEF Finish, ControlInv, Looping, Running, PcValues
<1>6. ResultInv'
  BY <1>1, <1>2
  DEF Finish, ResultInv, ControlInv, Running, PcValues, memory, CallIsValid
<1>7. BlocksInv'
  BY <1>2 DEF Finish, BlocksInv, Looping, memory
<1>8. BlameInv'
  BY <1>1, <1>2 DEF Finish, BlameInv, Closing, record
<1> QED
  BY <1>4, <1>5, <1>6, <1>7, <1>8

(* prepare changes nothing of the runner but its place.                    *)
LEMMA PreparePreserves ==
  ASSUME RunnerInv, Prepare
  PROVE  RunnerInv'
<1> USE DEF RunnerInv
<1>1. call' = call
  BY DEF Prepare
<1>2. /\ Count' = Count /\ Slots' = Slots /\ Implementations' = Implementations
      /\ SampleIndexes' = SampleIndexes /\ CallIsValid' = CallIsValid
      /\ ImplementationsAreValid' = ImplementationsAreValid
  BY <1>1, SameArguments
<1>3. Count \in Nat /\ Slots = 1 .. Count
  BY ArgumentTypes DEF TypeOK
<1>4. TypeOK'
  BY <1>1, <1>2, <1>3
  DEF Prepare, TypeOK, PcValues, workload, record, memory, control,
      Contract!Lifecycle
<1>5. ControlInv'
  BY <1>2 DEF Prepare, ControlInv, Looping, Running, PcValues
<1>6. ResultInv'
  BY <1>1, <1>2 DEF Prepare, ResultInv, Running, PcValues, memory
<1>7. BlocksInv'
  BY <1>2 DEF Prepare, BlocksInv, Looping, memory
<1>8. BlameInv'
  BY <1>1, <1>2 DEF Prepare, BlameInv, Closing, record
<1> QED
  BY <1>4, <1>5, <1>6, <1>7, <1>8

(* destroy gives the fixture up.                                           *)
LEMMA DestroyPreserves ==
  ASSUME RunnerInv, Destroy
  PROVE  RunnerInv'
<1> USE DEF RunnerInv
<1>1. call' = call
  BY DEF Destroy
<1>2. /\ Count' = Count /\ Slots' = Slots /\ Implementations' = Implementations
      /\ SampleIndexes' = SampleIndexes /\ CallIsValid' = CallIsValid
      /\ ImplementationsAreValid' = ImplementationsAreValid
  BY <1>1, SameArguments
<1>3. Count \in Nat /\ Slots = 1 .. Count
  BY ArgumentTypes DEF TypeOK
<1>4. TypeOK'
  BY <1>1, <1>2, <1>3
  DEF Destroy, TypeOK, PcValues, workload, record, memory, control,
      Contract!Lifecycle
<1>5. ControlInv'
  BY <1>2 DEF Destroy, ControlInv, Looping, Running, PcValues, control
<1>6. ResultInv'
  BY <1>1, <1>2 DEF Destroy, ResultInv, Running, PcValues, memory, control
<1>7. BlocksInv'
  BY <1>2 DEF Destroy, BlocksInv, Looping, memory, control
<1>8. BlameInv'
  BY <1>1, <1>2 DEF Destroy, BlameInv, Closing, record, control
<1> QED
  BY <1>4, <1>5, <1>6, <1>7, <1>8

(* The first read of the clock starts an interval or ends the run.         *)
LEMMA StartClockPreserves ==
  ASSUME RunnerInv, NEW ok \in BOOLEAN, StartClock(ok)
  PROVE  RunnerInv'
<1> USE DEF RunnerInv
<1>1. call' = call
  BY DEF StartClock
<1>2. /\ Count' = Count /\ Slots' = Slots /\ Implementations' = Implementations
      /\ SampleIndexes' = SampleIndexes /\ CallIsValid' = CallIsValid
      /\ ImplementationsAreValid' = ImplementationsAreValid
  BY <1>1, SameArguments
<1>3. Count \in Nat /\ Slots = 1 .. Count
  BY ArgumentTypes DEF TypeOK
<1>4. TypeOK'
  BY <1>1, <1>2, <1>3
  DEF StartClock, TypeOK, PcValues, workload, record, memory, control,
     Fail, Contract!Status
<1>5. ControlInv'
  BY <1>2 DEF StartClock, Fail, ControlInv, Looping, Running, PcValues
<1>6. ResultInv'
  BY <1>1, <1>2 DEF StartClock, Fail, ResultInv, Running, PcValues, memory
<1>7. BlocksInv'
  BY <1>2 DEF StartClock, Fail, BlocksInv, Looping, memory
<1>8. BlameInv'
  BY <1>1, <1>2 DEF StartClock, Fail, BlameInv, Closing, record
<1> QED
  BY <1>4, <1>5, <1>6, <1>7, <1>8

(* The second read ends the interval, whether it works or not.             *)
LEMMA EndClockPreserves ==
  ASSUME RunnerInv, NEW ok \in BOOLEAN, EndClock(ok)
  PROVE  RunnerInv'
<1> USE DEF RunnerInv
<1>1. call' = call
  BY DEF EndClock
<1>2. /\ Count' = Count /\ Slots' = Slots /\ Implementations' = Implementations
      /\ SampleIndexes' = SampleIndexes /\ CallIsValid' = CallIsValid
      /\ ImplementationsAreValid' = ImplementationsAreValid
  BY <1>1, SameArguments
<1>3. Count \in Nat /\ Slots = 1 .. Count
  BY ArgumentTypes DEF TypeOK
<1>4. TypeOK'
  BY <1>1, <1>2, <1>3
  DEF EndClock, TypeOK, PcValues, workload, record, memory, control,
      Contract!Status
<1>5. ControlInv'
  BY <1>2 DEF EndClock, ControlInv, Looping, Running, PcValues
<1>6. ResultInv'
  BY <1>1, <1>2 DEF EndClock, ResultInv, Running, PcValues, memory
<1>7. BlocksInv'
  BY <1>2 DEF EndClock, BlocksInv, Looping, memory
<1>8. BlameInv'
  BY <1>1, <1>2 DEF EndClock, BlameInv, Closing, record
<1> QED
  BY <1>4, <1>5, <1>6, <1>7, <1>8

(* An invocation is counted.                                               *)
LEMMA InvokePreserves ==
  ASSUME RunnerInv, Invoke
  PROVE  RunnerInv'
<1> USE DEF RunnerInv
<1>1. call' = call
  BY DEF Invoke
<1>2. /\ Count' = Count /\ Slots' = Slots /\ Implementations' = Implementations
      /\ SampleIndexes' = SampleIndexes /\ CallIsValid' = CallIsValid
      /\ ImplementationsAreValid' = ImplementationsAreValid
  BY <1>1, SameArguments
<1>3. Count \in Nat /\ Slots = 1 .. Count
  BY ArgumentTypes DEF TypeOK
<1>4. TypeOK'
  <2>1. index \in Slots /\ invocations \in [Slots -> Nat]
    BY DEF Invoke, ControlInv, Looping, TypeOK
  <2>2. invocations' \in [Slots' -> Nat]
    BY <1>2, <2>1 DEF Invoke
  <2> QED
    BY <1>1, <1>2, <1>3, <2>2
    DEF Invoke, TypeOK, PcValues, memory, Contract!Lifecycle
<1>5. ControlInv'
  BY <1>2 DEF Invoke, ControlInv, Looping, Running, PcValues
<1>6. ResultInv'
  BY <1>1, <1>2 DEF Invoke, ResultInv, Running, PcValues, memory
<1>7. BlocksInv'
  BY <1>2 DEF Invoke, BlocksInv, Looping, memory
<1>8. BlameInv'
  BY <1>1, <1>2 DEF Invoke, BlameInv, Closing, record
<1> QED
  BY <1>4, <1>5, <1>6, <1>7, <1>8

(* After observe the run goes on from where the invocation came.           *)
LEMMA ObservePreserves ==
  ASSUME RunnerInv, Observe
  PROVE  RunnerInv'
<1> USE DEF RunnerInv
<1>1. call' = call
  BY DEF Observe
<1>2. /\ Count' = Count /\ Slots' = Slots /\ Implementations' = Implementations
      /\ SampleIndexes' = SampleIndexes /\ CallIsValid' = CallIsValid
      /\ ImplementationsAreValid' = ImplementationsAreValid
  BY <1>1, SameArguments
<1>3. Count \in Nat /\ Slots = 1 .. Count
  BY ArgumentTypes DEF TypeOK
<1>4. TypeOK'
  BY <1>1, <1>2, <1>3
  DEF Observe, TypeOK, PcValues, workload, record, memory, control,
     Fail, Iterate, Contract!Lifecycle
<1>5. ControlInv'
  BY <1>2 DEF Observe, Fail, Iterate, ControlInv, Looping, Running, PcValues
<1>6. ResultInv'
  BY <1>1, <1>2
  DEF Observe, Fail, Iterate, ResultInv, Running, PcValues, memory
<1>7. BlocksInv'
  BY <1>2 DEF Observe, Fail, Iterate, BlocksInv, Looping, memory
<1>8. BlameInv'
  BY <1>1, <1>2 DEF Observe, Fail, Iterate, BlameInv, Closing, record
<1> QED
  BY <1>4, <1>5, <1>6, <1>7, <1>8

(* A sample goes into the block of its implementation.                     *)
LEMMA StorePreserves ==
  ASSUME RunnerInv, NEW ok \in BOOLEAN, Store(ok)
  PROVE  RunnerInv'
<1> USE DEF RunnerInv
<1>1. call' = call
  BY DEF Store
<1>2. /\ Count' = Count /\ Slots' = Slots /\ Implementations' = Implementations
      /\ SampleIndexes' = SampleIndexes /\ CallIsValid' = CallIsValid
      /\ ImplementationsAreValid' = ImplementationsAreValid
  BY <1>1, SameArguments
<1>3. Count \in Nat /\ Slots = 1 .. Count
  BY ArgumentTypes DEF TypeOK
<1>4. TypeOK'
  <2>1. /\ index \in Slots /\ invocations[index] \in Nat
        /\ samples \in [Slots -> [SampleIndexes -> Nat]]
    BY DEF Store, ControlInv, Looping, TypeOK
  <2>2. [samples[index] EXCEPT ![iteration] = invocations[index]]
          \in [SampleIndexes -> Nat]
    BY <2>1
  <2>3. samples' \in [Slots' -> [SampleIndexes' -> Nat]]
    BY <1>2, <2>1, <2>2 DEF Store
  <2>4. fault' \in BOOLEAN
    BY DEF Store, TypeOK
  <2>5. /\ iteration' \in Nat /\ index' = index /\ pc' \in PcValues
        /\ stage' \in {"check", "warmup", "measure"}
        /\ status' \in Contract!Status
    BY DEF Store, Fail, Iterate, TypeOK, PcValues, Contract!Status
  <2> QED
    BY <1>1, <1>2, <2>3, <2>4, <2>5 DEF Store, TypeOK, workload, record
<1>5. ControlInv'
  BY <1>2 DEF Store, Fail, Iterate, ControlInv, Looping, Running, PcValues
<1>6. ResultInv'
  BY <1>1, <1>2 DEF Store, Fail, Iterate, ResultInv, Running, PcValues
<1>7. BlocksInv'
  <2>1. index \in Slots /\ stage = "measure"
    BY DEF Store, ControlInv, Looping
  <2>2. entries[index].samples_ns = index /\ index \in heap
    BY <2>1 DEF Store, BlocksInv, ResultInv, Looping, Running, PcValues
  <2>3. ~ fault'
    BY <2>2 DEF Store, BlocksInv
  <2> QED
    BY <1>2, <2>1, <2>2, <2>3 DEF Store, Fail, Iterate, BlocksInv, Looping
<1>8. BlameInv'
  BY <1>1, <1>2 DEF Store, Fail, Iterate, BlameInv, Closing, record
<1> QED
  BY <1>4, <1>5, <1>6, <1>7, <1>8

(* An implementation is done once its samples are summarized.              *)
LEMMA SummarizePreserves ==
  ASSUME RunnerInv, NEW ok \in BOOLEAN, Summarize(ok)
  PROVE  RunnerInv'
<1> USE DEF RunnerInv
<1>1. call' = call
  BY DEF Summarize
<1>2. /\ Count' = Count /\ Slots' = Slots /\ Implementations' = Implementations
      /\ SampleIndexes' = SampleIndexes /\ CallIsValid' = CallIsValid
      /\ ImplementationsAreValid' = ImplementationsAreValid
  BY <1>1, SameArguments
<1>3. Count \in Nat /\ Slots = 1 .. Count
  BY ArgumentTypes DEF TypeOK
<1>4. TypeOK'
  <2>1. index \in Slots /\ entries[index] \in Entry
    BY DEF Summarize, ControlInv, Looping, TypeOK
  <2>2. {samples[index][k] : k \in SampleIndexes} \in SUBSET Nat
    BY <2>1 DEF TypeOK
  <2>3. entries' \in [Slots' -> Entry]
    <3>1. [entries[index] EXCEPT
             !.summary = {samples[index][k] : k \in SampleIndexes},
             !.valid = TRUE] \in Entry
      BY <2>1, <2>2 DEF Entry
    <3> QED
      BY <1>2, <2>1, <3>1 DEF Summarize, TypeOK
  <2>4. fault' \in BOOLEAN
    BY DEF Summarize, TypeOK
  <2>5. index' \in 1 .. Count + 1
    BY <1>3, <2>1 DEF Summarize, Fail, MeasureFrom
  <2> QED
    BY <1>1, <1>2, <1>3, <2>3, <2>4, <2>5
    DEF Summarize, TypeOK, PcValues, workload, record, Fail, MeasureFrom,
        Contract!Status
<1>5. ControlInv'
  BY <1>2, <1>3
  DEF Summarize, Fail, MeasureFrom, ControlInv, Looping, Running, PcValues
<1>6. ResultInv'
  BY <1>1, <1>2 DEF Summarize, Fail, MeasureFrom, ResultInv, Running, PcValues
<1>7. BlocksInv'
  <2>1. index \in Slots /\ stage = "measure"
    BY DEF Summarize, ControlInv, Looping
  <2>2. entries[index].samples_ns = index /\ index \in heap
    BY <2>1 DEF Summarize, BlocksInv, ResultInv, Looping, Running, PcValues
  <2>3. ~ fault'
    BY <2>2 DEF Summarize, BlocksInv
  <2>4. \A i \in Slots : entries'[i].samples_ns = entries[i].samples_ns
    <3>1. entries \in [Slots -> Entry] /\ entries[index] \in Entry
      BY <2>1 DEF TypeOK
    <3>2. [entries[index] EXCEPT
             !.summary = {samples[index][k] : k \in SampleIndexes},
             !.valid = TRUE].samples_ns = entries[index].samples_ns
      BY <3>1 DEF Entry
    <3> QED
      BY <2>1, <3>1, <3>2 DEF Summarize
  <2>5. pc' \notin Looping \ {"allocate_samples"}
    BY DEF Summarize, Fail, MeasureFrom, Looping
  <2> QED
    BY <1>2, <2>3, <2>4, <2>5 DEF Summarize, BlocksInv
<1>8. BlameInv'
  BY <1>1, <1>2 DEF Summarize, Fail, MeasureFrom, BlameInv, Closing, record
<1> QED
  BY <1>4, <1>5, <1>6, <1>7, <1>8

(* The implementation at index gets its block of samples.                  *)
LEMMA AllocateSamplesPreserves ==
  ASSUME RunnerInv, NEW ok \in BOOLEAN, AllocateSamples(ok)
  PROVE  RunnerInv'
<1> USE DEF RunnerInv
<1>1. call' = call
  BY DEF AllocateSamples
<1>2. /\ Count' = Count /\ Slots' = Slots /\ Implementations' = Implementations
      /\ SampleIndexes' = SampleIndexes /\ CallIsValid' = CallIsValid
      /\ ImplementationsAreValid' = ImplementationsAreValid
  BY <1>1, SameArguments
<1>3. Count \in Nat /\ Slots = 1 .. Count
  BY ArgumentTypes DEF TypeOK
<1>4. TypeOK'
  <2>1. index \in Slots /\ entries[index] \in Entry /\ Measured \in Nat
    BY ArgumentTypes DEF AllocateSamples, ControlInv, Looping, TypeOK
  <2>2. entries' \in [Slots' -> Entry]
    <3>1. [entries[index] EXCEPT !.samples_ns = index,
                                 !.sample_count = Measured] \in Entry
      <4>1. index \in Nat
        BY <1>3, <2>1
      <4> QED
        BY <2>1, <4>1 DEF Entry
    <3> QED
      BY <1>2, <2>1, <3>1 DEF AllocateSamples, TypeOK
  <2>3. heap' \subseteq Nat
    BY <1>3, <2>1 DEF AllocateSamples, TypeOK
  <2>4. iteration' \in Nat
    BY DEF AllocateSamples, Fail, Iterate, TypeOK
  <2> QED
    BY <1>1, <1>2, <1>3, <2>2, <2>3, <2>4
    DEF AllocateSamples, TypeOK, PcValues, workload, record, Fail, Iterate,
        Contract!Status
<1>5. ControlInv'
  BY <1>2
  DEF AllocateSamples, Fail, Iterate, ControlInv, Looping, Running, PcValues
<1>6. ResultInv'
  BY <1>1, <1>2
  DEF AllocateSamples, Fail, Iterate, ResultInv, Running, PcValues
<1>7. BlocksInv'
  <2>1. index \in Slots /\ result.implementations = ResultsBlock
    BY DEF AllocateSamples, ControlInv, ResultInv, Looping, Running, PcValues
  <2>2. CASE ok
    <3>1. \A i \in Slots : entries'[i].samples_ns =
                            IF i = index THEN index ELSE entries[i].samples_ns
      BY <2>1, <2>2 DEF AllocateSamples, TypeOK, Entry
    <3>2. {i \in Slots : entries'[i].samples_ns = i} =
            {i \in Slots : entries[i].samples_ns = i} \cup {index}
      BY <2>1, <3>1
    <3>3. result' = result /\ index' = index /\ heap' = heap \cup {index}
      BY <2>2 DEF AllocateSamples
    <3>4. \A i \in Slots' : entries'[i].samples_ns \in {Null, i}
      BY <1>2, <3>1 DEF BlocksInv
    <3>5. ~ fault'
      BY DEF AllocateSamples, BlocksInv
    <3> QED
      BY <1>2, <2>1, <3>1, <3>2, <3>3, <3>4, <3>5 DEF BlocksInv
  <2>3. CASE ~ ok
    BY <1>2, <2>3 DEF AllocateSamples, Fail, BlocksInv, Looping
  <2> QED
    BY <2>2, <2>3
<1>8. BlameInv'
  BY <1>1, <1>2 DEF AllocateSamples, Fail, Iterate, BlameInv, Closing, record
<1> QED
  BY <1>4, <1>5, <1>6, <1>7, <1>8

(* setup leads to the checks, or to the cleanup.                           *)
LEMMA SetupPreserves ==
  ASSUME RunnerInv, NEW ok \in BOOLEAN, NEW made \in BOOLEAN, Setup(ok, made)
  PROVE  RunnerInv'
<1> USE DEF RunnerInv
<1>1. call' = call
  BY DEF Setup
<1>2. /\ Count' = Count /\ Slots' = Slots /\ Implementations' = Implementations
      /\ SampleIndexes' = SampleIndexes /\ CallIsValid' = CallIsValid
      /\ ImplementationsAreValid' = ImplementationsAreValid
  BY <1>1, SameArguments
<1>3. Count \in Nat /\ Slots = 1 .. Count
  BY ArgumentTypes DEF TypeOK
<1>4. TypeOK'
  BY <1>1, <1>2, <1>3
  DEF Setup, TypeOK, PcValues, workload, record, memory, control,
     Fail, CheckFrom, MeasureFrom, Contract!Status, Contract!Lifecycle
<1>5. ControlInv'
  BY <1>2, <1>3
  DEF Setup, Fail, CheckFrom, MeasureFrom, ControlInv, Looping, Running,
      PcValues
<1>6. ResultInv'
  BY <1>1, <1>2
  DEF Setup, Fail, CheckFrom, MeasureFrom, ResultInv, Running, PcValues, memory
<1>7. BlocksInv'
  BY <1>2 DEF Setup, Fail, CheckFrom, MeasureFrom, BlocksInv, Looping, memory
<1>8. BlameInv'
  BY <1>1, <1>2
  DEF Setup, Fail, CheckFrom, MeasureFrom, BlameInv, Closing, record
<1> QED
  BY <1>4, <1>5, <1>6, <1>7, <1>8

(* The array of results is allocated, without any samples.                 *)
LEMMA AllocatePreserves ==
  ASSUME RunnerInv, NEW ok \in BOOLEAN, Allocate(ok)
  PROVE  RunnerInv'
<1> USE DEF RunnerInv
<1>1. call' = call
  BY DEF Allocate
<1>2. /\ Count' = Count /\ Slots' = Slots /\ Implementations' = Implementations
      /\ SampleIndexes' = SampleIndexes /\ CallIsValid' = CallIsValid
      /\ ImplementationsAreValid' = ImplementationsAreValid
  BY <1>1, SameArguments
<1>3. Count \in Nat /\ Slots = 1 .. Count
  BY ArgumentTypes DEF TypeOK
<1>4. TypeOK'
  <2>1. CASE ok
    <3>1. \A i \in Slots : Implementations[i].name \in Text
      BY ArgumentTypes DEF TypeOK, Implementation
    <3>2. \A name \in Text : BlankEntry(name) \in Entry
      BY DEF BlankEntry, Entry
    <3>3. entries' = [i \in Slots |-> BlankEntry(Implementations[i].name)]
      BY <2>1 DEF Allocate
    <3>4. entries' \in [Slots' -> Entry]
      BY <1>2, <3>1, <3>2, <3>3
    <3>5. heap' \subseteq Nat
      <4>1. heap' = heap \cup {0}
        BY <2>1 DEF Allocate, ResultsBlock
      <4> QED
        BY <4>1 DEF TypeOK
    <3>6. result' \in
            [implementations : {Null, Garbage, ResultsBlock}, count : Nat]
      BY <1>3, <2>1 DEF Allocate
    <3> QED
      BY <1>1, <1>2, <1>3, <2>1, <3>4, <3>5, <3>6
      DEF Allocate, TypeOK, PcValues, workload, record
  <2>2. CASE ~ ok
    BY <1>1, <1>2, <1>3, <2>2
    DEF Allocate, TypeOK, PcValues, workload, record, Contract!Status
  <2> QED
    BY <2>1, <2>2
<1>5. ControlInv'
  BY <1>2 DEF Allocate, ControlInv, Looping, Running, PcValues
<1>6. ResultInv'
  BY <1>1, <1>2
 
  DEF Allocate, ResultInv, ControlInv, Running, PcValues, Empty, Null,
      ResultsBlock
<1>7. BlocksInv'
  <2>1. heap = {}
    BY DEF Allocate, BlocksInv, ResultInv, Empty, Null, ResultsBlock
  <2>2. CASE ok
    <3>1. \A i \in Slots : entries'[i].samples_ns = Null
      BY <2>2 DEF Allocate, BlankEntry
    <3>2. {i \in Slots : entries'[i].samples_ns = i} = {}
      BY <1>3, <3>1 DEF Null
    <3>3. /\ heap' = {ResultsBlock} /\ result'.implementations = ResultsBlock
          /\ pc' = "setup" /\ ~ fault'
      BY <2>1, <2>2 DEF Allocate, BlocksInv
    <3> QED
      BY <1>2, <3>1, <3>2, <3>3 DEF BlocksInv, Looping
  <2>3. CASE ~ ok
    BY <1>2, <2>3 DEF Allocate, BlocksInv, Looping
  <2> QED
    BY <2>2, <2>3
<1>8. BlameInv'
  BY <1>1, <1>2 DEF Allocate, BlameInv, Closing, record
<1> QED
  BY <1>4, <1>5, <1>6, <1>7, <1>8

(* An accepted output: the index moves on or the samples are summarized.   *)
LEMMA AcceptPreserves ==
  ASSUME RunnerInv, Validate(TRUE)
  PROVE  RunnerInv'
<1> USE DEF RunnerInv
<1>1. call' = call
  BY DEF Validate
<1>2. /\ Count' = Count /\ Slots' = Slots /\ Implementations' = Implementations
      /\ SampleIndexes' = SampleIndexes /\ CallIsValid' = CallIsValid
      /\ ImplementationsAreValid' = ImplementationsAreValid
  BY <1>1, SameArguments
<1>3. Count \in Nat /\ Slots = 1 .. Count
  BY ArgumentTypes DEF TypeOK
<1>4. Accept /\ pc = "validate" /\ index \in Slots
  BY DEF Validate, ControlInv, Looping
<1>5. TypeOK'
  <2>1. accepted' \in [Slots' -> Nat]
    BY <1>2, <1>4 DEF Accept, TypeOK
  <2>2. /\ index' \in 1 .. Count + 1 /\ pc' \in PcValues
        /\ stage' \in {"check", "warmup", "measure"} /\ iteration' = iteration
        /\ status' = status
    BY <1>3, <1>4 DEF Accept, CheckFrom, MeasureFrom, TypeOK, PcValues
  <2> QED
    BY <1>1, <1>2, <1>4, <2>1, <2>2
    DEF Validate, Accept, TypeOK, memory, workload
<1>6. ControlInv'
  BY <1>2, <1>3, <1>4
 
  DEF Accept, CheckFrom, MeasureFrom, ControlInv, Looping, Running, PcValues,
      TypeOK
<1>7. ResultInv'
  BY <1>1, <1>2, <1>4
 
  DEF Validate, Accept, CheckFrom, MeasureFrom, ResultInv, Running, PcValues,
      memory
<1>8. BlocksInv'
  BY <1>2, <1>4
  DEF Validate, Accept, CheckFrom, MeasureFrom, BlocksInv, Looping, memory
<1>9. BlameInv'
  BY <1>1, <1>2, <1>4 DEF Accept, CheckFrom, MeasureFrom, BlameInv, Closing
<1> QED
  BY <1>5, <1>6, <1>7, <1>8, <1>9

(* A rejected output: the implementation at index is blamed.               *)
LEMMA RejectPreserves ==
  ASSUME RunnerInv, Validate(FALSE)
  PROVE  RunnerInv'
<1> USE DEF RunnerInv
<1>1. call' = call
  BY DEF Validate
<1>2. /\ Count' = Count /\ Slots' = Slots /\ Implementations' = Implementations
      /\ SampleIndexes' = SampleIndexes /\ CallIsValid' = CallIsValid
      /\ ImplementationsAreValid' = ImplementationsAreValid
  BY <1>1, SameArguments
<1>3. Count \in Nat /\ Slots = 1 .. Count
  BY ArgumentTypes DEF TypeOK
<1>4. /\ Reject /\ pc = "validate" /\ index \in Slots
      /\ ImplementationsAreValid
  BY DEF Validate, ControlInv, Looping, Running, PcValues, CallIsValid
<1>5. TypeOK'
  <2>1. failed' \in Text \cup {NULL}
    BY <1>4, ArgumentTypes DEF Reject, TypeOK, Implementation
  <2>2. rejected' \in 0 .. Count
    BY <1>3, <1>4 DEF Reject
  <2> QED
    BY <1>1, <1>2, <1>4, <2>1, <2>2
   
    DEF Validate, Reject, Fail, TypeOK, PcValues, Contract!Status, memory,
        workload
<1>6. ControlInv'
  BY <1>2, <1>4 DEF Reject, Fail, ControlInv, Looping, Running, PcValues
<1>7. ResultInv'
  BY <1>1, <1>2, <1>4
  DEF Validate, Reject, Fail, ResultInv, Running, PcValues, memory
<1>8. BlocksInv'
  BY <1>2, <1>4 DEF Validate, Reject, Fail, BlocksInv, Looping, memory
<1>9. BlameInv'
  BY <1>1, <1>2, <1>4 DEF Reject, Fail, BlameInv, Closing
<1> QED
  BY <1>5, <1>6, <1>7, <1>8, <1>9

-----------------------------------------------------------------------------
(***************************************************************************)
(* The steps that give memory back, and a new call.                        *)
(***************************************************************************)

(* A failed run destroys what it has built.                                *)
LEMMA ReleasePreserves ==
  ASSUME RunnerInv, Release
  PROVE  RunnerInv'
<1> USE DEF RunnerInv
<1>1. call' = call
  BY DEF Release
<1>2. /\ Count' = Count /\ Slots' = Slots /\ Implementations' = Implementations
      /\ SampleIndexes' = SampleIndexes /\ CallIsValid' = CallIsValid
      /\ ImplementationsAreValid' = ImplementationsAreValid
  BY <1>1, SameArguments
<1>3. /\ result = [implementations |-> ResultsBlock, count |-> Count]
      /\ status # "ok" /\ CallIsValid
  BY DEF Release, ResultInv, ControlInv, Running, PcValues
<1>4. heap' = {} /\ ~ fault' /\ result' = Empty
  BY <1>3, DestroyFreesAll DEF Release
<1>5. TypeOK'
  <2>1. Empty \in [implementations : {Null, Garbage, ResultsBlock},
                   count : Nat]
    BY DEF Empty
  <2>2. fault' \in BOOLEAN
    BY DEF Release, DestroyResult, TypeOK
  <2> QED
    BY <1>1, <1>2, <1>4, <2>1, <2>2
    DEF Release, TypeOK, PcValues, workload, record
<1>6. ControlInv'
  BY <1>2 DEF Release, ControlInv, Looping, Running
<1>7. ResultInv'
  BY <1>3, <1>4
  DEF Release, ResultInv, Running, Empty, Null, ResultsBlock
<1>8. BlocksInv'
  BY <1>2, <1>4
  DEF Release, BlocksInv, Looping, Empty, Null, ResultsBlock
<1>9. BlameInv'
  BY <1>1, <1>2 DEF Release, BlameInv, Closing, record
<1> QED
  BY <1>5, <1>6, <1>7, <1>8, <1>9

(* The caller destroys a complete result, or an empty one again.           *)
LEMMA DiscardPreserves ==
  ASSUME RunnerInv, Discard
  PROVE  RunnerInv'
<1> USE DEF RunnerInv
<1>1. call' = call
  BY DEF Discard
<1>2. /\ Count' = Count /\ Slots' = Slots /\ Implementations' = Implementations
      /\ SampleIndexes' = SampleIndexes /\ CallIsValid' = CallIsValid
      /\ ImplementationsAreValid' = ImplementationsAreValid
  BY <1>1, SameArguments
<1>3. heap' = {} /\ ~ fault' /\ result' = Empty
  <2>1. CASE status = "ok"
    BY <2>1, DestroyFreesAll DEF Discard, ResultInv
  <2>2. CASE status # "ok"
    BY <2>2, DestroyEmpty DEF Discard, ResultInv
  <2> QED
    BY <2>1, <2>2
<1>4. TypeOK'
  <2>1. Empty \in [implementations : {Null, Garbage, ResultsBlock},
                   count : Nat]
    BY DEF Empty
  <2>2. fault' \in BOOLEAN
    BY DEF Discard, DestroyResult, TypeOK
  <2> QED
    BY <1>1, <1>2, <1>3, <2>1, <2>2
    DEF Discard, TypeOK, PcValues, workload, record
<1>5. ControlInv'
  BY <1>2 DEF Discard, ControlInv, Looping, Running
<1>6. ResultInv'
  BY <1>3 DEF Discard, ResultInv, Running, Empty, Null, ResultsBlock
<1>7. BlocksInv'
  BY <1>2, <1>3 DEF Discard, BlocksInv, Looping, Empty, Null, ResultsBlock
<1>8. BlameInv'
  BY DEF Discard, BlameInv, Closing
<1> QED
  BY <1>4, <1>5, <1>6, <1>7, <1>8

(* A new call starts with nothing allocated and blank bookkeeping.         *)
LEMMA CallRunnerPreserves ==
  ASSUME RunnerInv, NEW c \in Calls, CallRunner(c)
  PROVE  RunnerInv'
<1> USE DEF RunnerInv
<1>1. call' = c /\ c \in Call
  BY CallsAssumption DEF CallRunner
<1> DEFINE n == Len(ImplementationsOf(c))
<1>2. /\ Count' = n /\ Slots' = 1 .. n
      /\ SampleIndexes' = 0 .. MeasuredOf(c) - 1
  BY <1>1 DEF Count, Slots, Implementations, ImplementationsOf, Measured,
              MeasuredOf, SampleIndexes
<1>3. n \in Nat
  <2>1. ImplementationsOf(c) \in Seq(Implementation)
    BY <1>1 DEF Call, Definition, ImplementationsOf
  <2> QED
    BY <2>1
<1>4. entries' \in [Slots' -> Entry] /\
      \A i \in Slots' : entries'[i].samples_ns = Null
  <2>1. BlankEntry(NoText) \in Entry /\ BlankEntry(NoText).samples_ns = Null
    BY DEF BlankEntry, Entry, Text
  <2>2. entries' = [i \in 1 .. n |-> BlankEntry(NoText)]
    BY DEF CallRunner, BlankEntries
  <2> QED
    BY <1>2, <2>1, <2>2
<1>5. samples' \in [Slots' -> [SampleIndexes' -> Nat]]
  BY <1>2 DEF CallRunner, BlankSamples
<1>6. invocations' \in [Slots' -> Nat] /\ accepted' \in [Slots' -> Nat]
  BY <1>2 DEF CallRunner, Zeros
<1>7. result.implementations # ResultsBlock
  BY DEF CallRunner, ResultInv
<1>8. TypeOK'
  <2>1. index' \in 1 .. Count' + 1 /\ rejected' \in 0 .. Count'
    BY <1>2, <1>3 DEF CallRunner
  <2> QED
    BY <1>1, <1>4, <1>5, <1>6, <2>1
    DEF CallRunner, TypeOK, PcValues, Contract!Status, Contract!Lifecycle
<1>9. ControlInv' /\ BlameInv'
  BY DEF CallRunner, ControlInv, BlameInv, Looping, Closing, Running
<1>10. ResultInv'
  BY <1>7 DEF CallRunner, ResultInv, Running
<1>11. BlocksInv'
  BY <1>4, <1>7 DEF CallRunner, BlocksInv, Looping
<1> QED
  BY <1>8, <1>9, <1>10, <1>11

(* A step that changes nothing.                                            *)
LEMMA StutterPreserves ==
  ASSUME RunnerInv, UNCHANGED vars
  PROVE  RunnerInv'
<1> USE DEF RunnerInv, vars, control, memory, workload, record
<1>1. /\ Count' = Count /\ Slots' = Slots /\ Implementations' = Implementations
      /\ SampleIndexes' = SampleIndexes /\ CallIsValid' = CallIsValid
      /\ ImplementationsAreValid' = ImplementationsAreValid
  BY SameArguments
<1>2. TypeOK' /\ ControlInv'
  BY <1>1 DEF TypeOK, ControlInv
<1>3. ResultInv' /\ BlocksInv' /\ BlameInv'
  BY <1>1 DEF ResultInv, BlocksInv, BlameInv
<1> QED
  BY <1>2, <1>3

-----------------------------------------------------------------------------
(***************************************************************************)
(* The theorems.                                                           *)
(***************************************************************************)

(* The runner's invariant holds in every reachable state, for every        *)
(* definition, every configuration and every series of calls.              *)
THEOREM RunnerIsInvariant == Spec => []RunnerInv
<1>1. RunnerInv /\ [Next]_vars => RunnerInv'
  <2> SUFFICES ASSUME RunnerInv, [Next]_vars PROVE RunnerInv'
    OBVIOUS
  <2>1. CASE CallerStep
    BY <2>1, CallRunnerPreserves, DiscardPreserves DEF CallerStep
  <2>2. CASE RunnerStep
    BY <2>2, EnterPreserves, FinishPreserves, ReleasePreserves,
       AllocatePreserves, AllocateSamplesPreserves, StartClockPreserves,
       EndClockPreserves, StorePreserves, SummarizePreserves
    DEF RunnerStep
  <2>3. CASE WorkloadStep
    <3>1. ASSUME NEW ok \in BOOLEAN, Validate(ok) PROVE RunnerInv'
      <4>1. CASE ok = TRUE
        BY <3>1, <4>1, AcceptPreserves
      <4>2. CASE ok = FALSE
        BY <3>1, <4>2, RejectPreserves
      <4> QED
        BY <4>1, <4>2
    <3> QED
      BY <2>3, <3>1, SetupPreserves, PreparePreserves, InvokePreserves,
         ObservePreserves, DestroyPreserves
      DEF WorkloadStep
  <2>4. CASE UNCHANGED vars
    BY <2>4, StutterPreserves
  <2> QED
    BY <2>1, <2>2, <2>3, <2>4 DEF Next
<1> QED
  BY <1>1, InitEstablishes, PTL DEF Spec

(* Nothing leaks, nothing is freed twice and nothing is used after it is   *)
(* freed, whichever steps of whichever calls fail.                         *)
THEOREM HeapIsAlwaysOwned == Spec => []HeapIsOwned
<1>1. RunnerInv => HeapIsOwned
  <2> SUFFICES ASSUME RunnerInv PROVE HeapIsOwned
    OBVIOUS
  <2> USE DEF RunnerInv
  <2>1. CASE result.implementations # ResultsBlock
    BY <2>1 DEF HeapIsOwned, Owned, BlocksInv
  <2>2. CASE result.implementations = ResultsBlock
    <3>1. result.count = Count /\ Slots = 1 .. Count
      BY <2>2, ArgumentTypes
      DEF ResultInv, TypeOK, Running, Empty, Null, ResultsBlock
    <3>2. SamplePointers \ {Null} = {i \in Slots : entries[i].samples_ns = i}
      BY <3>1, ArgumentTypes DEF SamplePointers, BlocksInv, TypeOK, Null
    <3> QED
      BY <2>2, <3>2 DEF HeapIsOwned, Owned, BlocksInv
  <2> QED
    BY <2>1, <2>2
<1> QED
  BY <1>1, RunnerIsInvariant, PTL

(* A failed call leaves the caller an empty result.                        *)
THEOREM FailuresLeaveEmpty == Spec => []FailureLeavesEmpty
<1>1. RunnerInv => FailureLeavesEmpty
  BY DEF RunnerInv, ResultInv, FailureLeavesEmpty
<1> QED
  BY <1>1, RunnerIsInvariant, PTL

(* A validation failure names the rejected implementation and no other     *)
(* outcome names any.                                                      *)
THEOREM BlameIsAlwaysExact == Spec => []BlameIsExact
<1>1. RunnerInv => BlameIsExact
  <2> SUFFICES ASSUME RunnerInv, pc = "returned", call.failed_implementation
               PROVE  IF status = "validation_failure"
                      THEN {i \in Slots : Implementations[i].name = failed}
                             = {rejected}
                      ELSE failed = NULL /\ rejected = 0
    BY DEF BlameIsExact
  <2> USE DEF RunnerInv
  <2>1. CASE status = "validation_failure"
    <3>1. /\ rejected \in Slots /\ ImplementationsAreValid
          /\ failed = Implementations[rejected].name
      BY <2>1 DEF BlameInv
    <3>2. \A i \in Slots : Implementations[i].name = failed => i = rejected
      BY <3>1, NamesAreUnique DEF TypeOK
    <3> QED
      BY <2>1, <3>1, <3>2
  <2>2. CASE status # "validation_failure"
    BY <2>2 DEF BlameInv
  <2> QED
    BY <2>1, <2>2
<1> QED
  BY <1>1, RunnerIsInvariant, PTL

(* What a call allocates is counted without wrapping around, for any sizes *)
(* and numbers of implementations and iterations (benchmark_runner.c:10-17,*)
(* :212-225, :266).                                                        *)
THEOREM AllocationsAlwaysFit == Spec => []AllocationsFit
<1>1. RunnerInv => AllocationsFit
  <2> SUFFICES ASSUME RunnerInv, pc \notin {"idle", "enter", "returned"}
               PROVE  /\ Count * ResultSize <= SizeMax
                      /\ Measured * SampleSize <= SizeMax
    BY DEF AllocationsFit
  <2>1. CallIsValid /\ call \in Call
    BY DEF RunnerInv, TypeOK, ControlInv, Running
  <2>2. Count \in Nat /\ Measured \in Nat
    BY <2>1, ArgumentTypes
  <2> QED
    BY <2>1, <2>2, SizesAssumption, FittingProduct DEF CallIsValid
<1> QED
  BY <1>1, RunnerIsInvariant, PTL

-----------------------------------------------------------------------------
(***************************************************************************)
(* Measurements: how far each implementation has come, and its samples.    *)
(***************************************************************************)

(* A step that leaves the entries and the counts alone leaves what they    *)
(* say of an implementation.                                               *)
LEMMA SameProgress ==
  ASSUME call' = call,
         UNCHANGED <<invocations, accepted, entries, samples>>
  PROVE  /\ \A i : /\ Fresh(i)' <=> Fresh(i)
                   /\ Checked(i)' <=> Checked(i)
                   /\ Complete(i)' <=> Complete(i)
         /\ \A i, n : Sampled(i, n)' <=> Sampled(i, n)
         /\ MeasurementIsGated' <=> MeasurementIsGated
<1>1. /\ Slots' = Slots /\ Warmup' = Warmup /\ Measured' = Measured
      /\ SampleIndexes' = SampleIndexes
  BY SameArguments
<1>2. \A i : (Fresh(i)' <=> Fresh(i)) /\ (Checked(i)' <=> Checked(i))
  BY DEF Fresh, Checked
<1>3. \A i, n : Sampled(i, n)' <=> Sampled(i, n)
  BY <1>1 DEF Sampled
<1>4. Measurements' = Measurements
  BY <1>1 DEF Measurements
<1>5. \A i : Complete(i)' <=> Complete(i)
  BY <1>1, <1>3, <1>4 DEF Complete
<1>6. MeasurementIsGated' <=> MeasurementIsGated
  BY <1>1 DEF MeasurementIsGated
<1> QED
  BY <1>2, <1>3, <1>5, <1>6

(* In the loops nothing is measured ahead of a check.                      *)
LEMMA LoopsAreGated ==
  ASSUME RunnerInv, MeasureInv,
         pc \in Looping \cup {"enter", "allocate", "setup"}
  PROVE  MeasurementIsGated
<1>1. /\ Slots = 1 .. Count /\ Count \in Nat /\ index \in 1 .. Count + 1
      /\ Warmup \in Nat /\ Measured \in Nat
  BY ArgumentTypes DEF RunnerInv, TypeOK
<1>2. CASE pc \in {"enter", "allocate", "setup"}
  BY <1>2 DEF MeasureInv, Fresh, MeasurementIsGated
<1>3. CASE pc \in Looping /\ stage = "check"
  <2>1. \A i \in Slots : Checked(i) \/ Fresh(i) \/ i = index
    BY <1>1, <1>3 DEF MeasureInv, CheckingInv
  <2>2. ~ entries[index].valid /\ invocations[index] \in {0, 1}
    BY <1>3 DEF MeasureInv, CheckingInv
  <2>3. \A i \in Slots : ~ entries[i].valid /\ invocations[i] \in {0, 1}
    BY <2>1, <2>2 DEF Checked, Fresh
  <2> QED
    BY <2>3 DEF MeasurementIsGated
<1>4. CASE pc \in Looping /\ stage # "check"
  <2>1. /\ index \in Slots
        /\ \A i \in Slots : i < index => accepted[i] = 2 /\ entries[i].valid
    BY <1>4 DEF MeasureInv, MeasuringInv, Complete, RunnerInv, ControlInv
  <2>2. \A i \in Slots : i > index => /\ accepted[i] = 1
                                      /\ ~ entries[i].valid
                                      /\ invocations[i] = 1
    BY <1>4 DEF MeasureInv, MeasuringInv, Checked
  <2>3. accepted[index] \in {1, 2} /\ ~ entries[index].valid
    BY <1>4 DEF MeasureInv, MeasuringInv
  <2>4. \A i \in Slots : accepted[i] \in {1, 2}
    BY <1>1, <2>1, <2>2, <2>3
  <2>5. \A i \in Slots : entries[i].valid => i < index
    BY <1>1, <2>1, <2>2, <2>3
  <2>6. \A i \in Slots : invocations[i] > 1 => i <= index
    BY <1>1, <2>1, <2>2
  <2>7. \A i \in Slots : i <= index =>
          \A j \in 1 .. i - 1 : j \in Slots /\ j < index
    BY <1>1
  <2> QED
    BY <2>1, <2>4, <2>5, <2>6, <2>7 DEF MeasurementIsGated
<1> QED
  BY <1>2, <1>3, <1>4

(* Before the first call there is nothing to measure.                      *)
LEMMA InitMeasures == Init => MeasureInv
<1> SUFFICES ASSUME Init PROVE MeasureInv
  OBVIOUS
<1>1. Slots = {}
  BY DEF Init, NoCall, Count, Slots, Implementations, ImplementationsOf
<1> QED
  BY <1>1
  DEF Init, MeasureInv, CheckingInv, MeasuringInv, MeasurementIsGated,
      Looping, Closing, Running

(* A step that fails goes to cleanup with everything as it is.             *)
LEMMA FailMeasures ==
  ASSUME RunnerInv, MeasureInv, pc \in Looping \cup {"setup"},
         call' = call, UNCHANGED <<invocations, accepted, entries, samples>>,
         NEW why, why # "ok", Fail(why)
  PROVE  MeasureInv'
<1>1. pc' = "cleanup" /\ status' # "ok"
  BY DEF Fail
<1>2. MeasurementIsGated'
  BY LoopsAreGated, SameProgress
<1>3. Slots' = Slots /\ Implementations' = Implementations
  BY SameArguments
<1>4. \A i \in Slots' : entries'[i].name = Implementations'[i].name
  BY <1>3 DEF MeasureInv, Running, Looping, PcValues
<1> QED
  BY <1>1, <1>2, <1>4
  DEF MeasureInv, CheckingInv, MeasuringInv, Looping, Closing

(* A new call starts with every implementation fresh.                      *)
LEMMA CallRunnerMeasures ==
  ASSUME NEW c \in Calls, CallRunner(c)
  PROVE  MeasureInv'
<1> DEFINE n == Len(ImplementationsOf(c))
<1>1. Slots' = 1 .. n
  BY DEF CallRunner, Count, Slots, Implementations, ImplementationsOf
<1>2. /\ invocations' = [i \in 1 .. n |-> 0]
      /\ accepted' = [i \in 1 .. n |-> 0]
      /\ entries' = [i \in 1 .. n |-> BlankEntry(NoText)]
  BY DEF CallRunner, Zeros, BlankEntries
<1>3. \A i \in Slots' : Fresh(i)'
  BY <1>1, <1>2 DEF Fresh, BlankEntry
<1>4. pc' = "enter"
  BY DEF CallRunner
<1> QED
  BY <1>3, <1>4
  DEF MeasureInv, CheckingInv, MeasuringInv, Looping, Closing, Running

(* The checks of the arguments touch nothing that is measured.             *)
LEMMA EnterMeasures ==
  ASSUME RunnerInv, MeasureInv, Enter
  PROVE  MeasureInv'
<1>1. call' = call /\ UNCHANGED <<invocations, accepted, entries, samples>>
  BY DEF Enter, record
<1>2. MeasurementIsGated'
  BY <1>1, LoopsAreGated, SameProgress DEF Enter
<1>3. \A i \in Slots' : Fresh(i)'
  BY <1>1, SameArguments, SameProgress DEF Enter, MeasureInv
<1>4. \/ pc' = "allocate"
      \/ pc' = "returned" /\ status' # "ok"
  BY DEF Enter
<1> QED
  BY <1>2, <1>3, <1>4
  DEF MeasureInv, CheckingInv, MeasuringInv, Looping, Closing, Running

(* The array of results names every implementation and marks none valid.   *)
LEMMA AllocateMeasures ==
  ASSUME RunnerInv, MeasureInv, NEW ok \in BOOLEAN, Allocate(ok)
  PROVE  MeasureInv'
<1>1. /\ call' = call /\ UNCHANGED <<invocations, accepted, samples>>
      /\ pc = "allocate"
  BY DEF Allocate, record
<1>2. Slots' = Slots /\ Implementations' = Implementations
  BY <1>1, SameArguments
<1>3. CASE ok
  <2>1. /\ entries' = [i \in Slots |-> BlankEntry(Implementations[i].name)]
        /\ pc' = "setup"
    BY <1>3 DEF Allocate
  <2>2. \A i \in Slots' : /\ ~ entries'[i].valid
                          /\ entries'[i].name = Implementations'[i].name
    BY <1>2, <2>1 DEF BlankEntry
  <2>3. \A i \in Slots' : Fresh(i)'
    BY <1>1, <1>2, <2>2 DEF MeasureInv, Fresh
  <2> QED
    BY <2>1, <2>2, <2>3
    DEF MeasureInv, CheckingInv, MeasuringInv, Looping, Closing, Running
<1>4. CASE ~ ok
  <2>1. entries' = entries /\ pc' = "returned" /\ status' # "ok"
    BY <1>4 DEF Allocate
  <2>2. MeasurementIsGated'
    BY <1>1, <2>1, LoopsAreGated, SameProgress
  <2> QED
    BY <2>1, <2>2
    DEF MeasureInv, CheckingInv, MeasuringInv, Looping, Closing, Running
<1> QED
  BY <1>3, <1>4

(* The steps from cleanup on change neither an entry nor a count.          *)
LEMMA ClosingMeasures ==
  ASSUME RunnerInv, MeasureInv,
         Finish \/ Release \/ Destroy \/ Discard \/ UNCHANGED vars
  PROVE  MeasureInv'
<1>1. /\ call' = call /\ UNCHANGED <<invocations, accepted, entries, samples>>
      /\ UNCHANGED <<stage, index, iteration, status>>
  BY DEF Finish, Release, Destroy, Discard, vars, control, memory, record
<1>2. /\ Slots' = Slots /\ Implementations' = Implementations
      /\ Warmup' = Warmup /\ Measured' = Measured
  BY <1>1, SameArguments
<1>3. \/ pc \in Closing /\ pc' \in Closing
         /\ (pc' = "returned" => pc = "returned" \/ pc = "release"
                                                 \/ status = "ok")
         /\ (pc' \in Running => pc \in Running)
      \/ pc \in Closing /\ pc' = "idle"
      \/ pc' = pc
  BY DEF Finish, Release, Destroy, Discard, vars, control, Closing, Running,
         PcValues
<1>4. /\ \A i : /\ Fresh(i)' <=> Fresh(i)
                /\ Checked(i)' <=> Checked(i)
                /\ Complete(i)' <=> Complete(i)
      /\ \A i, n : Sampled(i, n)' <=> Sampled(i, n)
      /\ MeasurementIsGated' <=> MeasurementIsGated
  BY <1>1, SameProgress
<1>5. pc = "release" => status # "ok"
  BY DEF RunnerInv, ControlInv
<1>6. CASE pc' = pc
  <2>1. CheckingInv' /\ MeasuringInv'
    BY <1>1, <1>2, <1>4, <1>6
    DEF MeasureInv, CheckingInv, MeasuringInv, Invoked
  <2> QED
    BY <1>1, <1>2, <1>4, <1>6, <2>1 DEF MeasureInv
<1>7. CASE pc \in Closing /\ pc' = "idle"
  BY <1>4, <1>7
  DEF MeasureInv, CheckingInv, MeasuringInv, Looping, Closing, Running
<1>8. CASE /\ pc \in Closing /\ pc' \in Closing
           /\ pc' = "returned" => pc = "returned" \/ pc = "release"
                                                  \/ status = "ok"
           /\ pc' \in Running => pc \in Running
  <2>1. CheckingInv' /\ MeasuringInv'
    BY <1>8 DEF CheckingInv, MeasuringInv, Looping, Closing
  <2>2. pc' \notin {"enter", "allocate", "setup"} /\ pc # "allocate"
    BY <1>8 DEF Closing
  <2>3. pc' \in Running \ {"allocate"} \/ (pc' = "returned" /\ status' = "ok")
          => \/ pc \in Running \ {"allocate"}
             \/ pc = "returned" /\ status = "ok"
    BY <1>1, <1>5, <1>8 DEF Closing, Running, PcValues
  <2> QED
    BY <1>1, <1>2, <1>4, <1>8, <2>1, <2>2, <2>3 DEF MeasureInv
<1> QED
  BY <1>3, <1>6, <1>7, <1>8

(* The check of the first implementation begins.                           *)
LEMMA SetupMeasures ==
  ASSUME RunnerInv, MeasureInv, NEW ok \in BOOLEAN, NEW made \in BOOLEAN,
         Setup(ok, made)
  PROVE  MeasureInv'
<1>1. /\ call' = call /\ UNCHANGED <<invocations, accepted, entries, samples>>
      /\ pc = "setup"
  BY DEF Setup, memory, record
<1>2. /\ Slots' = Slots /\ Implementations' = Implementations
      /\ Count' = Count /\ Slots = 1 .. Count /\ Count \in Nat
  BY <1>1, SameArguments, ArgumentTypes DEF RunnerInv, TypeOK
<1>3. CASE ~ ok
  BY <1>1, <1>3, FailMeasures DEF Setup
<1>4. CASE ok
  <2>1. CheckFrom(1)
    BY <1>4 DEF Setup
  <2>2. /\ MeasurementIsGated'
        /\ \A i \in Slots' : Fresh(i)'
    BY <1>1, <1>2, LoopsAreGated, SameProgress DEF MeasureInv
  <2>3. \A i \in Slots' : entries'[i].name = Implementations'[i].name
    BY <1>1, <1>2 DEF MeasureInv, Running, PcValues
  <2>4. CASE 1 <= Count
    <3>1. index' = 1 /\ pc' = "prepare" /\ stage' = "check"
      BY <2>1, <2>4 DEF CheckFrom
    <3>2. 1 \in Slots' /\ \A i \in Slots' : ~ (i < 1)
      BY <1>2, <2>4
    <3>3. CheckingInv'
      BY <2>2, <3>1, <3>2 DEF CheckingInv, Fresh
    <3> QED
      BY <2>3, <3>1, <3>3 DEF MeasureInv, MeasuringInv, Closing
  <2>5. CASE ~ (1 <= Count)
    <3>1. pc' = "cleanup" /\ Slots' = {}
      BY <1>2, <2>1, <2>5 DEF CheckFrom, MeasureFrom
    <3> QED
      BY <2>2, <3>1
      DEF MeasureInv, CheckingInv, MeasuringInv, Looping
  <2> QED
    BY <2>4, <2>5
<1> QED
  BY <1>3, <1>4

(* A step within an iteration that only moves on.                          *)
LEMMA QuietStepMeasures ==
  ASSUME RunnerInv, MeasureInv, call' = call,
         UNCHANGED <<invocations, accepted, entries, samples>>,
         UNCHANGED <<stage, index, iteration>>,
         \/ /\ pc = "prepare"
            /\ pc' = IF stage = "measure" THEN "start_clock" ELSE "invoke"
         \/ pc = "start_clock" /\ pc' = "invoke"
         \/ pc = "end_clock" /\ pc' = "observe"
         \/ pc = "observe" /\ stage = "check" /\ pc' = "validate"
         \/ pc = "observe" /\ stage = "measure" /\ pc' = "store"
  PROVE  MeasureInv'
<1>1. /\ Slots' = Slots /\ Implementations' = Implementations
      /\ Warmup' = Warmup /\ Measured' = Measured
  BY SameArguments
<1>2. /\ \A i : /\ Fresh(i)' <=> Fresh(i)
                /\ Checked(i)' <=> Checked(i)
                /\ Complete(i)' <=> Complete(i)
      /\ \A i, n : Sampled(i, n)' <=> Sampled(i, n)
  BY SameProgress
<1>3. /\ pc \in Looping /\ pc' \in Looping
      /\ pc \in {"start_clock", "end_clock"} => stage = "measure"
  BY DEF RunnerInv, ControlInv, Looping
<1>4. CheckingInv'
  <2> SUFFICES ASSUME stage = "check" PROVE CheckingInv'
    BY DEF CheckingInv
  <2>1. /\ pc \in {"prepare", "invoke", "observe", "validate"}
        /\ \A i \in Slots : /\ i < index => Checked(i)
                            /\ i > index => Fresh(i)
        /\ invocations[index] = IF pc \in {"observe", "validate"} THEN 1 ELSE 0
        /\ accepted[index] = 0
        /\ ~ entries[index].valid
    BY <1>3 DEF MeasureInv, CheckingInv
  <2>2. \A i \in Slots' : /\ i < index' => Checked(i)'
                          /\ i > index' => Fresh(i)'
    BY <1>1, <1>2, <2>1
  <2>3. /\ pc' \in {"prepare", "invoke", "observe", "validate"}
        /\ invocations'[index'] = IF pc' \in {"observe", "validate"}
                                  THEN 1 ELSE 0
    BY <2>1
  <2> QED
    BY <2>1, <2>2, <2>3 DEF CheckingInv
<1>5. MeasuringInv'
  <2> SUFFICES ASSUME stage # "check" PROVE MeasuringInv'
    BY DEF MeasuringInv
  <2>1. MeasuringInv /\ pc \in Looping /\ stage # "check"
    BY <1>3 DEF MeasureInv
  <2>2. \A i \in Slots' : /\ i < index' => Complete(i)'
                          /\ i > index' => Checked(i)'
    BY <1>1, <1>2, <2>1 DEF MeasuringInv
  <2>3. Invoked' = Invoked
    BY <1>3, <2>1 DEF Invoked
  <2>4. /\ pc # "summarize" /\ pc' # "summarize"
        /\ pc # "allocate_samples" /\ pc' # "allocate_samples"
        /\ pc # "validate" /\ pc' # "validate"
        /\ stage = "warmup" => pc' \in {"prepare", "invoke", "observe"}
    BY <1>3, <2>1
  <2> QED
    BY <1>1, <1>2, <2>1, <2>2, <2>3, <2>4 DEF MeasuringInv
<1>6. \A i \in Slots' : entries'[i].name = Implementations'[i].name
  BY <1>1, <1>3 DEF MeasureInv, Running, Looping, PcValues
<1> QED
  BY <1>3, <1>4, <1>5, <1>6 DEF MeasureInv, Looping, Closing

(* The head of the warm-up or of the measuring loop, n iterations done.    *)
LEMMA IterateMeasures ==
  ASSUME Warmup' \in Nat, Measured' \in Nat,
         NEW loop \in {"warmup", "measure"}, NEW n \in Nat, Iterate(loop, n),
         \A i \in Slots' : /\ i < index' => Complete(i)'
                           /\ i > index' => Checked(i)'
                           /\ entries'[i].name = Implementations'[i].name,
         Warmup' = Warmup, Measured' = Measured,
         ~ entries'[index'].valid, accepted'[index'] = 1,
         entries'[index'].sample_count = Measured,
         loop = "warmup" => n <= Warmup /\ invocations'[index'] = 1 + n,
         loop = "measure" => /\ n <= Measured
                             /\ invocations'[index'] = 1 + Warmup + n
                             /\ Sampled(index, n)'
  PROVE  MeasureInv'
<1>1. CASE loop = "warmup" /\ n < Warmup
  <2>1. stage' = "warmup" /\ iteration' = n /\ pc' = "prepare"
    BY <1>1 DEF Iterate
  <2>2. Invoked' = 0
    BY <2>1 DEF Invoked
  <2>3. MeasuringInv'
    BY <1>1, <2>1, <2>2 DEF MeasuringInv
  <2> QED
    BY <2>1, <2>3 DEF MeasureInv, CheckingInv, Closing
<1>2. CASE ~ (loop = "warmup" /\ n < Warmup)
  <2> DEFINE m == IF loop = "warmup" THEN 0 ELSE n
  <2>1. /\ stage' = "measure" /\ iteration' = m
        /\ pc' = IF m < Measured THEN "prepare" ELSE "validate"
    BY <1>2 DEF Iterate
  <2>2. m \in Nat /\ m <= Measured /\ invocations'[index'] = 1 + Warmup + m
    BY <1>2
  <2>3. Sampled(index, m)'
    <3>1. CASE loop = "warmup"
      <4>1. 0 .. m - 1 = {}
        BY <3>1
      <4> QED
        BY <4>1 DEF Sampled
    <3>2. CASE loop = "measure"
      BY <3>2
    <3> QED
      BY <3>1, <3>2
  <2>4. Invoked' = 0
    BY <2>1 DEF Invoked
  <2> HIDE DEF m
  <2>5. MeasuringInv'
    BY <2>1, <2>2, <2>3, <2>4 DEF MeasuringInv
  <2> QED
    BY <2>1, <2>5 DEF MeasureInv, CheckingInv, Closing
<1> QED
  BY <1>1, <1>2

(* The head of the loop over the implementations to measure.               *)
LEMMA MeasureFromMeasures ==
  ASSUME NEW i \in 1 .. Count + 1, MeasureFrom(i),
         Count \in Nat, Count' = Count, Slots' = 1 .. Count,
         \A j \in Slots' : /\ j < i => Complete(j)'
                           /\ j >= i => Checked(j)'
                           /\ entries'[j].name = Implementations'[j].name
  PROVE  MeasureInv'
<1>1. index' = i /\ stage' = "warmup"
  BY DEF MeasureFrom
<1>2. CASE i <= Count
  <2>1. pc' = "allocate_samples" /\ i \in Slots'
    BY <1>2 DEF MeasureFrom
  <2>2. Checked(i)'
    BY <2>1
  <2>3. MeasuringInv'
    BY <1>1, <2>1, <2>2 DEF MeasuringInv, Checked
  <2> QED
    BY <1>1, <2>1, <2>3 DEF MeasureInv, CheckingInv, Closing
<1>3. CASE ~ (i <= Count)
  <2>1. pc' = "cleanup"
    BY <1>3 DEF MeasureFrom
  <2>2. \A j \in Slots' : Complete(j)'
    BY <1>3
  <2>3. MeasurementIsGated'
    <3>1. \A j \in Slots' : accepted'[j] = 2 /\ entries'[j].valid
      BY <2>2 DEF Complete
    <3>2. \A j \in Slots' : 1 .. j - 1 \subseteq Slots'
      OBVIOUS
    <3> QED
      BY <3>1, <3>2 DEF MeasurementIsGated
  <2> QED
    BY <2>1, <2>2, <2>3
    DEF MeasureInv, CheckingInv, MeasuringInv, Looping
<1> QED
  BY <1>2, <1>3

(* What a step may use of the implementation at the index and of the       *)
(* others, in the loop that measures.                                      *)
LEMMA InTheMeasuringLoop ==
  ASSUME RunnerInv, MeasureInv, pc \in Looping, stage # "check"
  PROVE  /\ index \in Slots /\ Slots = 1 .. Count /\ Count \in Nat
         /\ Warmup \in Nat /\ Measured \in Nat /\ iteration \in Nat
         /\ MeasuringInv
         /\ entries \in [Slots -> Entry]
         /\ \A i \in Slots : entries[i].name = Implementations[i].name
BY ArgumentTypes
DEF RunnerInv, TypeOK, ControlInv, MeasureInv, Running, Looping, PcValues

(* The array of samples is allocated and the warm-up begins.               *)
LEMMA AllocateSamplesMeasures ==
  ASSUME RunnerInv, MeasureInv, NEW ok \in BOOLEAN, AllocateSamples(ok)
  PROVE  MeasureInv'
<1>1. /\ call' = call /\ UNCHANGED <<invocations, accepted, samples>>
      /\ pc = "allocate_samples" /\ pc \in Looping
  BY DEF AllocateSamples, record, Looping
<1>2. /\ Slots' = Slots /\ Implementations' = Implementations
      /\ Warmup' = Warmup /\ Measured' = Measured
      /\ SampleIndexes' = SampleIndexes
  BY <1>1, SameArguments
<1>3. CASE ~ ok
  BY <1>1, <1>3, FailMeasures DEF AllocateSamples
<1>4. CASE ok
  <2>1. stage # "check"
    BY <1>1 DEF MeasureInv, CheckingInv
  <2>2. /\ index' = index /\ Iterate("warmup", 0)
        /\ entries' = [entries EXCEPT ![index] =
             [@ EXCEPT !.samples_ns = index, !.sample_count = Measured]]
    BY <1>4 DEF AllocateSamples
  <2>3. /\ index \in Slots /\ MeasuringInv /\ entries \in [Slots -> Entry]
        /\ Warmup \in Nat /\ Measured \in Nat
        /\ \A i \in Slots : entries[i].name = Implementations[i].name
        /\ Slots = 1 .. Count /\ Count \in Nat
    BY <1>1, <2>1, InTheMeasuringLoop
  <2>4. /\ invocations[index] = 1 /\ accepted[index] = 1
        /\ ~ entries[index].valid
        /\ \A i \in Slots : /\ i < index => Complete(i)
                            /\ i > index => Checked(i)
    BY <1>1, <2>1, <2>3 DEF MeasuringInv
  <2>5. /\ entries'[index].sample_count = Measured
        /\ entries'[index].valid = entries[index].valid
        /\ entries'[index].name = entries[index].name
    BY <2>2, <2>3 DEF Entry
  <2>6. \A i \in Slots : i # index => entries'[i] = entries[i]
    BY <2>2, <2>3
  <2>7. \A i \in Slots : i # index =>
          (Complete(i)' <=> Complete(i)) /\ (Checked(i)' <=> Checked(i))
    BY <1>1, <1>2, <2>6 DEF Complete, Checked, Sampled, Measurements
  <2>8. \A i \in Slots' : /\ i < index' => Complete(i)'
                          /\ i > index' => Checked(i)'
                          /\ entries'[i].name = Implementations'[i].name
    BY <1>2, <2>2, <2>3, <2>4, <2>5, <2>6, <2>7
  <2> QED
    BY <1>1, <1>2, <2>2, <2>3, <2>4, <2>5, <2>8, IterateMeasures
<1> QED
  BY <1>3, <1>4

(* The start of an interval is read, or the clock fails.                   *)
LEMMA StartClockMeasures ==
  ASSUME RunnerInv, MeasureInv, NEW ok \in BOOLEAN, StartClock(ok)
  PROVE  MeasureInv'
<1>1. /\ call' = call /\ UNCHANGED <<invocations, accepted, entries, samples>>
      /\ pc = "start_clock" /\ pc \in Looping
  BY DEF StartClock, record, memory, Looping
<1>2. CASE ~ ok
  BY <1>1, <1>2, FailMeasures DEF StartClock
<1>3. CASE ok
  BY <1>1, <1>3, QuietStepMeasures DEF StartClock
<1> QED
  BY <1>2, <1>3

(* A fixture is prepared, or the end of an interval is read.               *)
LEMMA PrepareMeasures ==
  ASSUME RunnerInv, MeasureInv, Prepare \/ (\E ok \in BOOLEAN : EndClock(ok))
  PROVE  MeasureInv'
BY QuietStepMeasures DEF Prepare, EndClock, record, memory

(* One more invocation of the implementation at the index.                 *)
LEMMA InvokeMeasures ==
  ASSUME RunnerInv, MeasureInv, Invoke
  PROVE  MeasureInv'
<1>1. /\ call' = call /\ UNCHANGED <<accepted, entries, samples>>
      /\ UNCHANGED <<stage, index, iteration>>
      /\ pc = "invoke" /\ pc \in Looping
      /\ invocations' = [invocations EXCEPT ![index] = @ + 1]
      /\ pc' = IF stage = "measure" THEN "end_clock" ELSE "observe"
  BY DEF Invoke, memory, Looping
<1>2. /\ Slots' = Slots /\ Implementations' = Implementations
      /\ Warmup' = Warmup /\ Measured' = Measured
      /\ SampleIndexes' = SampleIndexes
  BY <1>1, SameArguments
<1>3. /\ index \in Slots /\ Slots = 1 .. Count /\ Count \in Nat
      /\ Warmup \in Nat /\ Measured \in Nat /\ iteration \in Nat
      /\ invocations \in [Slots -> Nat]
  BY <1>1, ArgumentTypes DEF RunnerInv, TypeOK, ControlInv
<1>4. /\ invocations'[index] = invocations[index] + 1
      /\ \A i \in Slots : i # index => invocations'[i] = invocations[i]
  BY <1>1, <1>3
<1>5. /\ \A i \in Slots : i # index => /\ Fresh(i)' <=> Fresh(i)
                                       /\ Checked(i)' <=> Checked(i)
                                       /\ Complete(i)' <=> Complete(i)
      /\ \A n : Sampled(index, n)' <=> Sampled(index, n)
  BY <1>1, <1>2, <1>4 DEF Fresh, Complete, Checked, Sampled, Measurements
<1>6. Invoked = 0 /\ (stage # "check" => Invoked' = 1)
  BY <1>1 DEF Invoked
<1>7. CheckingInv'
  <2> SUFFICES ASSUME stage = "check" PROVE CheckingInv'
    BY <1>1 DEF CheckingInv
  <2>1. /\ \A i \in Slots : /\ i < index => Checked(i)
                            /\ i > index => Fresh(i)
        /\ invocations[index] = 0 /\ accepted[index] = 0
        /\ ~ entries[index].valid
    BY <1>1 DEF MeasureInv, CheckingInv
  <2>2. \A i \in Slots' : /\ i < index' => Checked(i)'
                          /\ i > index' => Fresh(i)'
    BY <1>1, <1>2, <1>3, <1>5, <2>1
  <2> QED
    BY <1>1, <1>4, <2>1, <2>2 DEF CheckingInv
<1>8. MeasuringInv'
  <2> SUFFICES ASSUME stage # "check" PROVE MeasuringInv'
    BY <1>1 DEF MeasuringInv
  <2>1. MeasuringInv
    BY DEF MeasureInv
  <2>2. \A i \in Slots' : /\ i < index' => Complete(i)'
                          /\ i > index' => Checked(i)'
    BY <1>1, <1>2, <1>3, <1>5, <2>1 DEF MeasuringInv
  <2>3. /\ stage = "warmup" =>
             iteration < Warmup /\ invocations'[index] = 1 + iteration + 1
        /\ stage = "measure" =>
             /\ iteration < Measured
             /\ invocations'[index] = 1 + Warmup + iteration + 1
             /\ Sampled(index, iteration)'
    BY <1>1, <1>3, <1>4, <1>5, <1>6, <2>1 DEF MeasuringInv
  <2>4. /\ ~ entries[index].valid /\ accepted[index] = 1
        /\ entries[index].sample_count = Measured
    BY <1>1, <2>1 DEF MeasuringInv
  <2> QED
    BY <1>1, <1>2, <1>6, <2>2, <2>3, <2>4 DEF MeasuringInv
<1>9. \A i \in Slots' : entries'[i].name = Implementations'[i].name
  BY <1>1, <1>2 DEF MeasureInv, Running, Looping, PcValues
<1> QED
  BY <1>1, <1>7, <1>8, <1>9 DEF MeasureInv, Looping, Closing

(* The invocation is observed: its iteration goes on, a warm-up iteration  *)
(* ends, or a clock that failed ends the run.                              *)
LEMMA ObserveMeasures ==
  ASSUME RunnerInv, MeasureInv, Observe
  PROVE  MeasureInv'
<1>1. /\ call' = call /\ UNCHANGED <<invocations, accepted, entries, samples>>
      /\ pc = "observe" /\ pc \in Looping
  BY DEF Observe, record, memory, Looping
<1>2. CASE status # "ok" /\ Fail(status)
  BY <1>1, <1>2, FailMeasures
<1>3. CASE /\ stage = "check" /\ pc' = "validate"
           /\ UNCHANGED <<stage, index, iteration, status>>
  BY <1>1, <1>3, QuietStepMeasures
<1>4. CASE /\ stage = "measure" /\ pc' = "store"
           /\ UNCHANGED <<stage, index, iteration, status>>
  BY <1>1, <1>4, QuietStepMeasures
<1>5. CASE /\ stage = "warmup" /\ Iterate("warmup", iteration + 1)
           /\ UNCHANGED <<index, status>>
  <2>1. /\ Slots' = Slots /\ Implementations' = Implementations
        /\ Warmup' = Warmup /\ Measured' = Measured
    BY <1>1, SameArguments
  <2>2. /\ MeasuringInv /\ Warmup \in Nat /\ Measured \in Nat
        /\ iteration \in Nat
        /\ \A i \in Slots : entries[i].name = Implementations[i].name
    BY <1>1, <1>5, InTheMeasuringLoop
  <2>3. Invoked = 1
    BY <1>1 DEF Invoked
  <2>4. /\ iteration + 1 <= Warmup
        /\ invocations[index] = 1 + (iteration + 1)
        /\ accepted[index] = 1 /\ ~ entries[index].valid
        /\ entries[index].sample_count = Measured
    BY <1>1, <1>5, <2>2, <2>3 DEF MeasuringInv
  <2>5. \A i \in Slots' : /\ i < index' => Complete(i)'
                          /\ i > index' => Checked(i)'
                          /\ entries'[i].name = Implementations'[i].name
    BY <1>1, <1>5, <2>1, <2>2, SameProgress DEF MeasuringInv
  <2> QED
    BY <1>1, <1>5, <2>1, <2>2, <2>4, <2>5, IterateMeasures
<1> QED
  BY <1>2, <1>3, <1>4, <1>5 DEF Observe

(* A sample is stored: it is of the invocation just made.                  *)
LEMMA StoreMeasures ==
  ASSUME RunnerInv, MeasureInv, NEW ok \in BOOLEAN, Store(ok)
  PROVE  MeasureInv'
<1>1. /\ call' = call /\ UNCHANGED <<invocations, accepted, entries>>
      /\ pc = "store" /\ pc \in Looping /\ stage = "measure"
  BY DEF Store, record, Looping, RunnerInv, ControlInv
<1>2. /\ Slots' = Slots /\ Implementations' = Implementations
      /\ Warmup' = Warmup /\ Measured' = Measured
      /\ SampleIndexes' = SampleIndexes
  BY <1>1, SameArguments
<1>3. CASE ~ ok
  BY <1>1, <1>3, FailMeasures DEF Store
<1>4. CASE ok
  <2>1. /\ index' = index /\ Iterate("measure", iteration + 1)
        /\ samples' =
             [samples EXCEPT ![index][iteration] = invocations[index]]
    BY <1>4 DEF Store
  <2>2. /\ index \in Slots /\ MeasuringInv /\ iteration \in Nat
        /\ Warmup \in Nat /\ Measured \in Nat
        /\ \A i \in Slots : entries[i].name = Implementations[i].name
        /\ Slots = 1 .. Count /\ Count \in Nat
        /\ samples \in [Slots -> [SampleIndexes -> Nat]]
    BY <1>1, InTheMeasuringLoop DEF RunnerInv, TypeOK
  <2>3. Invoked = 1
    BY <1>1 DEF Invoked
  <2>4. /\ iteration < Measured
        /\ invocations[index] = 1 + Warmup + iteration + 1
        /\ Sampled(index, iteration)
        /\ accepted[index] = 1 /\ ~ entries[index].valid
        /\ entries[index].sample_count = Measured
    BY <1>1, <2>2, <2>3 DEF MeasuringInv
  <2>5. \A i \in Slots : i # index => samples'[i] = samples[i]
    BY <2>1, <2>2
  <2>6. \A i \in Slots : i # index =>
          (Complete(i)' <=> Complete(i)) /\ (Checked(i)' <=> Checked(i))
    BY <1>1, <1>2, <2>5 DEF Complete, Checked, Sampled, Measurements
  <2>7. \A i \in Slots' : /\ i < index' => Complete(i)'
                          /\ i > index' => Checked(i)'
                          /\ entries'[i].name = Implementations'[i].name
    BY <1>1, <1>2, <2>1, <2>2, <2>6 DEF MeasuringInv
  <2>8. PICK n \in Nat : n = iteration + 1
    BY <2>2
  <2>9. Sampled(index, n)'
    <3>1. iteration \in SampleIndexes
      BY <2>2, <2>4 DEF SampleIndexes
    <3>2. samples'[index] =
            [samples[index] EXCEPT ![iteration] = invocations[index]]
      BY <2>1, <2>2
    <3>3. samples'[index][iteration] = 2 + Warmup + iteration
      BY <2>2, <2>4, <3>1, <3>2
    <3>4. \A k \in 0 .. iteration - 1 :
            samples'[index][k] = 2 + Warmup + k
      <4>1. \A k \in 0 .. iteration - 1 :
              k # iteration /\ k \in SampleIndexes
        BY <2>2, <2>4 DEF SampleIndexes
      <4>2. \A k \in SampleIndexes :
              k # iteration => samples'[index][k] = samples[index][k]
        BY <2>2, <3>2
      <4> QED
        BY <2>4, <4>1, <4>2 DEF Sampled
    <3>5. \A k \in 0 .. n - 1 :
            k = iteration \/ k \in 0 .. iteration - 1
      BY <2>2, <2>8
    <3> QED
      BY <1>2, <2>1, <3>3, <3>4, <3>5 DEF Sampled
  <2> QED
    BY <1>1, <1>2, <2>1, <2>2, <2>4, <2>7, <2>8, <2>9, IterateMeasures
<1> QED
  BY <1>3, <1>4

(* An implementation is done: its samples are summarized.                  *)
LEMMA SummarizeMeasures ==
  ASSUME RunnerInv, MeasureInv, NEW ok \in BOOLEAN, Summarize(ok)
  PROVE  MeasureInv'
<1>1. /\ call' = call /\ UNCHANGED <<invocations, accepted, samples>>
      /\ pc = "summarize" /\ pc \in Looping /\ stage = "measure"
  BY DEF Summarize, record, Looping, RunnerInv, ControlInv
<1>2. /\ Slots' = Slots /\ Implementations' = Implementations
      /\ Warmup' = Warmup /\ Measured' = Measured /\ Count' = Count
      /\ SampleIndexes' = SampleIndexes
  BY <1>1, SameArguments
<1>3. CASE ~ ok
  BY <1>1, <1>3, FailMeasures DEF Summarize
<1>4. CASE ok
  <2>1. /\ MeasureFrom(index + 1)
        /\ entries' = [entries EXCEPT ![index] =
             [@ EXCEPT !.summary = {samples[index][k] : k \in SampleIndexes},
                       !.valid = TRUE]]
    BY <1>4 DEF Summarize
  <2>2. /\ index \in Slots /\ MeasuringInv /\ entries \in [Slots -> Entry]
        /\ Warmup \in Nat /\ Measured \in Nat
        /\ \A i \in Slots : entries[i].name = Implementations[i].name
        /\ Slots = 1 .. Count /\ Count \in Nat
    BY <1>1, InTheMeasuringLoop
  <2>3. Invoked = 0
    BY <1>1 DEF Invoked
  <2>4. /\ invocations[index] = 1 + Warmup + Measured
        /\ Sampled(index, Measured) /\ accepted[index] = 2
        /\ entries[index].sample_count = Measured
    BY <1>1, <2>2, <2>3 DEF MeasuringInv
  <2>5. {samples[index][k] : k \in SampleIndexes} = Measurements
    BY <2>4 DEF Sampled, Measurements, SampleIndexes
  <2>6. /\ entries'[index].summary = Measurements
        /\ entries'[index].valid
        /\ entries'[index].sample_count = Measured
        /\ entries'[index].name = entries[index].name
    BY <2>1, <2>2, <2>4, <2>5 DEF Entry
  <2>7. \A i \in Slots : i = index => Complete(i)'
    BY <1>1, <1>2, <2>4, <2>6 DEF Complete, Sampled, Measurements
  <2>8. \A i \in Slots : i # index => entries'[i] = entries[i]
    BY <2>1, <2>2
  <2>9. \A i \in Slots : i # index =>
          (Complete(i)' <=> Complete(i)) /\ (Checked(i)' <=> Checked(i))
    BY <1>1, <1>2, <2>8 DEF Complete, Checked, Sampled, Measurements
  <2>10. \A i \in Slots : (i < index + 1 => i < index \/ i = index)
                          /\ (i >= index + 1 => i > index)
    BY <2>2
  <2>11. \A i \in Slots : /\ i < index => Complete(i)'
                          /\ i > index => Checked(i)'
    BY <1>1, <2>2, <2>9 DEF MeasuringInv
  <2>12. \A i \in Slots' : /\ i < index + 1 => Complete(i)'
                           /\ i >= index + 1 => Checked(i)'
                           /\ entries'[i].name = Implementations'[i].name
    BY <1>2, <2>2, <2>6, <2>7, <2>8, <2>10, <2>11
  <2>13. index + 1 \in 1 .. Count + 1
    BY <2>2
  <2> QED
    BY <1>2, <2>1, <2>2, <2>12, <2>13, MeasureFromMeasures
<1> QED
  BY <1>3, <1>4

(* An accepted output: the next implementation is checked, or the first    *)
(* one measured, or the samples of this one are to be summarized.          *)
LEMMA AcceptMeasures ==
  ASSUME RunnerInv, MeasureInv, Validate(TRUE)
  PROVE  MeasureInv'
<1>1. /\ call' = call /\ UNCHANGED <<invocations, entries, samples>>
      /\ pc = "validate" /\ pc \in Looping /\ stage # "warmup"
      /\ accepted' = [accepted EXCEPT ![index] = @ + 1]
  BY DEF Validate, Accept, memory, Looping, RunnerInv, ControlInv
<1>2. /\ Slots' = Slots /\ Implementations' = Implementations
      /\ Warmup' = Warmup /\ Measured' = Measured /\ Count' = Count
      /\ SampleIndexes' = SampleIndexes
  BY <1>1, SameArguments
<1>3. /\ index \in Slots /\ Slots = 1 .. Count /\ Count \in Nat
      /\ accepted \in [Slots -> Nat]
      /\ \A i \in Slots : entries[i].name = Implementations[i].name
  BY <1>1, ArgumentTypes
  DEF RunnerInv, TypeOK, ControlInv, MeasureInv, Running, Looping, PcValues
<1>4. /\ accepted'[index] = accepted[index] + 1
      /\ \A i \in Slots : i # index => accepted'[i] = accepted[i]
  BY <1>1, <1>3
<1>5. \A i \in Slots : i # index => /\ Fresh(i)' <=> Fresh(i)
                                    /\ Checked(i)' <=> Checked(i)
                                    /\ Complete(i)' <=> Complete(i)
  BY <1>1, <1>2, <1>4 DEF Fresh, Complete, Checked, Sampled, Measurements
<1>6. CASE stage = "check"
  <2>1. CheckFrom(index + 1)
    BY <1>6 DEF Validate, Accept
  <2>2. /\ \A i \in Slots : /\ i < index => Checked(i)
                            /\ i > index => Fresh(i)
        /\ invocations[index] = 1 /\ accepted[index] = 0
        /\ ~ entries[index].valid
    BY <1>1, <1>6 DEF MeasureInv, CheckingInv
  <2>3. \A i \in Slots : i = index => Checked(i)'
    BY <1>1, <1>4, <2>2 DEF Checked
  <2>4. \A i \in Slots' : /\ i < index + 1 => Checked(i)'
                          /\ i >= index + 1 => Fresh(i)'
    BY <1>2, <1>3, <1>5, <2>2, <2>3
  <2>5. CASE index + 1 <= Count
    <3>1. index' = index + 1 /\ pc' = "prepare" /\ stage' = "check"
      BY <2>1, <2>5 DEF CheckFrom
    <3>2. index' \in Slots'
      BY <1>2, <1>3, <2>5, <3>1
    <3>3. CheckingInv'
      BY <1>2, <1>3, <2>4, <3>1, <3>2 DEF CheckingInv, Fresh
    <3> QED
      BY <1>1, <1>2, <1>3, <3>1, <3>3 DEF MeasureInv, MeasuringInv, Closing
  <2>6. CASE ~ (index + 1 <= Count)
    <3>1. MeasureFrom(1)
      BY <2>1, <2>6 DEF CheckFrom
    <3>2. \A i \in Slots' : /\ i < 1 => Complete(i)'
                            /\ i >= 1 => Checked(i)'
                            /\ entries'[i].name = Implementations'[i].name
      BY <1>1, <1>2, <1>3, <2>4, <2>6
    <3>3. 1 \in 1 .. Count + 1
      BY <1>3
    <3> QED
      BY <1>2, <1>3, <3>1, <3>2, <3>3, MeasureFromMeasures
  <2> QED
    BY <2>5, <2>6
<1>7. CASE stage # "check"
  <2>1. /\ pc' = "summarize" /\ UNCHANGED <<stage, index, iteration, status>>
        /\ stage = "measure"
    BY <1>1, <1>7 DEF Validate, Accept, RunnerInv, TypeOK
  <2>2. MeasuringInv
    BY DEF MeasureInv
  <2>3. \A i \in Slots' : /\ i < index' => Complete(i)'
                          /\ i > index' => Checked(i)'
    BY <1>1, <1>2, <1>3, <1>5, <1>7, <2>1, <2>2 DEF MeasuringInv
  <2>4. Invoked = 0 /\ Invoked' = 0
    BY <1>1, <2>1 DEF Invoked
  <2>5. /\ accepted'[index] = 2 /\ ~ entries[index].valid
        /\ entries[index].sample_count = Measured
        /\ iteration = Measured
        /\ invocations[index] = 1 + Warmup + iteration + Invoked
        /\ Sampled(index, iteration)
    BY <1>1, <1>4, <1>7, <2>1, <2>2 DEF MeasuringInv
  <2>6. Sampled(index, iteration)'
    BY <1>1, <1>2, <2>1, <2>5 DEF Sampled
  <2>7. MeasuringInv'
    BY <1>1, <1>2, <2>1, <2>3, <2>4, <2>5, <2>6 DEF MeasuringInv
  <2> QED
    BY <1>1, <1>2, <1>3, <1>7, <2>1, <2>7
    DEF MeasureInv, CheckingInv, Closing
<1> QED
  BY <1>6, <1>7

(* A rejected output ends the run.                                         *)
LEMMA RejectMeasures ==
  ASSUME RunnerInv, MeasureInv, Validate(FALSE)
  PROVE  MeasureInv'
BY FailMeasures DEF Validate, Reject, memory, Looping

-----------------------------------------------------------------------------
(***************************************************************************)
(* The theorems on measurements.                                           *)
(***************************************************************************)

(* What is measured is exact after every step of the runner, of the        *)
(* workload and of the caller.                                             *)
THEOREM MeasureIsInvariant == Spec => [](RunnerInv /\ MeasureInv)
<1>1. RunnerInv /\ MeasureInv /\ [Next]_vars => MeasureInv'
  <2> SUFFICES ASSUME RunnerInv, MeasureInv, [Next]_vars PROVE MeasureInv'
    OBVIOUS
  <2>1. CASE CallerStep
    BY <2>1, CallRunnerMeasures, ClosingMeasures DEF CallerStep
  <2>2. CASE RunnerStep
    BY <2>2, EnterMeasures, ClosingMeasures, AllocateMeasures,
       AllocateSamplesMeasures, StartClockMeasures, PrepareMeasures,
       StoreMeasures, SummarizeMeasures
    DEF RunnerStep
  <2>3. CASE WorkloadStep
    <3>1. ASSUME NEW ok \in BOOLEAN, Validate(ok) PROVE MeasureInv'
      <4>1. CASE ok = TRUE
        BY <3>1, <4>1, AcceptMeasures
      <4>2. CASE ok = FALSE
        BY <3>1, <4>2, RejectMeasures
      <4> QED
        BY <4>1, <4>2
    <3> QED
      BY <2>3, <3>1, SetupMeasures, PrepareMeasures, InvokeMeasures,
         ObserveMeasures, ClosingMeasures
      DEF WorkloadStep
  <2>4. CASE UNCHANGED vars
    BY <2>4, ClosingMeasures
  <2> QED
    BY <2>1, <2>2, <2>3, <2>4 DEF Next
<1> QED
  BY <1>1, InitMeasures, RunnerIsInvariant, PTL DEF Spec

(* A run that succeeds delivers one sample per measured iteration, in      *)
(* order and of these iterations alone, and the summary of exactly them.   *)
THEOREM SamplesAreAlwaysMeasured == Spec => []SamplesAreMeasured
<1>1. RunnerInv /\ MeasureInv => SamplesAreMeasured
  <2> SUFFICES ASSUME RunnerInv, MeasureInv, pc = "returned", status = "ok"
               PROVE  SamplesAreMeasured
    BY DEF SamplesAreMeasured
  <2>1. result = [implementations |-> ResultsBlock, count |-> Count]
    BY DEF RunnerInv, ResultInv
  <2>2. \A i \in Slots : /\ Complete(i)
                         /\ entries[i].name = Implementations[i].name
    BY DEF MeasureInv, Closing
  <2> QED
    BY <2>1, <2>2
    DEF SamplesAreMeasured, Complete, Sampled, Measurements, SampleIndexes
<1> QED
  BY <1>1, MeasureIsInvariant, PTL

(* No warm-up or measurement before every output was accepted, and no      *)
(* valid entry without a second acceptance, wherever a run stops.          *)
THEOREM MeasurementIsAlwaysGated == Spec => []MeasurementIsGated
<1>1. RunnerInv /\ MeasureInv => MeasurementIsGated
  <2> SUFFICES ASSUME RunnerInv, MeasureInv PROVE MeasurementIsGated
    OBVIOUS
  <2>1. pc \in Looping \cup {"enter", "allocate", "setup"}
        \/ pc \in Closing \cup {"idle"}
    BY DEF RunnerInv, TypeOK, PcValues, Looping, Closing
  <2> QED
    BY <2>1, LoopsAreGated DEF MeasureInv
<1> QED
  BY <1>1, MeasureIsInvariant, PTL

-----------------------------------------------------------------------------
(***************************************************************************)
(* The contract: what it sees of a step.                                   *)
(***************************************************************************)

(* The verdict depends on what was accepted and rejected only.             *)
LEMMA SameVerdict ==
  ASSUME call' = call, accepted' = accepted, rejected' = rejected
  PROVE  LastVerdict' = LastVerdict
BY SameArguments DEF LastVerdict

(* Inside a call the contract sees neither pc nor the result.              *)
LEMMA InsideCall ==
  ASSUME pc \notin {"idle", "returned"}
  PROVE  Outcome = "running" /\ Delivered = "nothing"
BY DEF Outcome, Delivered

LEMMA StaysInsideCall ==
  ASSUME pc' \notin {"idle", "returned"}
  PROVE  Outcome' = "running" /\ Delivered' = "nothing"
BY DEF Outcome, Delivered

(* What a step has to show that stays inside a call and judges nothing.    *)
LEMMA QuietStep ==
  ASSUME pc \notin {"idle", "returned"}, pc' \notin {"idle", "returned"},
         call' = call, accepted' = accepted, rejected' = rejected
  PROVE  /\ Outcome = "running"
         /\ UNCHANGED <<LastVerdict, Outcome, Delivered>>
BY SameVerdict, InsideCall, StaysInsideCall

(* A call that returns leaves its status and what its result holds.        *)
LEMMA ReturnStep ==
  ASSUME pc \notin {"idle", "returned"}, pc' = "returned",
         call' = call, accepted' = accepted, rejected' = rejected,
         lifecycle' = lifecycle, timed' = timed,
         lifecycle \in {"none", "destroyed"},
         status' \in Contract!Status,
         status' = "ok" =>
           /\ call.run_result
           /\ result'.implementations = ResultsBlock
           /\ rejected = 0 /\ \E i \in Slots : accepted[i] # 0,
         status' # "ok" => (call.run_result => result' = Empty),
         status' = "validation_failure" <=> rejected # 0
  PROVE  Contract!Returned
<1>1. Outcome = "running" /\ Outcome' = status'
  BY InsideCall DEF Outcome
<1>2. LastVerdict' = LastVerdict
  BY SameVerdict
<1>3. status' = "ok" => LastVerdict = "accepted"
  BY DEF LastVerdict
<1>4. status' = "validation_failure" <=> LastVerdict = "rejected"
  BY DEF LastVerdict
<1>5. Delivered' = IF status' = "ok" THEN "complete" ELSE "empty"
  <2>1. CASE status' = "ok"
    <3>1. result' # Empty
      BY <2>1 DEF Empty, ResultsBlock, Null
    <3> QED
      BY <2>1, <3>1 DEF Delivered
  <2>2. CASE status' # "ok"
    BY <2>2 DEF Delivered
  <2> QED
    BY <2>1, <2>2
<1> QED
  BY <1>1, <1>2, <1>3, <1>4, <1>5 DEF Contract!Returned

(* A step the contract does not see.                                       *)
LEMMA UnseenStep ==
  ASSUME pc \notin {"idle", "returned"}, pc' \notin {"idle", "returned"},
         call' = call, accepted' = accepted, rejected' = rejected,
         lifecycle' = lifecycle, timed' = timed
  PROVE  UNCHANGED Contract!contractVars
BY QuietStep DEF Contract!contractVars

(* While nothing is rejected the verdict is not that something is.         *)
LEMMA NothingRejected ==
  ASSUME BlameInv, pc \notin Closing \cup {"idle"}
  PROVE  rejected = 0 /\ LastVerdict # "rejected"
BY DEF BlameInv, LastVerdict, Closing

-----------------------------------------------------------------------------
(***************************************************************************)
(* Steps inside a call.                                                    *)
(***************************************************************************)
ContractStep == Contract!ContractNext \/ UNCHANGED Contract!contractVars

(* prepare is called on a fixture at rest.                                 *)
LEMMA PrepareMeets ==
  ASSUME RunnerInv, ContractInv, Prepare
  PROVE  ContractInv' /\ ContractStep
<1> USE DEF RunnerInv, ContractInv, Looping, Closing, record
<1>1. UNCHANGED <<LastVerdict, Outcome, Delivered>> /\ Outcome = "running"
  BY QuietStep DEF Prepare
<1>2. Contract!PrepareCalled
  BY <1>1, NothingRejected
  DEF Prepare, LifecycleInv, ControlInv, Contract!Move,
      Contract!PrepareCalled
<1>3. ContractStep
  BY <1>2 DEF ContractStep, Contract!ContractNext
<1>4. LifecycleInv'
  BY DEF Prepare, LifecycleInv, ControlInv
<1>5. VerdictInv'
  BY SameArguments DEF Prepare, VerdictInv, ControlInv
<1> QED
  BY <1>3, <1>4, <1>5

(* An implementation is invoked on a prepared fixture.                     *)
LEMMA InvokeMeets ==
  ASSUME RunnerInv, ContractInv, Invoke
  PROVE  ContractInv' /\ ContractStep
<1> USE DEF RunnerInv, ContractInv, Looping, Closing, record
<1>1. UNCHANGED <<LastVerdict, Outcome, Delivered>> /\ Outcome = "running"
  BY QuietStep DEF Invoke
<1>2. Contract!Invoked
  BY <1>1, NothingRejected
  DEF Invoke, LifecycleInv, ControlInv, Contract!Move,
      Contract!Invoked
<1>3. ContractStep
  BY <1>2 DEF ContractStep, Contract!ContractNext
<1>4. LifecycleInv'
  BY DEF Invoke, LifecycleInv, ControlInv
<1>5. VerdictInv'
  BY SameArguments DEF Invoke, VerdictInv, ControlInv
<1> QED
  BY <1>3, <1>4, <1>5

(* The interval ends right after the invocation.                           *)
LEMMA EndClockMeets ==
  ASSUME NEW ok \in BOOLEAN, RunnerInv, ContractInv, EndClock(ok)
  PROVE  ContractInv' /\ ContractStep
<1> USE DEF RunnerInv, ContractInv, Looping, Closing, record
<1>1. UNCHANGED <<LastVerdict, Outcome, Delivered>> /\ Outcome = "running"
  BY QuietStep DEF EndClock
<1>2. Contract!TimerStopped
  BY <1>1, NothingRejected
  DEF EndClock, LifecycleInv, ControlInv, Contract!Move,
      Contract!TimerStopped
<1>3. ContractStep
  BY <1>2 DEF ContractStep, Contract!ContractNext
<1>4. LifecycleInv'
  BY DEF EndClock, LifecycleInv, ControlInv
<1>5. VerdictInv'
  BY SameArguments DEF EndClock, VerdictInv, ControlInv
<1> QED
  BY <1>3, <1>4, <1>5

(* observe is called after every invocation, outside the interval.         *)
LEMMA ObserveMeets ==
  ASSUME RunnerInv, ContractInv, Observe
  PROVE  ContractInv' /\ ContractStep
<1> USE DEF RunnerInv, ContractInv, Looping, Closing, record
<1>1. UNCHANGED <<LastVerdict, Outcome, Delivered>> /\ Outcome = "running"
  BY QuietStep DEF Observe, Fail, Iterate
<1>2. Contract!ObserveCalled
  BY <1>1, NothingRejected
  DEF Observe, Fail, Iterate, LifecycleInv, ControlInv, Contract!Move,
      Contract!ObserveCalled
<1>3. ContractStep
  BY <1>2 DEF ContractStep, Contract!ContractNext
<1>4. LifecycleInv'
  BY DEF Observe, Fail, Iterate, LifecycleInv, ControlInv
<1>5. VerdictInv'
  BY SameArguments DEF Observe, Fail, Iterate, VerdictInv, ControlInv
<1> QED
  BY <1>3, <1>4, <1>5

(* destroy is called once, on the fixture setup has made.                  *)
LEMMA DestroyMeets ==
  ASSUME RunnerInv, ContractInv, Destroy
  PROVE  ContractInv' /\ ContractStep
<1> USE DEF RunnerInv, ContractInv, Looping, Closing, record
<1>1. UNCHANGED <<LastVerdict, Outcome, Delivered>> /\ Outcome = "running"
  BY QuietStep DEF Destroy, control
<1>2. Contract!DestroyCalled
  BY <1>1, NothingRejected
  DEF Destroy, control, LifecycleInv, ControlInv, Contract!Move,
      Contract!DestroyCalled
<1>3. ContractStep
  BY <1>2 DEF ContractStep, Contract!ContractNext
<1>4. LifecycleInv'
  BY DEF Destroy, control, LifecycleInv, ControlInv
<1>5. VerdictInv'
  BY SameArguments DEF Destroy, control, VerdictInv, ControlInv
<1> QED
  BY <1>3, <1>4, <1>5

(* A sample is stored.                                                     *)
LEMMA StoreMeets ==
  ASSUME NEW ok \in BOOLEAN, RunnerInv, ContractInv, Store(ok)
  PROVE  ContractInv' /\ ContractStep
<1> USE DEF RunnerInv, ContractInv, Looping, Closing, record, workload
<1>1. UNCHANGED Contract!contractVars
  BY UnseenStep DEF Store, Fail, Iterate
<1>2. LifecycleInv'
  BY DEF Store, Fail, Iterate, LifecycleInv, ControlInv
<1>3. VerdictInv'
  BY SameArguments DEF Store, Fail, Iterate, VerdictInv, ControlInv
<1> QED
  BY <1>1, <1>2, <1>3 DEF ContractStep

(* An implementation is summarized, and the next one is measured.          *)
LEMMA SummarizeMeets ==
  ASSUME NEW ok \in BOOLEAN, RunnerInv, ContractInv, Summarize(ok)
  PROVE  ContractInv' /\ ContractStep
<1> USE DEF RunnerInv, ContractInv, Looping, Closing, record, workload
<1>1. UNCHANGED Contract!contractVars
  BY UnseenStep DEF Summarize, Fail, MeasureFrom
<1>2. LifecycleInv'
  BY DEF Summarize, Fail, MeasureFrom, LifecycleInv, ControlInv
<1>3. VerdictInv'
  BY SameArguments DEF Summarize, Fail, MeasureFrom, VerdictInv, ControlInv
<1> QED
  BY <1>1, <1>2, <1>3 DEF ContractStep

(* The samples of an implementation are allocated.                         *)
LEMMA AllocateSamplesMeets ==
  ASSUME NEW ok \in BOOLEAN, RunnerInv, ContractInv, AllocateSamples(ok)
  PROVE  ContractInv' /\ ContractStep
<1> USE DEF RunnerInv, ContractInv, Looping, Closing, record, workload
<1>1. UNCHANGED Contract!contractVars
  BY UnseenStep DEF AllocateSamples, Fail, Iterate
<1>2. LifecycleInv'
  BY DEF AllocateSamples, Fail, Iterate, LifecycleInv, ControlInv
<1>3. VerdictInv'
  BY SameArguments DEF AllocateSamples, Fail, Iterate, VerdictInv, ControlInv
<1> QED
  BY <1>1, <1>2, <1>3 DEF ContractStep

(* A measured invocation is timed, and a clock that fails ends the call.   *)
LEMMA StartClockMeets ==
  ASSUME NEW ok \in BOOLEAN, RunnerInv, ContractInv, StartClock(ok)
  PROVE  ContractInv' /\ ContractStep
<1> USE DEF RunnerInv, ContractInv, Looping, Closing, record
<1>1. ContractStep
  <2>1. CASE ok
    <3>1. /\ UNCHANGED <<LastVerdict, Outcome, Delivered>>
          /\ Outcome = "running"
      BY <2>1, QuietStep DEF StartClock
    <3>2. Contract!TimerStarted
      BY <2>1, <3>1 DEF StartClock, LifecycleInv, Contract!TimerStarted
    <3> QED
      BY <3>2 DEF ContractStep, Contract!ContractNext
  <2>2. CASE ~ ok
    BY <2>2, UnseenStep DEF StartClock, Fail, ContractStep
  <2> QED
    BY <2>1, <2>2
<1>2. LifecycleInv'
  BY DEF StartClock, Fail, LifecycleInv, ControlInv
<1>3. VerdictInv'
  BY SameArguments DEF StartClock, Fail, VerdictInv, ControlInv
<1> QED
  BY <1>1, <1>2, <1>3

(* setup makes the fixture, or the call ends without one.                  *)
LEMMA SetupMeets ==
  ASSUME NEW ok \in BOOLEAN, NEW made \in BOOLEAN,
         RunnerInv, ContractInv, Setup(ok, made)
  PROVE  ContractInv' /\ ContractStep
<1> USE DEF RunnerInv, ContractInv, Looping, Closing, record
<1>1. 1 <= Count
  BY ArgumentTypes
  DEF Setup, ControlInv, Running, PcValues, CallIsValid, DefinitionIsValid,
      TypeOK
<1>2. pc' \in {"prepare", "cleanup"} /\ (pc' = "prepare" => made)
  BY <1>1 DEF Setup, CheckFrom, Fail
<1>3. UNCHANGED <<LastVerdict, Outcome, Delivered>> /\ Outcome = "running"
  BY <1>2, QuietStep DEF Setup
<1>4. ContractStep
  <2>1. CASE made
    <3>1. Contract!SetupCalled
      BY <2>1, <1>3
      DEF Setup, LifecycleInv, Contract!Move, Contract!SetupCalled
    <3> QED
      BY <3>1 DEF ContractStep, Contract!ContractNext
  <2>2. CASE ~ made
    BY <2>2, <1>3
    DEF Setup, LifecycleInv, ContractStep, Contract!contractVars
  <2> QED
    BY <2>1, <2>2
<1>5. LifecycleInv'
  BY <1>2 DEF Setup, LifecycleInv
<1>6. VerdictInv'
  BY <1>1 DEF Setup, CheckFrom, Fail, VerdictInv
<1> QED
  BY <1>4, <1>5, <1>6

(* The output of an implementation is accepted.                            *)
LEMMA AcceptMeets ==
  ASSUME RunnerInv, ContractInv, Validate(TRUE)
  PROVE  ContractInv' /\ ContractStep
<1> USE DEF RunnerInv, ContractInv, Looping, Closing, workload
<1>1. /\ pc' \in {"prepare", "allocate_samples", "cleanup", "summarize"}
      /\ pc' = "cleanup" => stage' = "warmup"
      /\ stage' \in {"check", "warmup", "measure"}
  BY DEF Validate, Accept, CheckFrom, MeasureFrom, TypeOK
<1>2. index \in Slots /\ accepted \in [Slots -> Nat]
  BY DEF Validate, ControlInv, TypeOK
<1>3. \E i \in Slots : accepted'[i] # 0
  <2>1. accepted'[index] = accepted[index] + 1 /\ accepted[index] \in Nat
    BY <1>2 DEF Validate, Accept
  <2> QED
    BY <1>2, <2>1
<1>4. Slots' = Slots
  BY SameArguments DEF Validate
<1>5. LastVerdict' = "accepted"
  BY <1>3, <1>4, NothingRejected DEF Validate, Accept, LastVerdict
<1>6. /\ Outcome = "running" /\ Outcome' = Outcome
      /\ Delivered' = Delivered
  BY <1>1, InsideCall, StaysInsideCall DEF Validate
<1>7. Contract!ValidateCalled
  BY <1>5, <1>6, NothingRejected
  DEF Validate, LifecycleInv, Contract!ValidateCalled
<1>8. LifecycleInv'
  BY <1>1 DEF Validate, LifecycleInv
<1>9. VerdictInv'
  BY <1>1, <1>3, <1>4
  DEF Validate, Accept, CheckFrom, MeasureFrom, VerdictInv, ControlInv
<1> QED
  BY <1>7, <1>8, <1>9 DEF ContractStep, Contract!ContractNext

(* The output of an implementation is rejected.                            *)
LEMMA RejectMeets ==
  ASSUME RunnerInv, ContractInv, Validate(FALSE)
  PROVE  ContractInv' /\ ContractStep
<1> USE DEF RunnerInv, ContractInv, Looping, Closing, workload
<1>1. pc' = "cleanup" /\ status' = "validation_failure"
  BY DEF Validate, Reject, Fail
<1>2. rejected' # 0
  BY ArgumentTypes DEF Validate, Reject, ControlInv, TypeOK
<1>3. LastVerdict' = "rejected"
  BY <1>2 DEF LastVerdict
<1>4. /\ Outcome = "running" /\ Outcome' = Outcome
      /\ Delivered' = Delivered
  BY <1>1, InsideCall, StaysInsideCall DEF Validate
<1>5. Contract!ValidateCalled
  BY <1>3, <1>4, NothingRejected
  DEF Validate, LifecycleInv, Contract!ValidateCalled
<1>6. LifecycleInv'
  BY <1>1 DEF Validate, LifecycleInv
<1>7. VerdictInv'
  BY <1>1 DEF VerdictInv
<1> QED
  BY <1>5, <1>6, <1>7 DEF ContractStep, Contract!ContractNext

-----------------------------------------------------------------------------
(***************************************************************************)
(* Steps into and out of a call.                                           *)
(***************************************************************************)

(* A call with invalid arguments returns at once, with an empty result.    *)
LEMMA EnterMeets ==
  ASSUME RunnerInv, ContractInv, Enter
  PROVE  ContractInv' /\ ContractStep
<1> USE DEF RunnerInv, ContractInv, Looping, Closing, record, workload
<1>1. ContractStep
  <2>1. CASE CallIsValid
    BY <2>1, UnseenStep DEF Enter, ContractStep
  <2>2. CASE ~ CallIsValid
    <3>1. rejected = 0
      BY DEF Enter, BlameInv
    <3>2. status' = "invalid_configuration"
      BY <2>2 DEF Enter
    <3>3. Contract!Returned
      BY <2>2, <3>1, <3>2, ReturnStep
      DEF Enter, LifecycleInv, Contract!Status
    <3> QED
      BY <3>3 DEF ContractStep, Contract!ContractNext
  <2> QED
    BY <2>1, <2>2
<1>2. LifecycleInv'
  BY DEF Enter, LifecycleInv
<1>3. VerdictInv'
  BY DEF Enter, VerdictInv
<1> QED
  BY <1>1, <1>2, <1>3

(* A call without memory for its results returns, with an empty result.    *)
LEMMA AllocateMeets ==
  ASSUME NEW ok \in BOOLEAN, RunnerInv, ContractInv, Allocate(ok)
  PROVE  ContractInv' /\ ContractStep
<1> USE DEF RunnerInv, ContractInv, Looping, Closing, record, workload
<1>1. ContractStep
  <2>1. CASE ok
    BY <2>1, UnseenStep DEF Allocate, ContractStep
  <2>2. CASE ~ ok
    <3>1. rejected = 0
      BY NothingRejected DEF Allocate
    <3>2. status' = "allocation_failure" /\ pc' = "returned"
          /\ result' = Empty
      BY <2>2 DEF Allocate, ResultInv
    <3>3. Contract!Returned
      BY <3>1, <3>2, ReturnStep
      DEF Allocate, LifecycleInv, Contract!Status
    <3> QED
      BY <3>3 DEF ContractStep, Contract!ContractNext
  <2> QED
    BY <2>1, <2>2
<1>2. LifecycleInv'
  BY DEF Allocate, LifecycleInv
<1>3. VerdictInv'
  BY DEF Allocate, VerdictInv
<1> QED
  BY <1>1, <1>2, <1>3

(* A call that did not fail returns its result once the fixture is gone.   *)
LEMMA FinishMeets ==
  ASSUME RunnerInv, ContractInv, Finish
  PROVE  ContractInv' /\ ContractStep
<1> USE DEF RunnerInv, ContractInv, Looping, Closing, record, workload, memory
<1>1. ContractStep
  <2>1. CASE status # "ok"
    BY <2>1, UnseenStep DEF Finish, ContractStep
  <2>2. CASE status = "ok"
    <3>1. rejected = 0 /\ \E i \in Slots : accepted[i] # 0
      BY <2>2 DEF Finish, BlameInv, VerdictInv
    <3>2. /\ call.run_result
          /\ result.implementations = ResultsBlock
      BY DEF Finish, ControlInv, ResultInv, Running, PcValues, CallIsValid
    <3>3. Contract!Returned
      BY <2>2, <3>1, <3>2, ReturnStep
      DEF Finish, LifecycleInv, Contract!Status
    <3> QED
      BY <3>3 DEF ContractStep, Contract!ContractNext
  <2> QED
    BY <2>1, <2>2
<1>2. LifecycleInv'
  BY DEF Finish, LifecycleInv
<1>3. VerdictInv'
  BY SameArguments DEF Finish, VerdictInv
<1> QED
  BY <1>1, <1>2, <1>3

(* A call that failed returns with an empty result.                        *)
LEMMA ReleaseMeets ==
  ASSUME RunnerInv, ContractInv, Release
  PROVE  ContractInv' /\ ContractStep
<1> USE DEF RunnerInv, ContractInv, Looping, Closing, record, workload
<1>1. status' # "ok" /\ status' = status /\ result' = Empty
  BY DEF Release, ControlInv, DestroyResult
<1>2. status = "validation_failure" <=> rejected # 0
  BY ArgumentTypes DEF Release, BlameInv, TypeOK
<1>3. Contract!Returned
  BY <1>1, <1>2, ReturnStep DEF Release, LifecycleInv, TypeOK
<1>4. LifecycleInv'
  BY DEF Release, LifecycleInv
<1>5. VerdictInv'
  BY <1>1 DEF Release, VerdictInv
<1> QED
  BY <1>3, <1>4, <1>5 DEF ContractStep, Contract!ContractNext

(* The caller discards its result.                                         *)
LEMMA DiscardMeets ==
  ASSUME RunnerInv, ContractInv, Discard
  PROVE  ContractInv' /\ ContractStep
<1> USE DEF RunnerInv, ContractInv, Looping, Closing, record, workload
<1>1. LastVerdict' = LastVerdict
  BY SameVerdict DEF Discard
<1>2. Outcome # "running" /\ Outcome' = "none"
  BY DEF Discard, Outcome, TypeOK, Contract!Status
<1>3. Delivered' = "empty"
  BY DEF Discard, DestroyResult, Delivered
<1>4. Contract!Discarded
  BY <1>1, <1>2, <1>3 DEF Discard, Contract!Discarded
<1>5. LifecycleInv'
  BY DEF Discard, LifecycleInv
<1>6. VerdictInv'
  BY DEF Discard, VerdictInv
<1> QED
  BY <1>4, <1>5, <1>6 DEF ContractStep, Contract!ContractNext

(* The caller calls, with nothing left to destroy in its result.           *)
LEMMA CallRunnerMeets ==
  ASSUME NEW c \in Calls, RunnerInv, ContractInv, CallRunner(c)
  PROVE  ContractInv' /\ ContractStep
<1> USE DEF RunnerInv, ContractInv, Looping, Closing
<1>1. Slots' = 1 .. Len(ImplementationsOf(c))
  BY DEF CallRunner, Slots, Count, Implementations
<1>2. LastVerdict' = "none"
  BY <1>1 DEF CallRunner, LastVerdict, Zeros
<1>3. Outcome # "running" /\ Outcome' = "running"
  BY DEF CallRunner, Outcome, TypeOK, Contract!Status
<1>4. Delivered # "complete" /\ Delivered' = "nothing"
  BY DEF CallRunner, Delivered, ResultInv
<1>5. Contract!Called
  BY <1>2, <1>3, <1>4 DEF CallRunner, Contract!Called
<1>6. LifecycleInv'
  BY DEF CallRunner, LifecycleInv
<1>7. VerdictInv'
  BY DEF CallRunner, VerdictInv
<1> QED
  BY <1>5, <1>6, <1>7 DEF ContractStep, Contract!ContractNext

(* Nothing happens.                                                        *)
LEMMA StutterMeets ==
  ASSUME RunnerInv, ContractInv, UNCHANGED vars
  PROVE  ContractInv' /\ ContractStep
<1> USE DEF vars, control, memory, workload, record
<1>1. Slots' = Slots
  BY SameArguments
<1>2. LastVerdict' = LastVerdict
  BY SameVerdict
<1>3. Outcome' = Outcome /\ Delivered' = Delivered
  BY DEF Outcome, Delivered
<1>4. ContractInv'
  BY <1>1 DEF ContractInv, LifecycleInv, VerdictInv
<1> QED
  BY <1>2, <1>3, <1>4 DEF ContractStep, Contract!contractVars

-----------------------------------------------------------------------------
(* Before the first call nothing is promised.                              *)
LEMMA InitMeets == Init => ContractInv /\ Contract!ContractInit
<1> SUFFICES ASSUME Init PROVE ContractInv /\ Contract!ContractInit
  OBVIOUS
<1>1. ContractInv
  BY DEF Init, ContractInv, LifecycleInv, VerdictInv, Looping, Closing
<1>2. Slots = 1 .. Len(ImplementationsOf(call))
  BY DEF Slots, Count, Implementations
<1>3. LastVerdict = "none"
  BY <1>2 DEF Init, LastVerdict, Zeros
<1>4. Outcome = "none" /\ Delivered \in {"nothing", "empty"}
  BY DEF Init, Outcome, Delivered, Empty, Garbage, ResultsBlock
<1> QED
  BY <1>1, <1>3, <1>4 DEF Init, Contract!ContractInit

(* The runner keeps every promise of benchmark.h, for all definitions,     *)
(* configurations, failures and series of calls.                           *)
THEOREM RunnerKeepsContract == Spec => KeepsContract
<1>1. RunnerInv /\ ContractInv /\ [Next]_vars => ContractInv' /\ ContractStep
  <2> SUFFICES ASSUME RunnerInv, ContractInv, [Next]_vars
               PROVE  ContractInv' /\ ContractStep
    OBVIOUS
  <2>1. CASE UNCHANGED vars
    BY <2>1, StutterMeets
  <2>2. CASE CallerStep
    BY <2>2, CallRunnerMeets, DiscardMeets DEF CallerStep
  <2>3. CASE RunnerStep
    BY <2>3, EnterMeets, FinishMeets, ReleaseMeets, AllocateMeets,
       AllocateSamplesMeets, StartClockMeets, EndClockMeets, StoreMeets,
       SummarizeMeets
    DEF RunnerStep
  <2>4. CASE WorkloadStep
    <3>1. CASE \E ok \in BOOLEAN : Validate(ok)
      BY <3>1, AcceptMeets, RejectMeets
    <3>2. CASE \E ok, made \in BOOLEAN : Setup(ok, made)
      BY <3>2, SetupMeets
    <3> QED
      BY <2>4, <3>1, <3>2, PrepareMeets, InvokeMeets, ObserveMeets,
         DestroyMeets
      DEF WorkloadStep
  <2> QED
    BY <2>1, <2>2, <2>3, <2>4 DEF Next
<1>2. ContractStep <=> [Contract!ContractNext]_(Contract!contractVars)
  BY DEF ContractStep
<1> QED
  BY <1>1, <1>2, InitMeets, RunnerIsInvariant, PTL
  DEF Spec, KeepsContract, Contract!ContractSpec
===============================================================================
