-------------------------- MODULE VectorAddWorkload --------------------------
(***************************************************************************)
(* The vector-add workload of src/benchmark/vector_add_workload.c: the     *)
(* fixture its setup allocates, what the kernels write into it and what    *)
(* validate and observe read from it.                                      *)
(*                                                                         *)
(* An element of an array is not a float but "sum" (the right one), some   *)
(* other value, or "unwritten", the content of fresh memory.  A build      *)
(* gives each kernel what its machine code writes at every element; a      *)
(* correct build writes "sum" everywhere (VectorAddKernels).               *)
(***************************************************************************)
EXTENDS Integers

CONSTANTS
  Kernels,    \* the kernels: "reference", "scalar" and "auto"
  Builds,     \* the builds, each a function from kernels to what they write
  MaxLength,  \* the longest vector
  SizeMax,    \* SIZE_MAX
  FloatSize   \* sizeof(float)

Elements == 0 .. MaxLength - 1

VARIABLES
  build,      \* the kernels of the running program
  blocks,     \* the allocated blocks of the fixture
  badFree,    \* whether a block was freed that is not allocated
  length,     \* the length field of the fixture
  reference,  \* the array of expected sums
  output      \* the array every implementation writes to

fixtureVars == <<build, blocks, badFree, length, reference, output>>

FixtureBlocks == {"fixture", "lhs", "rhs", "reference", "output"}

Unwritten(n) == [e \in 0 .. n - 1 |-> "unwritten"]

(* Mutant: the loop of a kernel stops one element early.                   *)
WrittenShort(kernel, array) ==
  [e \in DOMAIN array |->
     IF build[kernel][e] = "nothing" \/ e + 1 \notin DOMAIN array
     THEN array[e] ELSE build[kernel][e]]

Written(kernel, array) ==
  [e \in DOMAIN array |->
     IF build[kernel][e] = "nothing" THEN array[e] ELSE build[kernel][e]]

(* Mutant: setup never runs the reference kernel.                          *)
ExpectedUnset(n) == Unwritten(n)

(* The sums the reference kernel computes once, in setup.                  *)
Expected(n) == Written("reference", Unwritten(n))

SizeFits(n) == FloatSize = 0 \/ n <= SizeMax \div FloatSize

(* The blocks setup allocates for n elements when those in got can be: no  *)
(* array is asked for when the fixture cannot be allocated.                *)
Allocated(n, got) ==
  IF n # 0 /\ SizeFits(n) /\ "fixture" \in got THEN got ELSE {}

SetupSucceeds(n, got) == Allocated(n, got) = FixtureBlocks

(* Mutant: a failing allocation frees the fixture but not its arrays.      *)
KeptArrays(n, got) == Allocated(n, got) \ {"fixture"}

(* What is left when setup fails: everything that was allocated is freed.  *)
Kept(n, got) ==
  Allocated(n, got) \ {"output", "reference", "rhs", "lhs", "fixture"}

Free(freed) ==
  /\ badFree' = (badFree \/ ~ (freed \subseteq blocks))
  /\ blocks' = blocks \ freed

-----------------------------------------------------------------------------
Init ==
  /\ build \in Builds
  /\ blocks = {}
  /\ badFree = FALSE
  /\ length = 0
  /\ reference = Unwritten(0)
  /\ output = Unwritten(0)

Setup(n, got) ==
  /\ UNCHANGED <<build, badFree>>
  /\ IF SetupSucceeds(n, got)
     THEN /\ blocks' = got
          /\ length' = n
          /\ reference' = Expected(n)
          /\ output' = Unwritten(n)
     ELSE /\ blocks' = Kept(n, got)
          /\ UNCHANGED <<length, reference, output>>

(* The output keeps what the kernel before has left in it.                 *)
Prepare == UNCHANGED fixtureVars

Invoke(kernel) ==
  /\ output' = Written(kernel, output)
  /\ UNCHANGED <<build, blocks, badFree, length, reference>>

(* Fresh memory compares in any way; every other pair of elements is       *)
(* nearly equal when it is the same value.                                 *)
MayBeEqual(e) == \/ output[e] = reference[e]
                 \/ "unwritten" \in {output[e], reference[e]}
MayDiffer(e) == \/ output[e] # reference[e]
                \/ "unwritten" \in {output[e], reference[e]}

(* Mutant: the last element is not compared.                               *)
ValidateShort(ok) ==
  /\ IF ok THEN \A e \in DOMAIN output :
                  e + 1 \in DOMAIN output => MayBeEqual(e)
           ELSE \E e \in DOMAIN output :
                  e + 1 \in DOMAIN output /\ MayDiffer(e)
  /\ UNCHANGED fixtureVars

Validate(ok) ==
  /\ IF ok THEN \A e \in DOMAIN output : MayBeEqual(e)
           ELSE \E e \in DOMAIN output : MayDiffer(e)
  /\ UNCHANGED fixtureVars

Observe == UNCHANGED fixtureVars

(* The five calls of free.                                                 *)
Destroy ==
  /\ Free({"output", "reference", "rhs", "lhs", "fixture"})
  /\ UNCHANGED <<build, length, reference, output>>

(* The element observe reads: output[iteration % length].                  *)
ObservedElement(iteration) == iteration % length
=============================================================================
