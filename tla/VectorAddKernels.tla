--------------------------- MODULE VectorAddKernels ---------------------------
(***************************************************************************)
(* The three kernels of src/kernels, loop by loop, as their source says.   *)
(*                                                                         *)
(* The store output[to] = lhs[left] + rhs[right] is the triple             *)
(* <<to, left, right>>; the state is the set of stores done so far.  The   *)
(* reference and the auto-vectorized kernel run the same simple loop; the  *)
(* scalar one is unrolled by four and finishes with the simple loop.  The  *)
(* names say that they are the kernels', so that a module can extend this  *)
(* one beside the benchmark.                                               *)
(***************************************************************************)
EXTENDS Integers

CONSTANT KernelLengths   \* the lengths a kernel may be called with

ASSUME KernelLengthsAssumption == KernelLengths \subseteq Nat

VARIABLES
  running,        \* which kernel runs
  kernel_length,  \* its argument length
  kernel_loop,    \* the loop it is in: "unrolled", "simple" or "done"
  kernel_index,   \* its loop variable index
  stores          \* the stores it has done

kernelVars ==
  <<running, kernel_length, kernel_loop, kernel_index, stores>>

(* The functions of include/rct/kernels.h.                                 *)
KernelNames == {"reference", "scalar", "auto"}

Unroll == 4

SumAt(i) == <<i, i, i>>

(* Mutant: the bound is rounded up.                                        *)
RoundedUpLength ==
  kernel_length + ((Unroll - (kernel_length % Unroll)) % Unroll)

UnrolledLength == kernel_length - (kernel_length % Unroll)

(* Mutant: the second statement of the body repeats the first one's index. *)
RepeatedBodyStores ==
  {SumAt(kernel_index), SumAt(kernel_index + 2), SumAt(kernel_index + 3)}

(* The four statements of the unrolled body.                               *)
BodyStores ==
  {SumAt(kernel_index), SumAt(kernel_index + 1),
   SumAt(kernel_index + 2), SumAt(kernel_index + 3)}

KernelInit ==
  /\ running \in KernelNames
  /\ kernel_length \in KernelLengths
  /\ kernel_loop = IF running = "scalar" THEN "unrolled" ELSE "simple"
  /\ kernel_index = 0
  /\ stores = {}

UnrolledIteration ==
  /\ kernel_loop = "unrolled"
  /\ kernel_index < UnrolledLength
  /\ stores' = stores \cup BodyStores
  /\ kernel_index' = kernel_index + Unroll
  /\ UNCHANGED <<running, kernel_length, kernel_loop>>

UnrolledExit ==
  /\ kernel_loop = "unrolled"
  /\ ~ (kernel_index < UnrolledLength)
  /\ kernel_loop' = "simple"
  /\ UNCHANGED <<running, kernel_length, kernel_index, stores>>

(* Mutant: the loop variable is not incremented.                           *)
IterationWithoutIncrement ==
  /\ kernel_loop = "simple"
  /\ kernel_index < kernel_length
  /\ stores' = stores \cup {SumAt(kernel_index)}
  /\ UNCHANGED <<running, kernel_length, kernel_loop, kernel_index>>

SimpleIteration ==
  /\ kernel_loop = "simple"
  /\ kernel_index < kernel_length
  /\ stores' = stores \cup {SumAt(kernel_index)}
  /\ kernel_index' = kernel_index + 1
  /\ UNCHANGED <<running, kernel_length, kernel_loop>>

(* Mutant: the scalar kernel returns after the unrolled loop.              *)
ExitWithoutTail ==
  /\ kernel_loop = "simple"
  /\ ~ (kernel_index < kernel_length) \/ running = "scalar"
  /\ kernel_loop' = "done"
  /\ UNCHANGED <<running, kernel_length, kernel_index, stores>>

SimpleExit ==
  /\ kernel_loop = "simple"
  /\ ~ (kernel_index < kernel_length)
  /\ kernel_loop' = "done"
  /\ UNCHANGED <<running, kernel_length, kernel_index, stores>>

KernelNext == UnrolledIteration \/ UnrolledExit \/ SimpleIteration \/ SimpleExit

(* A call runs until it returns.                                           *)
KernelSpec == KernelInit /\ [][KernelNext]_kernelVars
                         /\ WF_kernelVars(KernelNext)

-----------------------------------------------------------------------------
(* The stores of a correct vector addition of n elements.                  *)
Sums(n) == {SumAt(i) : i \in 0 .. n - 1}

KernelTypeOK ==
  /\ running \in KernelNames
  /\ kernel_length \in KernelLengths
  /\ kernel_loop \in {"unrolled", "simple", "done"}
  /\ kernel_index \in Nat
  /\ stores \subseteq Nat \X Nat \X Nat

(* The inductive invariant: what is stored is exactly the sums below index,*)
(* and an unrolled iteration starts at a multiple of four with four        *)
(* elements to go or not at all (vector_add_scalar.c:9-21).                *)
LoopInvariant ==
  /\ KernelTypeOK
  /\ stores = Sums(kernel_index)
  /\ kernel_loop = "unrolled" => /\ kernel_index <= UnrolledLength
                                 /\ kernel_index % Unroll = 0
  /\ kernel_loop = "simple" => kernel_index <= kernel_length
  /\ kernel_loop = "done" => kernel_index = kernel_length

(* No kernel reads or writes beyond the length it was given, or pairs      *)
(* different elements, in the unrolled body and in its tail                *)
(* (vector_add_scalar.c:12-21).                                            *)
InBounds == stores \subseteq Sums(kernel_length)

(* A kernel that returns has stored the sum of every element, the tail     *)
(* that does not fill an unrolled iteration included.                      *)
ReturnsTheSum == kernel_loop = "done" => stores = Sums(kernel_length)

(* Every kernel returns.                                                   *)
Returns == <>(kernel_loop = "done")
===============================================================================
