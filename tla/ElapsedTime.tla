------------------------------ MODULE ElapsedTime ------------------------------
(***************************************************************************)
(* rct_elapsed_ns of src/benchmark/benchmark_runner.c: the difference of   *)
(* two clock reads in unsigned arithmetic of limited width, refused when a *)
(* read is malformed, when time went backwards, or when the difference     *)
(* does not fit.                                                           *)
(***************************************************************************)
EXTENDS Integers

CONSTANTS
  Second,   \* RCT_NANOSECONDS_PER_SECOND
  U64Max,   \* UINT64_MAX
  Reads     \* what clock_gettime may store: [tv_sec, tv_nsec]

(* A second is representable, and the clock, which counts from the boot of *)
(* the system, is never negative, nor beyond what time_t can represent.    *)
ASSUME SecondAssumption == Second \in Nat \ {0}
ASSUME WidthAssumption == U64Max \in Nat /\ 2 * Second <= U64Max
ASSUME ReadsAssumption ==
  Reads \subseteq [tv_sec : 0 .. U64Max \div 2, tv_nsec : Int]

VARIABLES
  start, end,   \* the two reads
  pc,           \* "check", "subtract", "borrow", "combine", "done"
  seconds,      \* the local variables
  nanoseconds,
  accepted,     \* the return value
  elapsed       \* *elapsed_ns

vars == <<start, end, pc, seconds, nanoseconds, accepted, elapsed>>

(* Conversion to uint64_t, and what its operators compute.                 *)
U64(x) == x % (U64Max + 1)

NanosecondsAreValid(read) == 0 <= read.tv_nsec /\ read.tv_nsec < Second

ReadsAreInOrder ==
  /\ NanosecondsAreValid(start)
  /\ NanosecondsAreValid(end)
  /\ ~ (end.tv_sec < start.tv_sec)
  /\ ~ (end.tv_sec = start.tv_sec /\ end.tv_nsec < start.tv_nsec)

Init ==
  /\ start \in Reads
  /\ end \in Reads
  /\ pc = "check"
  /\ seconds = 0
  /\ nanoseconds = 0
  /\ accepted = FALSE
  /\ elapsed = 0

Check ==
  /\ pc = "check"
  /\ pc' = IF ReadsAreInOrder THEN "subtract" ELSE "done"
  /\ UNCHANGED <<start, end, seconds, nanoseconds, accepted, elapsed>>

Subtract ==
  /\ pc = "subtract"
  /\ seconds' = U64(end.tv_sec - start.tv_sec)
  /\ IF end.tv_nsec >= start.tv_nsec
     THEN /\ nanoseconds' = U64(end.tv_nsec - start.tv_nsec)
          /\ pc' = "combine"
     ELSE /\ UNCHANGED nanoseconds
          /\ pc' = "borrow"
  /\ UNCHANGED <<start, end, accepted, elapsed>>

(* The nanoseconds of the end are fewer: one second is borrowed.  Their    *)
(* negative difference wraps around, and adding a second wraps it back.    *)
Borrow ==
  /\ pc = "borrow"
  /\ IF seconds = 0
     THEN pc' = "done" /\ UNCHANGED <<seconds, nanoseconds>>
     ELSE /\ seconds' = U64(seconds - 1)
          /\ nanoseconds' = U64(Second + U64(end.tv_nsec - start.tv_nsec))
          /\ pc' = "combine"
  /\ UNCHANGED <<start, end, accepted, elapsed>>

(* Mutant: the bound ignores the nanoseconds.                              *)
FitsWithoutNanoseconds == ~ (seconds > U64Max \div Second)

(* Mutant: the bound itself is refused.                                    *)
BelowBound == seconds < (U64Max - nanoseconds) \div Second

DifferenceFits == ~ (seconds > (U64Max - nanoseconds) \div Second)

Combine ==
  /\ pc = "combine"
  /\ pc' = "done"
  /\ IF DifferenceFits
     THEN /\ accepted' = TRUE
          /\ elapsed' = U64(U64(seconds * Second) + nanoseconds)
     ELSE UNCHANGED <<accepted, elapsed>>
  /\ UNCHANGED <<start, end, seconds, nanoseconds>>

Next == Check \/ Subtract \/ Borrow \/ Combine

Spec == Init /\ [][Next]_vars

-----------------------------------------------------------------------------
(* The moment of a read, and the true time between the two, as integers.   *)
Moment(read) == read.tv_sec * Second + read.tv_nsec

Difference == Moment(end) - Moment(start)

(* A sample is the true difference of the two reads: no wrap of the        *)
(* unsigned subtraction, of the borrow or of the product ever shows in it  *)
(* (benchmark_runner.c:49-65).                                             *)
SampleIsExact == accepted => elapsed = Difference /\ elapsed \in 0 .. U64Max

(* Nothing is refused that could have been a sample: only a malformed read,*)
(* a clock that ran backwards and a difference beyond 64 bits are (:42-63).*)
RefusalIsNeeded ==
  pc = "done" /\ ~ accepted =>
    \/ ~ NanosecondsAreValid(start)
    \/ ~ NanosecondsAreValid(end)
    \/ Difference < 0
    \/ Difference > U64Max
-----------------------------------------------------------------------------
(***************************************************************************)
(* The inductive invariant (ElapsedTimeProofs): at each step the locals    *)
(* hold the part of the difference that is still to be combined.           *)
(***************************************************************************)
TypeOK ==
  /\ start \in Reads
  /\ end \in Reads
  /\ pc \in {"check", "subtract", "borrow", "combine", "done"}
  /\ seconds \in Nat
  /\ nanoseconds \in Nat
  /\ accepted \in BOOLEAN
  /\ elapsed \in Nat

StepInv ==
  /\ pc \in {"subtract", "borrow", "combine"} => ReadsAreInOrder
  /\ pc = "borrow" => /\ end.tv_nsec < start.tv_nsec
                      /\ seconds = end.tv_sec - start.tv_sec
  /\ pc = "combine" => /\ seconds * Second + nanoseconds = Difference
                       /\ nanoseconds < Second

ElapsedInv == TypeOK /\ StepInv /\ SampleIsExact /\ RefusalIsNeeded
             /\ (accepted => pc = "done")
================================================================================
