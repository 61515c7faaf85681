---------------------------- MODULE ArgumentParser ----------------------------
(***************************************************************************)
(* rct_parse_arguments of src/benchmark/vector_add_bench.c, as main calls  *)
(* it, and the numbers it reads with rct_parse_u64 and rct_parse_size.     *)
(*                                                                         *)
(* argv is chosen as it is read, and ends wherever it may.  A text that is *)
(* meant as a number is what strtoumax tells apart: what comes before its  *)
(* digits, the number the digits denote and whether anything follows.      *)
(***************************************************************************)
EXTENDS Integers, Sequences

CONSTANTS
  MaxUintmax,  \* UINTMAX_MAX
  MaxU64,      \* UINT64_MAX
  MaxSize,     \* SIZE_MAX
  Benchmarks,  \* the names in RCT_BENCHMARK_REGISTRY
  OtherWords,  \* words that are neither options nor such names
  Texts,       \* texts meant as numbers: some of Text
  Defaults,    \* the configuration main starts from
  MaxOptions   \* bound: how many options are given

Configuration ==
  [length : 0 .. MaxSize, warmup : 0 .. MaxSize, iterations : 0 .. MaxSize,
   seed : 0 .. MaxU64]

Prefixes == {"", "+", "-", " ", " +", " -"}

(* rest: whether the text ends after its digits.  A text that does not     *)
(* begin with digits ends before them.                                     *)
Text == [prefix : Prefixes, digits : Nat, rest : {"end", "more"}]
Empty == [prefix |-> "nothing", digits |-> 0, rest |-> "end"]

ASSUME LimitsAssumption ==
  /\ MaxUintmax \in Nat /\ MaxU64 \in 0 .. MaxUintmax
  /\ MaxSize \in 1 .. MaxU64
ASSUME BenchmarksAssumption == "NULL" \notin Benchmarks
ASSUME TextsAssumption == Texts \subseteq Text \cup {Empty}
ASSUME DefaultsAssumption ==
  /\ Defaults \in Configuration
  /\ Defaults.length > 0 /\ Defaults.iterations > 0
ASSUME MaxOptionsAssumption == MaxOptions \in Nat

NumberOptions == {"--length", "--warmup", "--iterations", "--seed"}
Options ==
  NumberOptions \cup {"--help", "-h", "--result-protocol", "--benchmark"}

(* An argument is a word or a text; no digits begin a word.                *)
Word(w) ==
  [word |-> w, text |-> [prefix |-> "", digits |-> 0, rest |-> "more"]]
Number(t) == [word |-> "", text |-> t]

Arguments == {Word(w) : w \in Options \cup Benchmarks \cup OtherWords}
               \cup {Number(t) : t \in Texts}

VARIABLES
  given,     \* the options read so far, with their values
  option,    \* the option whose value is read next
  benchmark, \* the benchmark chosen, "NULL" before
  config,    \* workload_config and run_config
  protocol,  \* result_protocol_output
  pc         \* "option", "value", or how the parsing has ended:
             \* "run", "help" or "usage"

vars == <<given, option, benchmark, config, protocol, pc>>

-----------------------------------------------------------------------------
(* strtoumax on the whole text, with what it leaves in errno.              *)
Strtoumax(text) ==
  IF text.digits > MaxUintmax
  THEN [value |-> MaxUintmax, range |-> TRUE]
  ELSE [value |-> IF text.prefix \in {"-", " -"}
                  THEN (MaxUintmax + 1 - text.digits) % (MaxUintmax + 1)
                  ELSE text.digits,
        range |-> FALSE]

Refused == -1

(* Mutant: errno is not looked at.                                         *)
ParseWithoutRange(argument) ==
  LET parsed == Strtoumax(argument.text).value
  IN  IF \/ argument.text.prefix \in {"-", "nothing"}
         \/ argument.text.rest = "more"
         \/ parsed > MaxU64
      THEN Refused ELSE parsed

(* rct_parse_u64                                                           *)
ParseU64(argument) ==
  LET parsed == Strtoumax(argument.text)
  IN  IF \/ argument.text.prefix \in {"-", "nothing"}
         \/ parsed.range
         \/ argument.text.rest = "more"
         \/ parsed.value > MaxU64
      THEN Refused ELSE parsed.value

(* Mutant: size_t is taken to be as wide as uint64_t.                      *)
ParseWideSize(argument) == ParseU64(argument)

(* rct_parse_size                                                          *)
ParseSize(argument) ==
  LET parsed == ParseU64(argument)
  IN  IF parsed > MaxSize THEN Refused ELSE parsed

-----------------------------------------------------------------------------
Init ==
  /\ given = <<>>
  /\ option = "none"
  /\ benchmark = "NULL"
  /\ config = Defaults
  /\ protocol = FALSE
  /\ pc = "option"

Given(name, argument) ==
  given' = Append(given, [option |-> name, value |-> argument])

Stop(how) ==
  /\ pc' = how
  /\ UNCHANGED <<given, option, benchmark, config, protocol>>

(* The for statement's test fails.                                         *)
EndOfArguments ==
  /\ pc = "option"
  /\ Stop(IF benchmark = "NULL" THEN "usage" ELSE "run")

(* An argument where an option is expected, another one behind it or not.  *)
ReadOption(argument, last) ==
  /\ pc = "option"
  /\ Len(given) < MaxOptions
  /\ \/ argument.word \in {"--help", "-h"} /\ Stop("help")
     \/ /\ argument.word = "--result-protocol"
        /\ protocol' = TRUE
        /\ Given(argument.word, argument)
        /\ UNCHANGED <<option, benchmark, config, pc>>
     \/ /\ argument.word \notin {"--help", "-h", "--result-protocol"}
        /\ IF last THEN Stop("usage")
           ELSE /\ option' = argument.word
                /\ pc' = "value"
                /\ UNCHANGED <<given, benchmark, config, protocol>>

(* The loop goes on with the next option.                                  *)
Accept(argument) ==
  /\ Given(option, argument)
  /\ option' = "none"
  /\ pc' = "option"
  /\ UNCHANGED protocol

(* Mutant: a second --benchmark replaces the first.                        *)
ReplaceBenchmark(argument) ==
  /\ pc = "value"
  /\ option = "--benchmark"
  /\ IF argument.word \notin Benchmarks THEN Stop("usage")
     ELSE /\ benchmark' = argument.word
          /\ UNCHANGED config
          /\ Accept(argument)

ReadBenchmark(argument) ==
  /\ pc = "value"
  /\ option = "--benchmark"
  /\ IF benchmark # "NULL" \/ argument.word \notin Benchmarks
     THEN Stop("usage")
     ELSE /\ benchmark' = argument.word
          /\ UNCHANGED config
          /\ Accept(argument)

(* The member of a configuration an option is for.                         *)
Member(name) ==
  CASE name = "--length" -> "length"
    [] name = "--warmup" -> "warmup"
    [] name = "--iterations" -> "iterations"
    [] name = "--seed" -> "seed"

(* The least number an option takes.                                       *)
Least(name) == IF name \in {"--length", "--iterations"} THEN 1 ELSE 0

(* Mutant: a number that is refused is replaced by the default.            *)
DefaultNumber(argument) ==
  /\ pc = "value"
  /\ option \in NumberOptions
  /\ LET parsed == IF option = "--seed" THEN ParseU64(argument)
                   ELSE ParseSize(argument)
         number == IF parsed < Least(option) THEN Defaults[Member(option)]
                   ELSE parsed
     IN  /\ config' = [config EXCEPT ![Member(option)] = number]
         /\ Accept(argument)
         /\ UNCHANGED benchmark

(* A zero that is refused has been stored.                                 *)
ReadNumber(argument) ==
  /\ pc = "value"
  /\ option \in NumberOptions
  /\ LET number == IF option = "--seed" THEN ParseU64(argument)
                   ELSE ParseSize(argument)
     IN  /\ config' = IF number = Refused THEN config
                      ELSE [config EXCEPT ![Member(option)] = number]
         /\ IF number < Least(option)
            THEN pc' = "usage" /\ UNCHANGED <<given, option, protocol>>
            ELSE Accept(argument)
         /\ UNCHANGED benchmark

UnknownOption ==
  /\ pc = "value"
  /\ option \notin Options
  /\ Stop("usage")

Next ==
  \/ EndOfArguments
  \/ \E argument \in Arguments :
       \/ \E last \in BOOLEAN : ReadOption(argument, last)
       \/ ReadBenchmark(argument)
       \/ ReadNumber(argument)
  \/ UnknownOption

Spec == Init /\ [][Next]_vars

-----------------------------------------------------------------------------
TypeOK ==
  /\ Len(given) <= MaxOptions
  /\ given \in Seq([option : Options, value : Arguments])
  /\ option \in {argument.word : argument \in Arguments} \cup {"none"}
  /\ benchmark \in Benchmarks \cup {"NULL"}
  /\ config \in Configuration
  /\ protocol \in BOOLEAN
  /\ pc \in {"option", "value", "run", "help", "usage"}

(* The places where an option is given.                                    *)
Places(name) == {i \in DOMAIN given : given[i].option = name}

LastValue(name) ==
  given[CHOOSE i \in Places(name) : \A j \in Places(name) : j <= i].value

(* What the benchmark is run with depends, option by option, on its last   *)
(* value alone: not on the other options, their order, or a value given    *)
(* before; without one it is the default (vector_add_bench.c:83-137).      *)
LastValueCounts ==
  pc = "run" =>
    /\ protocol <=> Places("--result-protocol") # {}
    /\ \A name \in NumberOptions :
         config[Member(name)] =
           IF Places(name) = {} THEN Defaults[Member(name)]
           ELSE Strtoumax(LastValue(name).text).value

(* The benchmark that is run is the only one that was asked for, with      *)
(* vectors and measured iterations to run it on: what rct_run_benchmark    *)
(* and rct_vector_add_f32_setup require, and no repetition of an option    *)
(* undoes it (vector_add_bench.c:101-142).                                  *)
RunIsAskedFor ==
  pc = "run" =>
    /\ \A i \in Places("--benchmark") : given[i].value.word = benchmark
    /\ benchmark \in Benchmarks
    /\ config.length > 0
    /\ config.iterations > 0

(* The number a text denotes, if it denotes one.                           *)
Denotes(text, number) ==
  /\ text.rest = "end"
  /\ \/ text.prefix \in {"", "+", " ", " +"} /\ number = text.digits
     \/ text.prefix \in {"-", " -"} /\ number + text.digits = 0

Stored(name) == config[Member(name)]

(* A number that is out of range, cut short by size_t or followed by       *)
(* anything is never taken for another one; only behind white space may a  *)
(* minus sign wrap it around, and then within the range of the type        *)
(* (vector_add_bench.c:46-73).                                             *)
OnlyBlankMinusWraps ==
  pc = "run" =>
    \A name \in NumberOptions :
      Places(name) # {} =>
        LET text == LastValue(name).text
        IN  \/ Denotes(text, Stored(name))
            \/ /\ text.prefix = " -" /\ text.rest = "end"
               /\ Stored(name) + text.digits = MaxUintmax + 1

(* The messages for refused numbers: "--length must be a positive integer",*)
(* "--warmup must be a nonnegative integer", "--iterations must be a       *)
(* positive integer", "--seed must be an unsigned integer"                 *)
(* (vector_add_bench.c:114, 119, 125, 130): what is run with is the number *)
(* the text denotes.                                                       *)
NumbersAreDenoted ==
  pc = "run" =>
    \A name \in NumberOptions :
      Places(name) # {} => Denotes(LastValue(name).text, Stored(name))
===============================================================================
