---------------------------- MODULE ResultProtocol ----------------------------
(***************************************************************************)
(* The way of a result from rct_bench --result-protocol to an Experiment:  *)
(* the lines main of src/benchmark/vector_add_bench.c prints, the pipe     *)
(* run_benchmark of rct/benchmark.py collects them from, and its parser    *)
(* experiment_from_benchmark_protocol.                                     *)
(*                                                                         *)
(* A line is a record of its fields; "malformed" stands for every line     *)
(* whose number of fields or whose spelling of a field no branch of the    *)
(* parser takes.  The binary may be any program (--binary), rct_bench may  *)
(* be killed, and its standard output may stop taking bytes, which         *)
(* rct_bench does not notice: it exits with EXIT_SUCCESS all the same.     *)
(***************************************************************************)
EXTENDS Integers, Sequences, FiniteSets

CONSTANTS
  Runs,          \* the results rct_bench may have to print
  ForeignTexts,  \* what another program may print
  MaxDigits      \* the longest number in a line

(* What rct_run_benchmark delivers, without the block addresses.           *)
Result == [measured : Nat,
           implementations : Seq([name : STRING, valid : BOOLEAN,
                                  summary : Nat, samples : Seq(Nat)])]

(* rct_run_benchmark succeeds with nothing else: it refuses a definition   *)
(* without implementations or with two of one name, and zero iterations    *)
(* (benchmark_runner.c:70-104, :206).                                      *)
ASSUME RunsAssumption ==
  /\ Runs \subseteq Result
  /\ \A r \in Runs :
       /\ r.measured # 0
       /\ r.implementations # <<>>
       /\ \A i \in DOMAIN r.implementations :
            Len(r.implementations[i].samples) = r.measured
       /\ \A i, j \in DOMAIN r.implementations :
            i # j => r.implementations[i].name # r.implementations[j].name
ASSUME MaxDigitsAssumption == MaxDigits \in Nat

(* A field that must be a number and is not makes its line malformed       *)
(* (benchmark.py:34-37).                                                   *)
ForeignLine ==
  [type : {"header", "malformed"}]
    \cup [type : {"benchmark"}, measured : Nat]
    \cup [type : {"implementation"}, name : STRING, valid : BOOLEAN,
          summary : Nat, sample_count : Nat]
    \cup [type : {"sample"}, name : STRING, index : Nat, elapsed_ns : Nat]

ASSUME ForeignTextsAssumption == ForeignTexts \subseteq Seq(ForeignLine)

VARIABLES
  run,        \* the result being printed
  pc,         \* the next line to print or to parse, "accepted" or "refused"
  implementation_index,  \* the loop variables of the printer, from 1
  sample_index,
  lost,       \* whether standard output takes no more bytes
  foreign,    \* whether the program is not rct_bench
  stdout,     \* what has reached the pipe, line by line
  position,   \* the line the parser is at
  records,    \* its dictionary of implementations, in their order
  samples,    \* its dictionary of their samples
  parsing_samples

program == <<run, implementation_index, sample_index, lost, foreign, stdout>>
parser == <<position, records, samples, parsing_samples>>
vars == <<pc, program, parser>>

-----------------------------------------------------------------------------
Header == [type |-> "header"]

Benchmark(measured) == [type |-> "benchmark", measured |-> measured]

Malformed == [type |-> "malformed"]

ImplementationLine(i) ==
  [type |-> "implementation", name |-> i.name, valid |-> i.valid,
   summary |-> i.summary, sample_count |-> Len(i.samples)]

SampleLine(name, index, elapsed) ==
  [type |-> "sample", name |-> name, index |-> index, elapsed_ns |-> elapsed]

(* The numbers whose decimal form is a proper beginning of that of n.      *)
Beginnings(n) == {n \div (10 ^ k) : k \in 1 .. MaxDigits} \ {0}

(* What is left of a line that is cut off: only its last number may be     *)
(* shorter and the line a record still (the seed has a fixed length).      *)
CutOff(line) ==
  {Malformed} \cup
  (CASE line.type = "implementation" ->
          {[line EXCEPT !.sample_count = n] :
             n \in Beginnings(line.sample_count)}
     [] line.type = "sample" ->
          {[line EXCEPT !.elapsed_ns = n] : n \in Beginnings(line.elapsed_ns)}
     [] OTHER -> {})

-----------------------------------------------------------------------------
NoRun == [measured |-> 0, implementations |-> <<>>]

Init ==
  /\ run = NoRun
  /\ pc = "start"
  /\ implementation_index = 1
  /\ sample_index = 1
  /\ lost = FALSE
  /\ foreign = FALSE
  /\ stdout = <<>>
  /\ position = 1
  /\ records = <<>>
  /\ samples = <<>>
  /\ parsing_samples = FALSE

(***************************************************************************)
(* The program.                                                            *)
(***************************************************************************)
Measure ==
  /\ pc = "start"
  /\ run' \in Runs
  /\ pc' = "print_header"
  /\ UNCHANGED <<implementation_index, sample_index, lost, foreign, stdout,
                 parser>>

RunForeign ==
  /\ pc = "start"
  /\ foreign' = TRUE
  /\ stdout' \in ForeignTexts
  /\ pc' = "parse_header"
  /\ UNCHANGED <<run, implementation_index, sample_index, lost, parser>>

Write(line) == stdout' = IF lost THEN stdout ELSE Append(stdout, line)

PrintHeader ==
  /\ pc = "print_header"
  /\ Write(Header)
  /\ pc' = "print_benchmark"
  /\ UNCHANGED <<run, implementation_index, sample_index, lost, foreign,
                 parser>>

PrintBenchmark ==
  /\ pc = "print_benchmark"
  /\ Write(Benchmark(run.measured))
  /\ pc' = "print_implementations"
  /\ UNCHANGED <<run, implementation_index, sample_index, lost, foreign,
                 parser>>

PrintImplementation ==
  /\ pc = "print_implementations"
  /\ IF implementation_index <= Len(run.implementations)
     THEN /\ Write(ImplementationLine(
                     run.implementations[implementation_index]))
          /\ implementation_index' = implementation_index + 1
          /\ UNCHANGED pc
     ELSE /\ pc' = "print_samples"
          /\ implementation_index' = 1
          /\ UNCHANGED stdout
  /\ UNCHANGED <<run, sample_index, lost, foreign, parser>>

(* Mutant: the sample index is that of the sample before.                  *)
SampleFromOne(i) == SampleLine(i.name, sample_index, i.samples[sample_index])

CurrentSample(i) ==
  SampleLine(i.name, sample_index - 1, i.samples[sample_index])

PrintSample ==
  /\ pc = "print_samples"
  /\ IF implementation_index <= Len(run.implementations)
     THEN LET i == run.implementations[implementation_index]
          IN  /\ UNCHANGED pc
              /\ IF sample_index <= Len(i.samples)
                 THEN /\ Write(CurrentSample(i))
                      /\ sample_index' = sample_index + 1
                      /\ UNCHANGED implementation_index
                 ELSE /\ implementation_index' = implementation_index + 1
                      /\ sample_index' = 1
                      /\ UNCHANGED stdout
     ELSE /\ pc' = "parse_header"
          /\ UNCHANGED <<stdout, implementation_index, sample_index>>
  /\ UNCHANGED <<run, lost, foreign, parser>>

Printing == {"print_header", "print_benchmark", "print_implementations",
             "print_samples"}

(* From here on nothing reaches the pipe; the last line may have lost its  *)
(* end as well.                                                            *)
OutputFails ==
  /\ pc \in Printing
  /\ ~ lost
  /\ lost' = TRUE
  /\ \/ UNCHANGED stdout
     \/ /\ stdout # <<>>
        /\ \E line \in CutOff(stdout[Len(stdout)]) :
             stdout' = [stdout EXCEPT ![Len(stdout)] = line]
  /\ UNCHANGED <<run, pc, implementation_index, sample_index, foreign, parser>>

(* A program that does not exit with 0 raises BenchmarkError.              *)
Killed ==
  /\ pc \in Printing
  /\ pc' = "refused"
  /\ UNCHANGED <<program, parser>>

(***************************************************************************)
(* The parser.  Refused stands for BenchmarkError.                         *)
(***************************************************************************)
Line == stdout[position]

Known == {records[i].name : i \in DOMAIN records}

CountOf(name) ==
  records[CHOOSE i \in DOMAIN records : records[i].name = name].sample_count

Refuse == pc' = "refused" /\ UNCHANGED parser

ParseHeader ==
  /\ pc = "parse_header"
  /\ IF Len(stdout) < 3 \/ stdout[1] # Header
     THEN Refuse
     ELSE /\ pc' = "parse_benchmark"
          /\ position' = 2
          /\ UNCHANGED <<records, samples, parsing_samples>>
  /\ UNCHANGED program

ParseBenchmark ==
  /\ pc = "parse_benchmark"
  /\ IF Line.type # "benchmark"
     THEN Refuse
     ELSE /\ pc' = "parse_records"
          /\ position' = 3
          /\ UNCHANGED <<records, samples, parsing_samples>>
  /\ UNCHANGED program

(* Mutant: a second record of an implementation is appended.               *)
OfAnyName == ~ parsing_samples

ImplementationIsValid == ~ parsing_samples /\ Line.name \notin Known

ParseImplementation ==
  /\ pc = "parse_records"
  /\ position <= Len(stdout)
  /\ Line.type = "implementation"
  /\ IF ImplementationIsValid
     THEN /\ records' = Append(records, Line)
          /\ samples' = [n \in Known \cup {Line.name} |->
                           IF n = Line.name THEN <<>> ELSE samples[n]]
          /\ position' = position + 1
          /\ UNCHANGED <<pc, parsing_samples>>
     ELSE Refuse
  /\ UNCHANGED program

SampleIsValid ==
  /\ Line.type = "sample"
  /\ Line.name \in Known
  /\ Len(samples[Line.name]) < CountOf(Line.name)
  /\ Line.index = Len(samples[Line.name])

ParseSample ==
  /\ pc = "parse_records"
  /\ position <= Len(stdout)
  /\ Line.type # "implementation"
  /\ IF SampleIsValid
     THEN /\ samples' = [samples EXCEPT ![Line.name] =
                           Append(@, Line.elapsed_ns)]
          /\ parsing_samples' = TRUE
          /\ position' = position + 1
          /\ UNCHANGED <<pc, records>>
     ELSE Refuse
  /\ UNCHANGED program

(* Mutant: missing samples are not noticed.                                *)
AnyRecordIsComplete == records # <<>>

EveryRecordIsComplete ==
  /\ records # <<>>
  /\ \A i \in DOMAIN records :
       Len(samples[records[i].name]) = records[i].sample_count

ParseEnd ==
  /\ pc = "parse_records"
  /\ position > Len(stdout)
  /\ pc' = IF EveryRecordIsComplete THEN "accepted" ELSE "refused"
  /\ UNCHANGED <<program, parser>>

Next ==
  \/ Measure
  \/ RunForeign
  \/ PrintHeader
  \/ PrintBenchmark
  \/ PrintImplementation
  \/ PrintSample
  \/ OutputFails
  \/ Killed
  \/ ParseHeader
  \/ ParseBenchmark
  \/ ParseImplementation
  \/ ParseSample
  \/ ParseEnd

Spec == Init /\ [][Next]_vars

-----------------------------------------------------------------------------
(* The implementations of the Experiment.                                  *)
Experiment ==
  [i \in DOMAIN records |->
     [name |-> records[i].name, valid |-> records[i].valid,
      summary |-> records[i].summary, samples |-> samples[records[i].name]]]

(* A run whose output all arrived is never refused: the printer and the    *)
(* parser agree on the order of the records and on how samples are counted *)
(* (vector_add_bench.c:192-234, benchmark.py:100-173).                     *)
CompleteOutputIsAccepted ==
  [][pc' = "refused" /\ pc \notin Printing /\ ~ foreign => lost]_vars

(* An Experiment made from what rct_bench printed is the run it printed.   *)
(* If its output was cut off, which its exit status does not tell, only    *)
(* the very last sample may have lost digits: no implementation and no     *)
(* sample is missing (vector_add_bench.c:275-281, benchmark.py:150-173).   *)
CutOffCostsNoRecord ==
  pc = "accepted" /\ ~ foreign =>
    /\ DOMAIN Experiment = DOMAIN run.implementations
    /\ \A i \in DOMAIN Experiment :
         LET got == Experiment[i]
             printed == run.implementations[i]
         IN  /\ [got EXCEPT !.samples = <<>>] =
                  [printed EXCEPT !.samples = <<>>]
             /\ DOMAIN got.samples = DOMAIN printed.samples
             /\ \A k \in DOMAIN got.samples :
                  \/ got.samples[k] = printed.samples[k]
                  \/ /\ lost
                     /\ i = Len(run.implementations)
                     /\ k = run.measured
                     /\ got.samples[k] \in Beginnings(printed.samples[k])

(* The reference definition of a well-formed text: the records of the      *)
(* implementations, then for each of them, in any interleaving, exactly    *)
(* its samples in the order of their indexes.                              *)
SamplesOf(text, name, first, last) ==
  {p \in first .. last : text[p].type = "sample" /\ text[p].name = name}

HeadsAreDistinct(text, last) ==
  /\ \A p \in 3 .. last : text[p].type = "implementation"
  /\ \A p, q \in 3 .. last : p # q => text[p].name # text[q].name

SamplesAreCounted(text, last) ==
  /\ \A p \in last + 1 .. Len(text) :
       \E q \in 3 .. last : p \in SamplesOf(text, text[q].name, p, p)
  /\ \A q \in 3 .. last :
       LET Own(p) == SamplesOf(text, text[q].name, last + 1, p)
       IN  /\ Cardinality(Own(Len(text))) = text[q].sample_count
           /\ \A p \in Own(Len(text)) : text[p].index = Cardinality(Own(p - 1))

WellFormed(text) ==
  /\ Len(text) >= 3
  /\ text[1] = Header
  /\ text[2].type = "benchmark"
  /\ \E last \in 3 .. Len(text) :
       HeadsAreDistinct(text, last) /\ SamplesAreCounted(text, last)

(* Whatever program wrote it, a text is accepted exactly if it is well     *)
(* formed: records that are missing, repeated, out of order, in excess or  *)
(* of an unknown implementation are all refused (benchmark.py:72-173).     *)
AcceptsWellFormed ==
  /\ pc = "accepted" => WellFormed(stdout)
  /\ pc = "refused" /\ foreign => ~ WellFormed(stdout)

-----------------------------------------------------------------------------
(***************************************************************************)
(* What holds of every state when the program is rct_bench.  The lines     *)
(* after the first two are numbered by cursors: <<i, 0>> is the record of  *)
(* implementation i, <<i, k>> that of its sample k.                        *)
(***************************************************************************)
Cursors == (DOMAIN run.implementations) \X (0 .. run.measured)

LineOf(c) ==
  LET i == run.implementations[c[1]]
  IN  IF c[2] = 0 THEN ImplementationLine(i)
      ELSE SampleLine(i.name, c[2] - 1, i.samples[c[2]])

First == <<1, 0>>

Last == <<Len(run.implementations), run.measured>>

After(c) ==
  IF c[2] = 0
  THEN IF c[1] < Len(run.implementations) THEN <<c[1] + 1, 0>> ELSE <<1, 1>>
  ELSE IF c[2] < run.measured THEN <<c[1], c[2] + 1>> ELSE <<c[1] + 1, 1>>

IsList(s) == Len(s) \in Nat /\ s = [i \in 1 .. Len(s) |-> s[i]]

(* The line at p is a given one; the last line may be what is left of it.  *)
Arrived(p, line) ==
  \/ stdout[p] = line
  \/ lost /\ p = Len(stdout) /\ stdout[p] \in CutOff(line)

TextInv ==
  /\ IsList(stdout)
  /\ Len(stdout) >= 1 => Arrived(1, Header)
  /\ Len(stdout) >= 2 => Arrived(2, Benchmark(run.measured))
  /\ Len(stdout) >= 3 => Arrived(3, LineOf(First))
  /\ \A p \in 4 .. Len(stdout) : \E c \in Cursors \ {Last} :
       stdout[p - 1] = LineOf(c) /\ Arrived(p, LineOf(After(c)))

(* The last line printed.                                                  *)
Printed ==
  IF pc = "print_implementations" THEN <<implementation_index - 1, 0>>
  ELSE IF pc # "print_samples" THEN Last
  ELSE IF sample_index > 1 THEN <<implementation_index, sample_index - 1>>
  ELSE IF implementation_index > 1
       THEN <<implementation_index - 1, run.measured>>
  ELSE <<Len(run.implementations), 0>>

LoopsInBounds ==
  /\ implementation_index \in 1 .. Len(run.implementations) + 1
  /\ sample_index \in 1 .. run.measured + 1
  /\ pc # "print_samples" => sample_index = 1
  /\ implementation_index = Len(run.implementations) + 1 => sample_index = 1
  /\ pc \in {"print_header", "print_benchmark"} => implementation_index = 1

(* Until output fails, everything printed is in the pipe.                  *)
NothingIsMissing ==
  /\ pc = "print_header" => stdout = <<>>
  /\ pc = "print_benchmark" => Len(stdout) = 1
  /\ pc = "print_implementations" => Len(stdout) = 1 + implementation_index
  /\ pc \notin {"print_header", "print_benchmark", "print_implementations"}
       => Len(stdout) >= 3
  /\ Len(stdout) >= 3 => stdout[Len(stdout)] = LineOf(Printed)

NothingIsParsed ==
  records = <<>> /\ samples = <<>> /\ ~ parsing_samples

(* What the parser has made of the lines up to that of c.                  *)
HasRecords(c) ==
  /\ ~ parsing_samples
  /\ IsList(records) /\ Len(records) = c[1]
  /\ \A j \in 1 .. c[1] - 1 : records[j] = LineOf(<<j, 0>>)
  /\ records[c[1]] = stdout[position - 1]
  /\ DOMAIN samples = {run.implementations[j].name : j \in 1 .. c[1]}
  /\ \A name \in DOMAIN samples : samples[name] = <<>>

HasSamples(c) ==
  /\ parsing_samples
  /\ IsList(records) /\ Len(records) = Len(run.implementations)
  /\ \A j \in DOMAIN records : records[j] = LineOf(<<j, 0>>)
  /\ DOMAIN samples =
       {run.implementations[j].name : j \in DOMAIN run.implementations}
  /\ \A j \in DOMAIN run.implementations :
       LET i == run.implementations[j]
           got == samples[i.name]
       IN  /\ j < c[1] => got = i.samples
           /\ j > c[1] => got = <<>>
           /\ j = c[1] => /\ IsList(got) /\ Len(got) = c[2]
                          /\ \A k \in 1 .. c[2] - 1 : got[k] = i.samples[k]
                          /\ got[c[2]] = stdout[position - 1].elapsed_ns

Parsed(c) == IF c[2] = 0 THEN HasRecords(c) ELSE HasSamples(c)

RecordsInv ==
  \/ position = 3 /\ NothingIsParsed
  \/ /\ position \in 4 .. Len(stdout) + 1
     /\ \E c \in Cursors : /\ Arrived(position - 1, LineOf(c))
                           /\ stdout[position - 1] # Malformed
                           /\ Parsed(c)

ParseInv ==
  /\ pc \in {"start", "parse_header"} \cup Printing =>
       position = 1 /\ NothingIsParsed
  /\ pc = "parse_benchmark" =>
       /\ position = 2 /\ NothingIsParsed
       /\ Len(stdout) >= 3
  /\ pc \in {"parse_records", "accepted"} =>
       /\ Len(stdout) >= 3
       /\ RecordsInv
  /\ pc = "accepted" => position = Len(stdout) + 1 /\ EveryRecordIsComplete

Pcs == Printing \cup {"start", "parse_header", "parse_benchmark",
                      "parse_records", "accepted", "refused"}

RunInv ==
  /\ run \in Runs
  /\ TextInv
  /\ LoopsInBounds
  /\ ~ lost => NothingIsMissing
  /\ ParseInv

ResultInv ==
  /\ pc \in Pcs
  /\ lost \in BOOLEAN
  /\ foreign \in BOOLEAN
  /\ pc = "start" => /\ stdout = <<>> /\ ~ lost /\ ~ foreign
                     /\ implementation_index = 1 /\ sample_index = 1
                     /\ position = 1 /\ NothingIsParsed
  /\ foreign => pc \notin Printing
  /\ ~ foreign /\ pc \notin {"start", "refused"} => RunInv

-----------------------------------------------------------------------------
(***************************************************************************)
(* What holds of every state whatever program it is.                       *)
(***************************************************************************)
FirstSample == Len(records) + 3

Scanned ==
  /\ IsList(records)
  /\ position \in FirstSample .. Len(stdout) + 1
  /\ parsing_samples <=> position > FirstSample
  /\ \A i \in DOMAIN records : /\ records[i] = stdout[i + 2]
                               /\ records[i].type = "implementation"
  /\ \A i, j \in DOMAIN records : records[i].name = records[j].name => i = j
  /\ DOMAIN samples = Known
  /\ \A name \in Known :
       /\ IsList(samples[name])
       /\ Len(samples[name]) =
            Cardinality(SamplesOf(stdout, name, FirstSample, position - 1))
  /\ \A p \in FirstSample .. position - 1 :
       /\ stdout[p].type = "sample" /\ stdout[p].name \in Known
       /\ stdout[p].index =
            Cardinality(SamplesOf(stdout, stdout[p].name, FirstSample, p - 1))

ScanInv ==
  /\ foreign => stdout \in Seq(ForeignLine)
  /\ pc \in {"start", "parse_header"} \cup Printing =>
       position = 1 /\ NothingIsParsed
  /\ pc = "parse_benchmark" => position = 2 /\ NothingIsParsed
  /\ pc \in {"parse_benchmark", "parse_records", "accepted"} =>
       Len(stdout) >= 3 /\ stdout[1] = Header
  /\ pc \in {"parse_records", "accepted"} =>
       stdout[2].type = "benchmark" /\ Scanned
  /\ AcceptsWellFormed
===============================================================================
