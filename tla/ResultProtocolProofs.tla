------------------------- MODULE ResultProtocolProofs -------------------------
(***************************************************************************)
(* What the parser makes of the text rct_bench prints, for every number of *)
(* implementations and samples and wherever the text is cut off: ResultInv *)
(* is inductive.  And what it makes of any text: ScanInv is, with it.      *)
(***************************************************************************)
EXTENDS ResultProtocol, SequenceTheorems, FiniteSetTheorems, TLAPS

-----------------------------------------------------------------------------
(***************************************************************************)
(* Lists, runs and lines.                                                  *)
(***************************************************************************)

(* A sequence over any set is a list.                                      *)
LEMMA SequencesAreLists ==
  ASSUME NEW S, NEW s \in Seq(S)
  PROVE  IsList(s) /\ DOMAIN s = 1 .. Len(s) /\ \A i \in DOMAIN s : s[i] \in S
BY LenProperties, ElementOfSeq DEF IsList

LEMMA ListsAreSequences ==
  ASSUME NEW s, IsList(s), NEW S, \A i \in 1 .. Len(s) : s[i] \in S
  PROVE  s \in Seq(S)
<1>1. s \in [1 .. Len(s) -> S]
  BY DEF IsList
<1> QED
  BY <1>1, SeqDef DEF IsList

(* Appending to a list makes a longer one that begins with it.             *)
LEMMA AppendToList ==
  ASSUME NEW s, IsList(s), NEW e
  PROVE  /\ IsList(Append(s, e))
         /\ Len(Append(s, e)) = Len(s) + 1
         /\ \A i \in 1 .. Len(s) : Append(s, e)[i] = s[i]
         /\ Append(s, e)[Len(s) + 1] = e
<1> DEFINE S == {s[i] : i \in 1 .. Len(s)} \cup {e}
<1>1. s \in Seq(S)
  <2>1. \A i \in 1 .. Len(s) : s[i] \in S
    OBVIOUS
  <2> HIDE DEF S
  <2> QED
    BY <2>1, ListsAreSequences
<1>2. e \in S
  OBVIOUS
<1> HIDE DEF S
<1>3. Append(s, e) \in Seq(S)
  BY <1>1, <1>2, AppendProperties
<1>4. /\ Len(Append(s, e)) = Len(s) + 1
      /\ \A i \in 1 .. Len(s) : Append(s, e)[i] = s[i]
      /\ Append(s, e)[Len(s) + 1] = e
  BY <1>1, <1>2, AppendProperties
<1> QED
  BY <1>3, <1>4, SequencesAreLists

(* Two lists with the same elements are the same.                          *)
LEMMA ListsAreEqual ==
  ASSUME NEW s, NEW t, IsList(s), IsList(t), Len(s) = Len(t),
         \A i \in 1 .. Len(s) : s[i] = t[i]
  PROVE  s = t
BY DEF IsList

LEMMA EmptyList == IsList(<<>>) /\ Len(<<>>) = 0 /\ DOMAIN <<>> = {}
<1>1. <<>> \in Seq({}) /\ Len(<<>>) = 0
  BY EmptySeq
<1>2. IsList(<<>>) /\ DOMAIN <<>> = 1 .. Len(<<>>)
  BY <1>1, SequencesAreLists, Zenon
<1>3. 1 .. 0 = {}
  OBVIOUS
<1> QED
  BY <1>1, <1>2, <1>3

(* What rct_run_benchmark delivers.                                        *)
LEMMA RunFacts ==
  ASSUME run \in Runs
  PROVE  /\ run.measured \in Nat \ {0}
         /\ Len(run.implementations) \in Nat \ {0}
         /\ DOMAIN run.implementations = 1 .. Len(run.implementations)
         /\ IsList(run.implementations)
         /\ \A j \in DOMAIN run.implementations :
              LET i == run.implementations[j]
              IN  /\ i = [name |-> i.name, valid |-> i.valid,
                          summary |-> i.summary, samples |-> i.samples]
                  /\ IsList(i.samples) /\ Len(i.samples) = run.measured
                  /\ DOMAIN i.samples = 1 .. run.measured
         /\ \A i, j \in DOMAIN run.implementations :
              run.implementations[i].name = run.implementations[j].name
                => i = j
<1> DEFINE S == [name : STRING, valid : BOOLEAN, summary : Nat,
                 samples : Seq(Nat)]
<1>1. run \in Result /\ run.implementations \in Seq(S)
      /\ run.measured \in Nat \ {0} /\ run.implementations # <<>>
  BY RunsAssumption DEF Result
<1>2. /\ IsList(run.implementations)
      /\ DOMAIN run.implementations = 1 .. Len(run.implementations)
      /\ \A j \in DOMAIN run.implementations : run.implementations[j] \in S
  <2> HIDE DEF S
  <2> QED
    BY <1>1, SequencesAreLists
<1>3. Len(run.implementations) \in Nat \ {0}
  <2>1. Len(run.implementations) \in Nat
    BY <1>2 DEF IsList
  <2>2. Len(run.implementations) # 0
    BY <1>1, EmptySeq
  <2> QED
    BY <2>1, <2>2
<1>4. ASSUME NEW j \in DOMAIN run.implementations
      PROVE  LET i == run.implementations[j]
             IN  /\ i = [name |-> i.name, valid |-> i.valid,
                         summary |-> i.summary, samples |-> i.samples]
                 /\ IsList(i.samples) /\ Len(i.samples) = run.measured
                 /\ DOMAIN i.samples = 1 .. run.measured
  <2> DEFINE i == run.implementations[j]
  <2>1. i \in S
    BY <1>2
  <2>2. i.samples \in Seq(Nat) /\ Len(i.samples) = run.measured
    BY <2>1, RunsAssumption
  <2> QED
    BY <2>1, <2>2, SequencesAreLists
<1> QED
  BY <1>1, <1>2, <1>3, <1>4, RunsAssumption

(* The cursors and the fields of their lines.                              *)
LEMMA CursorFacts ==
  ASSUME run \in Runs, NEW c \in Cursors
  PROVE  /\ c = <<c[1], c[2]>>
         /\ c[1] \in 1 .. Len(run.implementations)
         /\ c[2] \in 0 .. run.measured
         /\ c[1] \in DOMAIN run.implementations
BY RunFacts DEF Cursors

LEMMA LineFacts ==
  ASSUME run \in Runs, NEW c \in Cursors
  PROVE  LET i == run.implementations[c[1]]
             line == LineOf(c)
         IN  /\ line.name = i.name
             /\ c[2] = 0 => /\ line.type = "implementation"
                            /\ line = [type |-> "implementation",
                                 name |-> i.name, valid |-> i.valid,
                                 summary |-> i.summary,
                                 sample_count |-> run.measured]
             /\ c[2] # 0 => /\ line.type = "sample"
                            /\ line = [type |-> "sample", name |-> i.name,
                                 index |-> c[2] - 1,
                                 elapsed_ns |-> i.samples[c[2]]]
<1>1. Len(run.implementations[c[1]].samples) = run.measured
  BY CursorFacts, RunFacts
<1> QED
  BY <1>1 DEF LineOf, ImplementationLine, SampleLine

(* No two cursors have the same line.                                      *)
LEMMA LinesAreDistinct ==
  ASSUME run \in Runs, NEW c \in Cursors, NEW d \in Cursors,
         LineOf(c) = LineOf(d)
  PROVE  c = d
<1>1. c[1] = d[1]
  BY CursorFacts, RunFacts, LineFacts
<1>2. CASE c[2] = 0
  BY <1>1, <1>2, CursorFacts, LineFacts
<1>3. CASE c[2] # 0
  <2>1. d[2] # 0
    BY <1>3, LineFacts
  <2>2. c[2] - 1 = d[2] - 1
    BY <1>3, <2>1, LineFacts
  <2> QED
    BY <1>1, <2>2, CursorFacts
<1> QED
  BY <1>2, <1>3

LEMMA CursorsFollow ==
  ASSUME run \in Runs
  PROVE  /\ First \in Cursors /\ Last \in Cursors /\ First # Last
         /\ \A c \in Cursors \ {Last} : After(c) \in Cursors
<1> DEFINE n == Len(run.implementations)
           m == run.measured
<1>1. n \in Nat \ {0} /\ m \in Nat \ {0}
  BY RunFacts
<1>2. Cursors = (1 .. n) \X (0 .. m)
  BY RunFacts DEF Cursors
<1>3. First \in Cursors /\ Last \in Cursors /\ First # Last
  BY <1>1, <1>2 DEF First, Last
<1>4. ASSUME NEW c \in Cursors \ {Last}
      PROVE  After(c) \in Cursors
  <2>1. c = <<c[1], c[2]>> /\ c[1] \in 1 .. n /\ c[2] \in 0 .. m
    BY CursorFacts
  <2>2. c[1] # n \/ c[2] # m
    BY <2>1 DEF Last
  <2> QED
    BY <1>1, <1>2, <2>1, <2>2 DEF After
<1> QED
  BY <1>3, <1>4

(* What is left of a line is no record, or one of which only the last      *)
(* number differs.                                                         *)
LEMMA CutOffImplementation ==
  ASSUME run \in Runs, NEW c \in Cursors, c[2] = 0,
         NEW l \in CutOff(LineOf(c)), l # Malformed
  PROVE  /\ l.type = "implementation" /\ l.name = LineOf(c).name
         /\ l.sample_count # 0
<1>1. LineOf(c).type = "implementation"
  BY LineFacts
<1>2. PICK count \in Beginnings(LineOf(c).sample_count) :
        l = [LineOf(c) EXCEPT !.sample_count = count]
  BY <1>1 DEF CutOff
<1>3. count # 0
  BY DEF Beginnings
<1> QED
  BY <1>2, <1>3, LineFacts

LEMMA CutOffSample ==
  ASSUME run \in Runs, NEW c \in Cursors, c[2] # 0,
         NEW l \in CutOff(LineOf(c)), l # Malformed
  PROVE  /\ l.type = "sample" /\ l.name = LineOf(c).name
         /\ l.index = LineOf(c).index
         /\ l.elapsed_ns \in Beginnings(LineOf(c).elapsed_ns)
<1>1. LineOf(c).type = "sample"
  BY LineFacts
<1>2. PICK n \in Beginnings(LineOf(c).elapsed_ns) :
        l = [LineOf(c) EXCEPT !.elapsed_ns = n]
  BY <1>1 DEF CutOff
<1> QED
  BY <1>2, LineFacts

(* The record that is parsed at p, when that of c arrived there.           *)
LEMMA ArrivedFacts ==
  ASSUME run \in Runs, NEW c \in Cursors, NEW p, Arrived(p, LineOf(c)),
         stdout[p] # Malformed
  PROVE  /\ stdout[p].type = LineOf(c).type
         /\ stdout[p].name = run.implementations[c[1]].name
         /\ c[2] = 0 => stdout[p].sample_count # 0
         /\ c[2] # 0 => /\ stdout[p].index = c[2] - 1
                        /\ \/ stdout[p].elapsed_ns = LineOf(c).elapsed_ns
                           \/ /\ lost
                              /\ p = Len(stdout)
                              /\ stdout[p].elapsed_ns \in
                                   Beginnings(LineOf(c).elapsed_ns)
<1>1. run.measured # 0
  BY RunFacts
<1>2. CASE stdout[p] = LineOf(c)
  BY <1>1, <1>2, LineFacts
<1>3. CASE lost /\ p = Len(stdout) /\ stdout[p] \in CutOff(LineOf(c))
  <2>1. CASE c[2] = 0
    BY <1>3, <2>1, CutOffImplementation, LineFacts
  <2>2. CASE c[2] # 0
    BY <1>3, <2>2, CutOffSample, LineFacts
  <2> QED
    BY <2>1, <2>2
<1> QED
  BY <1>2, <1>3 DEF Arrived

-----------------------------------------------------------------------------
(***************************************************************************)
(* The printer.                                                            *)
(***************************************************************************)

(* The invariant of the text depends on the text, its end and the run.     *)
LEMMA TextKept ==
  ASSUME TextInv, UNCHANGED <<run, lost, stdout>>
  PROVE  TextInv'
<1>1. run' = run /\ lost' = lost /\ stdout' = stdout
  OBVIOUS
<1>2. Arrived(1, Header)' = Arrived(1, Header)
  BY <1>1 DEF Arrived
<1>3. Arrived(2, Benchmark(run.measured))' =
        Arrived(2, Benchmark(run.measured))
  BY <1>1 DEF Arrived
<1>4. Arrived(3, LineOf(First))' = Arrived(3, LineOf(First))
  BY <1>1 DEF Arrived, LineOf, First
<1>5. (Cursors \ {Last})' = Cursors \ {Last}
  BY <1>1 DEF Cursors, Last
<1>6. ASSUME NEW p, NEW c
      PROVE  /\ (stdout[p - 1] = LineOf(c))' = (stdout[p - 1] = LineOf(c))
             /\ Arrived(p, LineOf(After(c)))' = Arrived(p, LineOf(After(c)))
  BY <1>1 DEF Arrived, LineOf, After
<1>7. IsList(stdout)' /\ Len(stdout)' = Len(stdout)
  BY <1>1 DEF TextInv, IsList
<1>8. ASSUME NEW p \in 4 .. Len(stdout)
      PROVE  \E c \in (Cursors \ {Last})' :
               /\ (stdout[p - 1] = LineOf(c))'
               /\ Arrived(p, LineOf(After(c)))'
  <2>1. PICK c \in Cursors \ {Last} :
          stdout[p - 1] = LineOf(c) /\ Arrived(p, LineOf(After(c)))
    BY DEF TextInv
  <2> QED
    BY <1>5, <1>6, <2>1
<1> QED
  BY <1>2, <1>3, <1>4, <1>7, <1>8 DEF TextInv

(* The line that follows the last one is appended.                         *)
LEMMA LineWritten ==
  ASSUME TextInv, run \in Runs, ~ lost, UNCHANGED <<run, lost>>,
         NEW c \in Cursors, stdout' = Append(stdout, LineOf(c)),
         \/ Len(stdout) = 2 /\ c = First
         \/ /\ Len(stdout) >= 3
            /\ \E d \in Cursors \ {Last} :
                 stdout[Len(stdout)] = LineOf(d) /\ c = After(d)
  PROVE  /\ TextInv'
         /\ Len(stdout') = Len(stdout) + 1
         /\ stdout'[Len(stdout')] = LineOf(c)
<1> DEFINE n == Len(stdout)
<1>1. IsList(stdout) /\ n \in Nat
  BY DEF TextInv, IsList
<1>2. /\ IsList(stdout') /\ Len(stdout') = n + 1
      /\ \A p \in 1 .. n : stdout'[p] = stdout[p]
      /\ stdout'[n + 1] = LineOf(c)
  BY <1>1, AppendToList
<1>3. n >= 2
  BY <1>1
<1>4. stdout[1] = Header /\ stdout[2] = Benchmark(run.measured)
  BY <1>1, <1>3 DEF TextInv, Arrived
<1>5. stdout'[1] = Header /\ stdout'[2] = Benchmark(run.measured)
  BY <1>1, <1>2, <1>3, <1>4
<1>6. stdout'[3] = LineOf(First)
  <2>1. CASE n = 2 /\ c = First
    BY <1>2, <2>1
  <2>2. CASE n >= 3
    BY <1>1, <1>2, <2>2 DEF TextInv, Arrived
  <2> QED
    BY <2>1, <2>2
<1>7. ASSUME NEW p \in 4 .. n + 1
      PROVE  \E d \in Cursors \ {Last} :
               stdout'[p - 1] = LineOf(d) /\ stdout'[p] = LineOf(After(d))
  <2>1. p - 1 \in 1 .. n /\ stdout'[p - 1] = stdout[p - 1]
    BY <1>1, <1>2
  <2>2. CASE p = n + 1
    BY <1>1, <1>2, <2>1, <2>2
  <2>3. CASE p # n + 1
    <3>1. p \in 4 .. n
      BY <1>1, <2>3
    <3>2. PICK d \in Cursors \ {Last} :
            stdout[p - 1] = LineOf(d) /\ Arrived(p, LineOf(After(d)))
      BY <3>1 DEF TextInv
    <3>3. stdout[p] = LineOf(After(d))
      BY <3>2 DEF Arrived
    <3> QED
      BY <1>2, <2>1, <3>1, <3>2, <3>3
  <2> QED
    BY <2>2, <2>3
<1>8. /\ Cursors' = Cursors /\ Last' = Last /\ First' = First
      /\ \A d : LineOf(d)' = LineOf(d) /\ After(d)' = After(d)
  BY DEF Cursors, Last, First, LineOf, After
<1>9. TextInv'
  <2>1. Arrived(1, Header)' /\ Arrived(2, Benchmark(run.measured))'
        /\ Arrived(3, LineOf(First))'
    BY <1>5, <1>6, <1>8 DEF Arrived, Header, Benchmark
  <2>2. ASSUME NEW p \in 4 .. Len(stdout')
        PROVE  \E d \in Cursors' \ {Last'} :
                 stdout'[p - 1] = LineOf(d)' /\ Arrived(p, LineOf(After(d)))'
    <3>1. PICK d \in Cursors \ {Last} :
            stdout'[p - 1] = LineOf(d) /\ stdout'[p] = LineOf(After(d))
      BY <1>2, <1>7, <2>2
    <3>2. LineOf(After(d))' = LineOf(After(d))
      BY <1>8 DEF LineOf, After
    <3>3. Arrived(p, LineOf(After(d)))'
      BY <3>1, <3>2 DEF Arrived
    <3> QED
      BY <1>8, <3>1, <3>3
  <2> QED
    BY <1>2, <2>1, <2>2 DEF TextInv, IsList
<1> QED
  BY <1>2, <1>9

(* From when output fails on, the last line may be what is left of it.     *)
LEMMA TextIsCutOff ==
  ASSUME TextInv, run \in Runs, OutputFails
  PROVE  TextInv'
<1> USE DEF OutputFails
<1> DEFINE n == Len(stdout)
<1>1. IsList(stdout) /\ n \in Nat
  BY DEF TextInv, IsList
<1>2. /\ IsList(stdout') /\ Len(stdout') = n
      /\ \A p \in 1 .. n :
           \/ stdout'[p] = stdout[p]
           \/ p = n /\ stdout'[p] \in CutOff(stdout[p])
  <2>1. CASE stdout' = stdout
    BY <1>1, <2>1
  <2>2. CASE stdout # <<>> /\ \E line \in CutOff(stdout[n]) :
               stdout' = [stdout EXCEPT ![n] = line]
    <3>1. PICK line \in CutOff(stdout[n]) :
            stdout' = [stdout EXCEPT ![n] = line]
      BY <2>2
    <3> DEFINE S == {stdout[p] : p \in 1 .. n} \cup {line}
    <3>2. stdout \in Seq(S) /\ line \in S
      <4>1. line \in S /\ \A p \in 1 .. n : stdout[p] \in S
        OBVIOUS
      <4> HIDE DEF S
      <4> QED
        BY <1>1, <4>1, ListsAreSequences
    <3>3. n \in 1 .. n
      <4> HIDE DEF S
      <4> QED
        BY <1>1, <2>2, <3>2, EmptySeq
    <3> HIDE DEF S
    <3>4. /\ [stdout EXCEPT ![n] = line] \in Seq(S)
          /\ Len([stdout EXCEPT ![n] = line]) = n
          /\ \A p \in 1 .. n : [stdout EXCEPT ![n] = line][p] =
                               IF p = n THEN line ELSE stdout[p]
      BY <3>2, <3>3, ExceptSeq
    <3>5. IsList(stdout')
      BY <3>1, <3>4, SequencesAreLists
    <3> QED
      BY <3>1, <3>4, <3>5
  <2> QED
    BY <2>1, <2>2
<1>3. ASSUME NEW p \in 1 .. n, NEW line, Arrived(p, line)
      PROVE  /\ p # n => stdout'[p] = line
             /\ p = n => stdout'[p] = line \/ stdout'[p] \in CutOff(line)
  <2>1. stdout[p] = line
    BY <1>3 DEF Arrived
  <2> QED
    BY <1>2, <2>1
<1>4. ASSUME NEW p \in 1 .. n, NEW line, Arrived(p, line)
      PROVE  \/ stdout'[p] = line
             \/ lost' /\ p = Len(stdout') /\ stdout'[p] \in CutOff(line)
  BY <1>2, <1>3, <1>4
<1>5. /\ Cursors' = Cursors /\ Last' = Last /\ First' = First
      /\ \A d : LineOf(d)' = LineOf(d) /\ After(d)' = After(d)
      /\ LineOf(First)' = LineOf(First)
  BY DEF Cursors, Last, First, LineOf, After
<1>6. /\ n >= 1 => Arrived(1, Header)'
      /\ n >= 2 => Arrived(2, Benchmark(run.measured))'
      /\ n >= 3 => Arrived(3, LineOf(First))'
  <2>1. /\ n >= 1 => 1 \in 1 .. n /\ Arrived(1, Header)
        /\ n >= 2 => 2 \in 1 .. n /\ Arrived(2, Benchmark(run.measured))
        /\ n >= 3 => 3 \in 1 .. n /\ Arrived(3, LineOf(First))
    BY <1>1 DEF TextInv
  <2>2. n >= 1 => Arrived(1, Header)'
    BY <1>4, <2>1 DEF Arrived, Header
  <2>3. n >= 2 => Arrived(2, Benchmark(run.measured))'
    BY <1>4, <2>1 DEF Arrived, Benchmark
  <2>4. n >= 3 => Arrived(3, LineOf(First))'
    BY <1>4, <1>5, <2>1 DEF Arrived
  <2> QED
    BY <2>2, <2>3, <2>4
<1>7. ASSUME NEW p \in 4 .. Len(stdout')
      PROVE  \E d \in Cursors' \ {Last'} :
               stdout'[p - 1] = LineOf(d)' /\ Arrived(p, LineOf(After(d)))'
  <2>1. PICK d \in Cursors \ {Last} :
          stdout[p - 1] = LineOf(d) /\ Arrived(p, LineOf(After(d)))
    BY <1>2, <1>7 DEF TextInv
  <2>2. stdout'[p - 1] = LineOf(d)
    BY <1>1, <1>2, <1>7, <2>1
  <2>3. LineOf(After(d))' = LineOf(After(d))
    BY DEF LineOf, After
  <2>4. p \in 1 .. n
    BY <1>1, <1>2, <1>7
  <2>5. Arrived(p, LineOf(After(d)))'
    BY <1>4, <2>1, <2>3, <2>4 DEF Arrived
  <2> QED
    BY <1>5, <2>1, <2>2, <2>5
<1> QED
  BY <1>2, <1>6, <1>7 DEF TextInv, IsList

(* Nothing is parsed while the lines are printed.                          *)
LEMMA ParserWaits ==
  ASSUME position = 1, NothingIsParsed, UNCHANGED parser,
         pc' \in Printing \cup {"parse_header"}
  PROVE  ParseInv'
BY DEF ParseInv, NothingIsParsed, parser, Printing

LEMMA MeasureStarts ==
  ASSUME ResultInv, Measure
  PROVE  RunInv'
<1> USE DEF Measure
<1>1. /\ stdout' = <<>> /\ ~ lost' /\ run' \in Runs /\ pc' = "print_header"
      /\ implementation_index' = 1 /\ sample_index' = 1
  BY DEF ResultInv
<1>2. Len(stdout') = 0 /\ IsList(stdout')
  BY <1>1, EmptyList DEF IsList
<1>3. TextInv'
  BY <1>2 DEF TextInv
<1>4. run'.measured \in Nat \ {0} /\ Len(run'.implementations) \in Nat \ {0}
  <2>1. ASSUME NEW r \in Runs
        PROVE  r.measured \in Nat \ {0} /\ Len(r.implementations) \in Nat \ {0}
    <3>1. /\ r \in Result
          /\ r.implementations \in Seq([name : STRING, valid : BOOLEAN,
                                        summary : Nat, samples : Seq(Nat)])
      BY RunsAssumption DEF Result
    <3>2. r.measured # 0 /\ r.implementations # <<>>
      BY RunsAssumption
    <3> QED
      BY <3>1, <3>2, EmptySeq DEF Result
  <2> QED
    BY <1>1, <2>1
<1>5. LoopsInBounds'
  BY <1>1, <1>4 DEF LoopsInBounds
<1>6. NothingIsMissing'
  BY <1>1, <1>2 DEF NothingIsMissing
<1>7. ParseInv'
  BY <1>1, ParserWaits DEF ResultInv, Printing
<1> QED
  BY <1>1, <1>3, <1>5, <1>6, <1>7 DEF RunInv

LEMMA PrintHeaderKeeps ==
  ASSUME RunInv, PrintHeader
  PROVE  RunInv'
<1> USE DEF PrintHeader
<1>1. /\ run \in Runs /\ TextInv /\ LoopsInBounds /\ ParseInv
      /\ run' = run /\ lost' = lost
  BY DEF RunInv
<1>2. ParseInv'
  BY <1>1, ParserWaits DEF ParseInv, Printing
<1>3. LoopsInBounds'
  BY <1>1 DEF LoopsInBounds
<1>4. CASE lost
  BY <1>1, <1>2, <1>3, <1>4, TextKept DEF RunInv, Write
<1>5. CASE ~ lost
  <2>1. stdout = <<>> /\ stdout' = Append(stdout, Header)
    BY <1>5 DEF RunInv, NothingIsMissing, Write
  <2>2. IsList(stdout') /\ Len(stdout') = 1 /\ stdout'[1] = Header
    <3>1. IsList(stdout) /\ Len(stdout) = 0
      BY <2>1, EmptyList
    <3>2. /\ IsList(Append(stdout, Header))
          /\ Len(Append(stdout, Header)) = Len(stdout) + 1
          /\ Append(stdout, Header)[Len(stdout) + 1] = Header
      BY <3>1, AppendToList, Zenon
    <3> QED
      BY <2>1, <3>1, <3>2
  <2>3. TextInv'
    BY <2>2 DEF TextInv, Arrived, Header
  <2>4. NothingIsMissing'
    BY <2>2 DEF NothingIsMissing
  <2> QED
    BY <1>1, <1>2, <1>3, <2>3, <2>4 DEF RunInv
<1> QED
  BY <1>4, <1>5

LEMMA PrintBenchmarkKeeps ==
  ASSUME RunInv, PrintBenchmark
  PROVE  RunInv'
<1> USE DEF PrintBenchmark
<1>1. /\ run \in Runs /\ TextInv /\ LoopsInBounds /\ ParseInv
      /\ run' = run /\ lost' = lost
  BY DEF RunInv
<1>2. ParseInv'
  BY <1>1, ParserWaits DEF ParseInv, Printing
<1>3. LoopsInBounds'
  BY <1>1 DEF LoopsInBounds
<1>4. CASE lost
  BY <1>1, <1>2, <1>3, <1>4, TextKept DEF RunInv, Write
<1>5. CASE ~ lost
  <2> DEFINE line == Benchmark(run.measured)
  <2>1. Len(stdout) = 1 /\ stdout' = Append(stdout, line) /\ IsList(stdout)
    BY <1>1, <1>5 DEF RunInv, NothingIsMissing, Write, TextInv
  <2>2. stdout[1] = Header
    BY <1>1, <1>5, <2>1 DEF TextInv, Arrived
  <2>3. /\ IsList(stdout') /\ Len(stdout') = 2
        /\ stdout'[1] = Header /\ stdout'[2] = line
    <3> HIDE DEF line
    <3>1. /\ IsList(Append(stdout, line))
          /\ Len(Append(stdout, line)) = Len(stdout) + 1
          /\ \A i \in 1 .. Len(stdout) : Append(stdout, line)[i] = stdout[i]
          /\ Append(stdout, line)[Len(stdout) + 1] = line
      BY <2>1, AppendToList, Zenon
    <3> QED
      BY <2>1, <2>2, <3>1
  <2>4. TextInv'
    BY <1>1, <2>3 DEF TextInv, Arrived, Header, Benchmark
  <2>5. NothingIsMissing'
    BY <1>1, <2>3 DEF NothingIsMissing, LoopsInBounds
  <2> QED
    BY <1>1, <1>2, <1>3, <2>4, <2>5 DEF RunInv
<1> QED
  BY <1>4, <1>5

LEMMA PrintImplementationKeeps ==
  ASSUME RunInv, PrintImplementation
  PROVE  RunInv'
<1> USE DEF PrintImplementation
<1> DEFINE n == Len(run.implementations)
           m == run.measured
<1>1. /\ run \in Runs /\ TextInv /\ LoopsInBounds /\ ParseInv
      /\ run' = run /\ lost' = lost /\ pc = "print_implementations"
      /\ sample_index' = sample_index /\ sample_index = 1
  BY DEF RunInv, LoopsInBounds
<1>2. n \in Nat \ {0} /\ m \in Nat \ {0} /\ Cursors = (1 .. n) \X (0 .. m)
  BY <1>1, RunFacts DEF Cursors
<1>3. ParseInv'
  BY <1>1, ParserWaits DEF ParseInv, Printing
<1>4. implementation_index \in 1 .. n + 1
  BY <1>1 DEF LoopsInBounds
<1>5. LoopsInBounds'
  BY <1>1, <1>2, <1>4 DEF LoopsInBounds
<1>6. CASE lost
  <2>1. UNCHANGED stdout
    BY <1>6 DEF Write
  <2> QED
    BY <1>1, <1>3, <1>5, <1>6, <2>1, TextKept DEF RunInv
<1>7. CASE ~ lost /\ implementation_index <= n
  <2> DEFINE c == <<implementation_index, 0>>
  <2>1. c \in Cursors /\ pc' = pc
        /\ implementation_index' = implementation_index + 1
    BY <1>1, <1>2, <1>4, <1>7
  <2>2. stdout' = Append(stdout, LineOf(c))
    BY <1>7 DEF Write, LineOf
  <2>3. Len(stdout) = 1 + implementation_index
    BY <1>1, <1>7 DEF RunInv, NothingIsMissing
  <2>4. \/ Len(stdout) = 2 /\ c = First
        \/ /\ Len(stdout) >= 3
           /\ \E d \in Cursors \ {Last} :
                stdout[Len(stdout)] = LineOf(d) /\ c = After(d)
    <3>1. CASE implementation_index = 1
      BY <2>3, <3>1 DEF First
    <3>2. CASE implementation_index # 1
      <4> DEFINE d == <<implementation_index - 1, 0>>
      <4>1. Len(stdout) >= 3 /\ d \in Cursors /\ d # Last
        BY <1>2, <1>4, <1>7, <2>3, <3>2 DEF Last
      <4>2. stdout[Len(stdout)] = LineOf(d)
        BY <1>1, <1>7, <4>1 DEF RunInv, NothingIsMissing, Printed
      <4>3. c = After(d)
        BY <1>4, <1>7 DEF After
      <4> QED
        BY <4>1, <4>2, <4>3
    <3> QED
      BY <3>1, <3>2
  <2>5. /\ TextInv' /\ Len(stdout') = Len(stdout) + 1
        /\ stdout'[Len(stdout')] = LineOf(c)
    <3> HIDE DEF c
    <3> QED
      BY <1>1, <1>7, <2>1, <2>2, <2>4, LineWritten
  <2>6. Printed' = c /\ LineOf(Printed)' = LineOf(c)
    <3>1. Printed' = c
      BY <1>1, <1>4, <2>1 DEF Printed
    <3> QED
      BY <1>1, <3>1 DEF LineOf
  <2>7. NothingIsMissing'
    BY <1>1, <1>4, <2>1, <2>3, <2>5, <2>6 DEF NothingIsMissing
  <2> QED
    BY <1>1, <1>3, <1>5, <2>5, <2>7 DEF RunInv
<1>8. CASE ~ lost /\ ~ implementation_index <= n
  <2>1. /\ pc' = "print_samples" /\ implementation_index' = 1
        /\ stdout' = stdout
    BY <1>8
  <2>2. TextInv'
    BY <1>1, <2>1, TextKept
  <2>3. Len(stdout) = 1 + implementation_index /\ Len(stdout) >= 3
    BY <1>1, <1>2, <1>4, <1>8 DEF RunInv, NothingIsMissing
  <2>4. Printed' = <<n, 0>> /\ Printed = <<n, 0>>
    BY <1>1, <1>2, <1>4, <1>8, <2>1 DEF Printed
  <2>5. LineOf(Printed)' = LineOf(Printed)
    BY <1>1, <2>4 DEF LineOf
  <2>6. stdout'[Len(stdout')] = LineOf(Printed)'
    BY <1>1, <1>8, <2>1, <2>3, <2>5 DEF RunInv, NothingIsMissing
  <2>7. NothingIsMissing'
    BY <2>1, <2>3, <2>6 DEF NothingIsMissing
  <2> QED
    BY <1>1, <1>3, <1>5, <2>2, <2>7 DEF RunInv
<1> QED
  BY <1>6, <1>7, <1>8

LEMMA PrintSampleKeeps ==
  ASSUME RunInv, PrintSample
  PROVE  RunInv'
<1> USE DEF PrintSample
<1> DEFINE n == Len(run.implementations)
           m == run.measured
           ii == implementation_index
           si == sample_index
<1>1. /\ run \in Runs /\ TextInv /\ LoopsInBounds /\ ParseInv
      /\ run' = run /\ lost' = lost /\ pc = "print_samples"
  BY DEF RunInv
<1>2. n \in Nat \ {0} /\ m \in Nat \ {0} /\ Cursors = (1 .. n) \X (0 .. m)
  BY <1>1, RunFacts DEF Cursors
<1>3. pc' \in {"print_samples", "parse_header"} /\ UNCHANGED parser
  BY <1>1
<1>4. ParseInv'
  BY <1>1, <1>3, ParserWaits DEF ParseInv, Printing
<1>5. /\ ii \in 1 .. n + 1 /\ si \in 1 .. m + 1
      /\ ii = n + 1 => si = 1
  BY <1>1 DEF LoopsInBounds
<1>6. ii <= n => Len(run.implementations[ii].samples) = m
  <2>1. \A j \in DOMAIN run.implementations :
          Len(run.implementations[j].samples) = m
    BY <1>1, RunFacts
  <2>2. DOMAIN run.implementations = 1 .. n
    BY <1>1, RunFacts
  <2>3. ii <= n => ii \in 1 .. n
    BY <1>2, <1>5
  <2> QED
    BY <2>1, <2>2, <2>3
<1>7. LoopsInBounds'
  BY <1>1, <1>2, <1>5, <1>6 DEF LoopsInBounds
<1>8. CASE lost
  <2>1. UNCHANGED stdout
    BY <1>8 DEF Write
  <2> QED
    BY <1>1, <1>4, <1>7, <1>8, <2>1, TextKept DEF RunInv
<1>9. ASSUME ~ lost
      PROVE  Len(stdout) >= 3 /\ stdout[Len(stdout)] = LineOf(Printed)
  BY <1>1, <1>9 DEF RunInv, NothingIsMissing
<1>10. CASE ~ lost /\ ii <= n /\ si <= m
  <2> DEFINE c == <<ii, si>>
  <2>1. c \in Cursors /\ pc' = pc /\ ii' = ii /\ si' = si + 1
    BY <1>1, <1>2, <1>5, <1>6, <1>10
  <2>2. stdout' = Append(stdout, LineOf(c))
    BY <1>5, <1>6, <1>10 DEF Write, LineOf, CurrentSample
  <2>3. Printed \in Cursors \ {Last} /\ c = After(Printed)
    <3>1. CASE si > 1
      <4>1. Printed = <<ii, si - 1>>
        BY <1>1, <3>1 DEF Printed
      <4> QED
        BY <1>2, <1>5, <1>10, <3>1, <4>1 DEF After, Last
    <3>2. CASE ~ si > 1 /\ ii > 1
      <4>1. Printed = <<ii - 1, m>> /\ si = 1
        BY <1>1, <1>5, <3>2 DEF Printed
      <4> QED
        BY <1>2, <1>5, <1>10, <3>2, <4>1 DEF After, Last
    <3>3. CASE ~ si > 1 /\ ~ ii > 1
      <4>1. Printed = <<n, 0>> /\ si = 1 /\ ii = 1
        BY <1>1, <1>5, <3>3 DEF Printed
      <4> QED
        BY <1>2, <4>1 DEF After, Last
    <3> QED
      BY <3>1, <3>2, <3>3
  <2>4. /\ TextInv' /\ Len(stdout') = Len(stdout) + 1
        /\ stdout'[Len(stdout')] = LineOf(c)
    <3> HIDE DEF c
    <3> QED
      BY <1>1, <1>9, <1>10, <2>1, <2>2, <2>3, LineWritten
  <2>5. LineOf(Printed)' = LineOf(c)
    <3>1. Printed' = c
      BY <1>1, <1>5, <2>1 DEF Printed
    <3> QED
      BY <1>1, <3>1 DEF LineOf
  <2>6. Len(stdout') >= 3
    BY <1>1, <1>9, <1>10, <2>4 DEF TextInv, IsList
  <2>7. NothingIsMissing'
    BY <1>1, <2>1, <2>4, <2>5, <2>6 DEF NothingIsMissing
  <2> QED
    BY <1>1, <1>4, <1>7, <2>4, <2>7 DEF RunInv
<1>11. CASE ~ lost /\ ~ (ii <= n /\ si <= m)
  <2>1. stdout' = stdout
    BY <1>1, <1>6, <1>11
  <2>2. TextInv'
    BY <1>1, <2>1, TextKept
  <2>3. Printed' = Printed
    <3>1. CASE ii <= n
      <4>1. pc' = pc /\ ii' = ii + 1 /\ si' = 1 /\ si = m + 1
        BY <1>1, <1>2, <1>5, <1>6, <1>11, <3>1
      <4>2. Printed' = <<ii, m>>
        BY <1>1, <1>2, <1>5, <4>1 DEF Printed
      <4>3. Printed = <<ii, m>>
        BY <1>1, <1>2, <1>5, <4>1 DEF Printed
      <4> QED
        BY <4>2, <4>3
    <3>2. CASE ~ ii <= n
      <4>1. pc' = "parse_header" /\ ii = n + 1 /\ si = 1
        BY <1>2, <1>5, <3>2
      <4>2. Printed' = Last
        BY <1>1, <4>1 DEF Printed, Last
      <4>3. Printed = Last
        BY <1>1, <1>2, <4>1 DEF Printed, Last
      <4> QED
        BY <4>2, <4>3
    <3> QED
      BY <3>1, <3>2
  <2>4. LineOf(Printed)' = LineOf(Printed)
    BY <1>1, <2>3 DEF LineOf
  <2>5. NothingIsMissing'
    BY <1>3, <1>9, <1>11, <2>1, <2>4 DEF NothingIsMissing
  <2> QED
    BY <1>1, <1>4, <1>7, <2>2, <2>5 DEF RunInv
<1> QED
  BY <1>8, <1>10, <1>11

LEMMA OutputFailsKeeps ==
  ASSUME RunInv, OutputFails
  PROVE  RunInv'
<1> USE DEF OutputFails
<1>1. /\ run' \in Runs /\ lost' /\ LoopsInBounds'
  BY DEF RunInv, LoopsInBounds
<1>2. TextInv'
  BY TextIsCutOff DEF RunInv
<1>3. ParseInv'
  BY ParserWaits DEF RunInv, ParseInv, Printing
<1> QED
  BY <1>1, <1>2, <1>3 DEF RunInv

-----------------------------------------------------------------------------
(***************************************************************************)
(* The parser.                                                             *)
(***************************************************************************)

(* The parser leaves the text and the printer alone.                       *)
LEMMA PrinterRests ==
  ASSUME RunInv, UNCHANGED program, pc \in Pcs \ Printing, pc # "start",
         pc' \in {"parse_benchmark", "parse_records", "accepted"}
  PROVE  /\ run' \in Runs /\ TextInv' /\ LoopsInBounds'
         /\ ~ lost' => NothingIsMissing'
<1> USE DEF program
<1>1. run' \in Runs /\ TextInv'
  BY TextKept DEF RunInv
<1>2. LoopsInBounds'
  BY DEF RunInv, LoopsInBounds, Pcs, Printing
<1>3. ASSUME ~ lost'
      PROVE  NothingIsMissing'
  <2>1. NothingIsMissing
    BY <1>3 DEF RunInv
  <2>2. Printed = Last /\ Printed' = Last
    BY DEF Printed, Last, Pcs, Printing
  <2>3. LineOf(Printed)' = LineOf(Printed)
    BY <2>2 DEF LineOf
  <2> QED
    BY <2>1, <2>3 DEF NothingIsMissing, Pcs, Printing
<1> QED
  BY <1>1, <1>2, <1>3

LEMMA ParseHeaderKeeps ==
  ASSUME RunInv, ParseHeader, pc' # "refused"
  PROVE  RunInv'
<1>1. /\ pc = "parse_header" /\ pc' = "parse_benchmark"
      /\ position' = 2 /\ UNCHANGED program
      /\ ~ (Len(stdout) < 3)
      /\ UNCHANGED <<records, samples, parsing_samples>>
  BY DEF ParseHeader, Refuse
<1>2. /\ run' \in Runs /\ TextInv' /\ LoopsInBounds'
      /\ ~ lost' => NothingIsMissing'
  BY <1>1, PrinterRests DEF Pcs, Printing
<1>3. Len(stdout') >= 3
  BY <1>1 DEF RunInv, TextInv, IsList, program
<1>4. ParseInv'
  BY <1>1, <1>3 DEF RunInv, ParseInv, NothingIsParsed, Printing
<1> QED
  BY <1>2, <1>4 DEF RunInv

LEMMA ParseBenchmarkKeeps ==
  ASSUME RunInv, ParseBenchmark, pc' # "refused"
  PROVE  RunInv'
<1>1. /\ pc = "parse_benchmark" /\ pc' = "parse_records"
      /\ position' = 3 /\ UNCHANGED program
      /\ UNCHANGED <<records, samples, parsing_samples>>
  BY DEF ParseBenchmark, Refuse
<1>2. /\ run' \in Runs /\ TextInv' /\ LoopsInBounds'
      /\ ~ lost' => NothingIsMissing'
  BY <1>1, PrinterRests DEF Pcs, Printing
<1>3. Len(stdout') >= 3 /\ NothingIsParsed'
  BY <1>1 DEF RunInv, ParseInv, NothingIsParsed, program
<1>4. ParseInv'
  BY <1>1, <1>3 DEF ParseInv, RecordsInv, Printing
<1> QED
  BY <1>2, <1>4 DEF RunInv

-----------------------------------------------------------------------------
(***************************************************************************)
(* What the parser has made of the lines before the one at e, all of which *)
(* have arrived whole.                                                     *)
(***************************************************************************)
BeforeRecord(e) ==
  /\ ~ parsing_samples
  /\ IsList(records) /\ Len(records) = e[1] - 1
  /\ \A j \in 1 .. e[1] - 1 : records[j] = LineOf(<<j, 0>>)
  /\ DOMAIN samples = {run.implementations[j].name : j \in 1 .. e[1] - 1}
  /\ \A name \in DOMAIN samples : samples[name] = <<>>

BeforeSample(e) ==
  /\ IsList(records) /\ Len(records) = Len(run.implementations)
  /\ \A j \in DOMAIN run.implementations : records[j] = LineOf(<<j, 0>>)
  /\ DOMAIN samples =
       {run.implementations[j].name : j \in DOMAIN run.implementations}
  /\ \A j \in DOMAIN run.implementations :
       LET i == run.implementations[j]
           got == samples[i.name]
       IN  /\ j < e[1] => got = i.samples
           /\ j > e[1] => got = <<>>
           /\ j = e[1] =>
                /\ IsList(got) /\ Len(got) = e[2] - 1
                /\ \A k \in 1 .. e[2] - 1 : got[k] = i.samples[k]

LEMMA BeforeFirst ==
  ASSUME NothingIsParsed
  PROVE  BeforeRecord(First)
<1>1. 1 .. 1 - 1 = {} /\ 1 - 1 = 0
  OBVIOUS
<1>2. /\ IsList(records) /\ Len(records) = 0
      /\ DOMAIN samples = {}
  BY EmptyList DEF NothingIsParsed
<1> QED
  BY <1>1, <1>2 DEF BeforeRecord, First, NothingIsParsed

LEMMA BeforeNextRecord ==
  ASSUME run \in Runs, NEW c \in Cursors \ {Last}, c[2] = 0,
         c[1] < Len(run.implementations), HasRecords(c),
         stdout[position - 1] = LineOf(c)
  PROVE  BeforeRecord(After(c))
<1> DEFINE i == c[1]
           e == <<i + 1, 0>>
<1>1. After(c) = e
  BY DEF After
<1>2. i \in Nat /\ i >= 1 /\ c = <<i, 0>> /\ (i + 1) - 1 = i
  BY CursorFacts, RunFacts
<1>3. \A j \in 1 .. i : records[j] = LineOf(<<j, 0>>)
  <2>1. records[i] = LineOf(<<i, 0>>)
    BY <1>2 DEF HasRecords
  <2>2. ASSUME NEW j \in 1 .. i
        PROVE  records[j] = LineOf(<<j, 0>>)
    <3>1. CASE j = i
      BY <2>1, <3>1
    <3>2. CASE j # i
      <4>1. j \in 1 .. i - 1
        BY <1>2, <3>2
      <4> QED
        BY <4>1 DEF HasRecords
    <3> QED
      BY <3>1, <3>2
  <2> QED
    BY <2>2
<1>4. e[1] - 1 = i
  BY <1>2
<1> HIDE DEF e
<1>5. BeforeRecord(e)
  BY <1>3, <1>4 DEF BeforeRecord, HasRecords
<1> QED
  BY <1>1, <1>5

LEMMA BeforeFirstSample ==
  ASSUME run \in Runs, NEW c \in Cursors \ {Last}, c[2] = 0,
         c[1] = Len(run.implementations), HasRecords(c),
         stdout[position - 1] = LineOf(c)
  PROVE  BeforeSample(After(c))
<1> DEFINE n == Len(run.implementations)
           e == <<1, 1>>
<1>1. After(c) = e
  BY CursorFacts, RunFacts DEF After
<1>2. n \in Nat \ {0} /\ c = <<n, 0>> /\ DOMAIN run.implementations = 1 .. n
  BY CursorFacts, RunFacts
<1>3. \A j \in 1 .. n : records[j] = LineOf(<<j, 0>>)
  <2>1. records[n] = LineOf(<<n, 0>>)
    BY <1>2 DEF HasRecords
  <2>2. ASSUME NEW j \in 1 .. n
        PROVE  records[j] = LineOf(<<j, 0>>)
    <3>1. CASE j = n
      BY <2>1, <3>1
    <3>2. CASE j # n
      <4>1. j \in 1 .. n - 1
        BY <1>2, <3>2
      <4> QED
        BY <4>1 DEF HasRecords
    <3> QED
      BY <3>1, <3>2
  <2> QED
    BY <2>2
<1>4. /\ DOMAIN samples = {run.implementations[j].name : j \in 1 .. n}
      /\ \A name \in DOMAIN samples : samples[name] = <<>>
      /\ IsList(records) /\ Len(records) = n
  BY DEF HasRecords
<1>5. ASSUME NEW j \in 1 .. n
      PROVE  LET got == samples[run.implementations[j].name]
             IN  got = <<>> /\ IsList(got) /\ Len(got) = 0
  BY <1>4, EmptyList
<1>6. e[1] = 1 /\ e[2] - 1 = 0 /\ 1 .. 0 = {}
  OBVIOUS
<1>7. \A j \in 1 .. n : ~ j < e[1]
  BY <1>2, <1>6
<1> HIDE DEF e
<1>8. BeforeSample(e)
  BY <1>2, <1>3, <1>4, <1>5, <1>6, <1>7 DEF BeforeSample
<1> QED
  BY <1>1, <1>8

LEMMA BeforeNextSample ==
  ASSUME run \in Runs, NEW c \in Cursors \ {Last}, c[2] # 0, HasSamples(c),
         stdout[position - 1] = LineOf(c)
  PROVE  BeforeSample(After(c))
<1> DEFINE n == Len(run.implementations)
           m == run.measured
           I == run.implementations
           Got(j) == samples[I[j].name]
<1>1. /\ n \in Nat \ {0} /\ m \in Nat \ {0} /\ DOMAIN I = 1 .. n
      /\ c[1] \in 1 .. n /\ c[2] \in 1 .. m
  BY CursorFacts, RunFacts
<1>2. /\ DOMAIN samples = {I[j].name : j \in DOMAIN I}
      /\ IsList(records) /\ Len(records) = n /\ DOMAIN records = 1 .. n
      /\ \A j \in DOMAIN I : records[j] = LineOf(<<j, 0>>)
  BY <1>1 DEF HasSamples, IsList
<1>3. \A j \in DOMAIN I : /\ j < c[1] => Got(j) = I[j].samples
                          /\ j > c[1] => Got(j) = <<>>
  BY DEF HasSamples
<1>4. /\ IsList(Got(c[1])) /\ Len(Got(c[1])) = c[2]
      /\ \A k \in 1 .. c[2] : Got(c[1])[k] = I[c[1]].samples[k]
  <2>1. /\ IsList(Got(c[1])) /\ Len(Got(c[1])) = c[2]
        /\ \A k \in 1 .. c[2] - 1 : Got(c[1])[k] = I[c[1]].samples[k]
        /\ Got(c[1])[c[2]] = stdout[position - 1].elapsed_ns
    BY <1>1 DEF HasSamples
  <2>2. stdout[position - 1].elapsed_ns = I[c[1]].samples[c[2]]
    BY LineFacts
  <2>3. \A k \in 1 .. c[2] : k \in 1 .. c[2] - 1 \/ k = c[2]
    BY <1>1
  <2>4. ASSUME NEW k \in 1 .. c[2]
        PROVE  Got(c[1])[k] = I[c[1]].samples[k]
    <3>1. CASE k \in 1 .. c[2] - 1
      BY <2>1, <3>1
    <3>2. CASE k = c[2]
      <4> HIDE DEF Got, I
      <4> QED
        BY <2>1, <2>2, <3>2, Zenon
    <3> QED
      BY <2>3, <3>1, <3>2
  <2> QED
    BY <2>1, <2>4
<1>5. CASE c[2] < m
  <2> DEFINE e == <<c[1], c[2] + 1>>
  <2>1. After(c) = e
    BY <1>5 DEF After
  <2>2. e[1] = c[1] /\ e[2] - 1 = c[2]
    BY <1>1
  <2> HIDE DEF e
  <2>3. BeforeSample(e)
    BY <1>1, <1>2, <1>3, <1>4, <2>2 DEF BeforeSample
  <2> QED
    BY <2>1, <2>3
<1>6. CASE ~ c[2] < m
  <2> DEFINE e == <<c[1] + 1, 1>>
  <2>1. After(c) = e /\ c[2] = m
    BY <1>1, <1>6 DEF After
  <2>2. Got(c[1]) = I[c[1]].samples
    <3>1. IsList(I[c[1]].samples) /\ Len(I[c[1]].samples) = m
      BY <1>1, RunFacts
    <3> DEFINE s == Got(c[1])
               t == I[c[1]].samples
    <3>2. /\ IsList(s) /\ Len(s) = m
          /\ \A k \in 1 .. m : s[k] = t[k]
      BY <1>4, <2>1
    <3> HIDE DEF s, t
    <3>3. IsList(t) /\ Len(t) = m
      BY <3>1 DEF t
    <3> QED
      <4>1. s = t
        BY <3>2, <3>3, ListsAreEqual
      <4> QED
        BY <4>1 DEF s, t
  <2>3. e[1] = c[1] + 1 /\ e[2] - 1 = 0 /\ 1 .. 0 = {}
    OBVIOUS
  <2>4. ASSUME NEW j \in DOMAIN I
        PROVE  /\ j < e[1] => Got(j) = I[j].samples
               /\ j > e[1] => Got(j) = <<>>
               /\ j = e[1] => Got(j) = <<>>
    BY <1>1, <1>3, <2>2, <2>3
  <2>5. ASSUME NEW j \in DOMAIN I, j = e[1]
        PROVE  IsList(Got(j)) /\ Len(Got(j)) = 0
    BY <2>4, <2>5, EmptyList
  <2> HIDE DEF e
  <2>6. BeforeSample(e)
    BY <1>2, <2>3, <2>4, <2>5 DEF BeforeSample
  <2> QED
    BY <2>1, <2>6
<1> QED
  BY <1>5, <1>6

(* The line the parser is at, and what it has made of those before.        *)
LEMMA NextLine ==
  ASSUME RunInv, pc = "parse_records", position <= Len(stdout)
  PROVE  /\ position \in 3 .. Len(stdout)
         /\ \E e \in Cursors : /\ Arrived(position, LineOf(e))
                               /\ e[2] = 0 => BeforeRecord(e)
                               /\ e[2] # 0 => BeforeSample(e)
<1>1. run \in Runs /\ TextInv /\ RecordsInv /\ Len(stdout) >= 3
  BY DEF RunInv, ParseInv
<1>2. Len(stdout) \in Nat
  BY <1>1 DEF TextInv, IsList
<1>3. CASE position = 3 /\ NothingIsParsed
  <2>1. Arrived(3, LineOf(First)) /\ First \in Cursors /\ First[2] = 0
    BY <1>1, CursorsFollow DEF TextInv, First
  <2> QED
    BY <1>1, <1>2, <1>3, <2>1, BeforeFirst
<1>4. CASE /\ position \in 4 .. Len(stdout) + 1
           /\ \E c \in Cursors : /\ Arrived(position - 1, LineOf(c))
                                 /\ stdout[position - 1] # Malformed
                                 /\ Parsed(c)
  <2>1. position \in 4 .. Len(stdout)
    BY <1>2, <1>4
  <2>2. PICK c \in Cursors : Arrived(position - 1, LineOf(c)) /\ Parsed(c)
    BY <1>4
  <2>3. PICK d \in Cursors \ {Last} : /\ stdout[position - 1] = LineOf(d)
                                      /\ Arrived(position, LineOf(After(d)))
    BY <1>1, <2>1 DEF TextInv
  <2>4. stdout[position - 1] = LineOf(c)
    BY <1>2, <2>1, <2>2 DEF Arrived
  <2>5. c = d
    BY <1>1, <2>3, <2>4, LinesAreDistinct
  <2> DEFINE e == After(c)
  <2>6. e \in Cursors /\ Arrived(position, LineOf(e)) /\ c # Last
    BY <1>1, <2>3, <2>5, CursorsFollow
  <2>7. (e[2] = 0 => BeforeRecord(e)) /\ (e[2] # 0 => BeforeSample(e))
    <3>1. CASE c[2] = 0 /\ c[1] < Len(run.implementations)
      <4>1. e[2] = 0 /\ HasRecords(c)
        BY <2>2, <3>1 DEF After, Parsed
      <4> QED
        BY <1>1, <2>4, <2>6, <3>1, <4>1, BeforeNextRecord
    <3>2. CASE c[2] = 0 /\ ~ c[1] < Len(run.implementations)
      <4>1. /\ e[2] # 0 /\ HasRecords(c)
            /\ c[1] = Len(run.implementations)
        BY <1>1, <2>2, <3>2, CursorFacts, RunFacts DEF After, Parsed
      <4> QED
        BY <1>1, <2>4, <2>6, <3>2, <4>1, BeforeFirstSample
    <3>3. CASE c[2] # 0
      <4>1. e[2] # 0 /\ HasSamples(c)
        BY <1>1, <2>2, <3>3, CursorFacts, RunFacts DEF After, Parsed
      <4> QED
        BY <1>1, <2>4, <2>6, <3>3, <4>1, BeforeNextSample
    <3> QED
      BY <3>1, <3>2, <3>3
  <2> HIDE DEF e
  <2> QED
    BY <1>2, <2>1, <2>6, <2>7
<1> QED
  BY <1>1, <1>3, <1>4 DEF RecordsInv

LEMMA ParseImplementationKeeps ==
  ASSUME RunInv, ParseImplementation, pc' # "refused"
  PROVE  RunInv'
<1> DEFINE n == Len(run.implementations)
           I == run.implementations
<1>1. /\ pc = "parse_records" /\ pc' = pc /\ position <= Len(stdout)
      /\ Line.type = "implementation"
      /\ records' = Append(records, Line)
      /\ samples' = [name \in Known \cup {Line.name} |->
                       IF name = Line.name THEN <<>> ELSE samples[name]]
      /\ position' = position + 1
      /\ ~ parsing_samples /\ UNCHANGED <<parsing_samples, program>>
  BY DEF ParseImplementation, Refuse, ImplementationIsValid
<1>2. /\ run' \in Runs /\ TextInv' /\ LoopsInBounds'
      /\ ~ lost' => NothingIsMissing'
  BY <1>1, PrinterRests DEF Pcs, Printing
<1>3. /\ run \in Runs /\ run' = run /\ stdout' = stdout /\ lost' = lost
      /\ Len(stdout) \in Nat
  BY <1>1 DEF RunInv, TextInv, IsList, program
<1>4. PICK e \in Cursors : /\ Arrived(position, LineOf(e))
                           /\ e[2] = 0 => BeforeRecord(e)
                           /\ e[2] # 0 => BeforeSample(e)
  BY <1>1, NextLine
<1>5. position \in 3 .. Len(stdout)
  BY <1>1, NextLine
<1>6. stdout[position].type = "implementation" /\ stdout[position] # Malformed
  BY <1>1 DEF Line, Malformed
<1>7. e[2] = 0 /\ Line.name = I[e[1]].name
  BY <1>3, <1>4, <1>6, ArrivedFacts, LineFacts DEF Line
<1>8. BeforeRecord(e)
  BY <1>4, <1>7
<1>9. e[1] \in 1 .. n /\ n \in Nat
  BY <1>3, CursorFacts, RunFacts
<1>10. /\ IsList(records') /\ Len(records') = e[1]
       /\ \A j \in 1 .. e[1] - 1 : records'[j] = LineOf(<<j, 0>>)
       /\ records'[e[1]] = stdout[position]
  <2> DEFINE k == e[1] - 1
  <2>1. k \in Nat /\ k + 1 = e[1]
    BY <1>9
  <2>2. /\ IsList(records) /\ Len(records) = k
        /\ \A j \in 1 .. k : records[j] = LineOf(<<j, 0>>)
    BY <1>8 DEF BeforeRecord
  <2> HIDE DEF k
  <2>3. /\ IsList(Append(records, Line))
        /\ Len(Append(records, Line)) = k + 1
        /\ \A j \in 1 .. k : Append(records, Line)[j] = records[j]
        /\ Append(records, Line)[k + 1] = Line
    BY <2>2, AppendToList
  <2>4. /\ IsList(records') /\ Len(records') = e[1]
        /\ \A j \in 1 .. k : records'[j] = LineOf(<<j, 0>>)
        /\ records'[e[1]] = stdout[position]
    BY <1>1, <2>1, <2>2, <2>3 DEF Line
  <2> QED
    BY <2>4 DEF k
<1>11. Known = {I[j].name : j \in 1 .. e[1] - 1}
  <2>1. \A j \in 1 .. e[1] - 1 : records[j].name = I[j].name
    <3>1. ASSUME NEW j \in 1 .. e[1] - 1
          PROVE  records[j].name = I[j].name
      <4>1. records[j] = LineOf(<<j, 0>>)
        BY <1>8 DEF BeforeRecord
      <4> QED
        BY <4>1 DEF LineOf, ImplementationLine
    <3> QED
      BY <3>1
  <2>2. DOMAIN records = 1 .. e[1] - 1
    BY <1>8, <1>9 DEF BeforeRecord, IsList
  <2> QED
    BY <2>1, <2>2 DEF Known
<1>12. /\ DOMAIN samples' = {I[j].name : j \in 1 .. e[1]}
       /\ \A name \in DOMAIN samples' : samples'[name] = <<>>
  <2>1. DOMAIN samples' = Known \cup {Line.name}
    BY <1>1
  <2>2. Known \cup {Line.name} = {I[j].name : j \in 1 .. e[1]}
    BY <1>7, <1>9, <1>11
  <2>3. DOMAIN samples = Known
    BY <1>8, <1>11 DEF BeforeRecord
  <2>4. \A name \in Known \cup {Line.name} : samples'[name] = <<>>
    BY <1>1, <1>8, <2>3 DEF BeforeRecord
  <2> QED
    BY <2>1, <2>2, <2>4
<1>13. HasRecords(e)'
  <2>1. position' - 1 = position
    BY <1>1, <1>5
  <2>2. \A j : LineOf(<<j, 0>>)' = LineOf(<<j, 0>>)
    BY <1>3 DEF LineOf
  <2> QED
    <3>1. ~ parsing_samples' /\ IsList(records)' /\ Len(records)' = e[1]
      BY <1>1, <1>10 DEF IsList
    <3>2. \A j \in 1 .. e[1] - 1 : records'[j] = LineOf(<<j, 0>>)'
      BY <1>10, <2>2
    <3>3. records'[e[1]] = (stdout[position - 1])'
      BY <1>3, <1>10, <2>1
    <3>4. DOMAIN samples' = {(I[j].name)' : j \in 1 .. e[1]}
      BY <1>3, <1>12
    <3> QED
      BY <1>12, <3>1, <3>2, <3>3, <3>4 DEF HasRecords
<1>14. RecordsInv'
  <2>1. position' \in 4 .. Len(stdout') + 1 /\ position' - 1 = position
    BY <1>1, <1>3, <1>5
  <2>2. e \in Cursors' /\ Parsed(e)'
    BY <1>3, <1>7, <1>13 DEF Cursors, Parsed
  <2>3. LineOf(e)' = LineOf(e)
    BY <1>3 DEF LineOf
  <2>4. Arrived(position - 0, LineOf(e)) /\ position - 0 = position
    BY <1>4, <1>5
  <2>5. Arrived(position - 1, LineOf(e))'
    BY <1>3, <1>4, <2>1, <2>3 DEF Arrived
  <2>6. (stdout[position - 1])' # Malformed
    BY <1>3, <1>6, <2>1
  <2> QED
    BY <2>1, <2>2, <2>5, <2>6 DEF RecordsInv
<1>15. ParseInv'
  BY <1>1, <1>3, <1>14 DEF RunInv, ParseInv, Printing
<1> QED
  BY <1>2, <1>15 DEF RunInv

LEMMA ParseSampleKeeps ==
  ASSUME RunInv, ParseSample, pc' # "refused"
  PROVE  RunInv'
<1> DEFINE I == run.implementations
           n == Len(run.implementations)
           elapsed == Line.elapsed_ns
<1>1. /\ pc = "parse_records" /\ pc' = pc /\ position <= Len(stdout)
      /\ Line.type = "sample"
      /\ samples' = [samples EXCEPT ![Line.name] = Append(@, elapsed)]
      /\ position' = position + 1 /\ parsing_samples'
      /\ UNCHANGED <<records, program>>
  BY DEF ParseSample, Refuse, SampleIsValid
<1>2. /\ run' \in Runs /\ TextInv' /\ LoopsInBounds'
      /\ ~ lost' => NothingIsMissing'
  BY <1>1, PrinterRests DEF Pcs, Printing
<1>3. /\ run \in Runs /\ run' = run /\ stdout' = stdout /\ lost' = lost
      /\ Len(stdout) \in Nat
  BY <1>1 DEF RunInv, TextInv, IsList, program
<1>4. PICK e \in Cursors : /\ Arrived(position, LineOf(e))
                           /\ e[2] = 0 => BeforeRecord(e)
                           /\ e[2] # 0 => BeforeSample(e)
  BY <1>1, NextLine
<1>5. position \in 3 .. Len(stdout)
  BY <1>1, NextLine
<1>6. stdout[position].type = "sample" /\ stdout[position] # Malformed
  BY <1>1 DEF Line, Malformed
<1>7. e[2] # 0 /\ Line.name = I[e[1]].name
  BY <1>3, <1>4, <1>6, ArrivedFacts, LineFacts DEF Line
<1>8. BeforeSample(e)
  BY <1>4, <1>7
<1>9. /\ e[1] \in DOMAIN I /\ e[2] \in Nat /\ e[2] >= 1
      /\ DOMAIN I = 1 .. n /\ n \in Nat
  BY <1>3, <1>7, CursorFacts, RunFacts
<1> DEFINE Got(j) == samples[I[j].name]
           New(j) == samples'[I[j].name]
<1>10. DOMAIN samples = {I[j].name : j \in DOMAIN I}
  BY <1>8 DEF BeforeSample
<1>11. \A j \in DOMAIN I : j # e[1] => I[j].name # Line.name
  BY <1>3, <1>7, <1>9, RunFacts
<1>12. /\ DOMAIN samples' = DOMAIN samples
       /\ \A j \in DOMAIN I : j # e[1] => New(j) = Got(j)
       /\ New(e[1]) = Append(Got(e[1]), elapsed)
  BY <1>1, <1>7, <1>9, <1>10, <1>11
<1>13. /\ IsList(New(e[1])) /\ Len(New(e[1])) = e[2]
       /\ \A k \in 1 .. e[2] - 1 : New(e[1])[k] = I[e[1]].samples[k]
       /\ New(e[1])[e[2]] = elapsed
  <2> DEFINE s == Got(e[1])
             l == e[2] - 1
  <2>1. /\ IsList(s) /\ Len(s) = l
        /\ \A k \in 1 .. l : s[k] = I[e[1]].samples[k]
    BY <1>8, <1>9 DEF BeforeSample
  <2>2. l \in Nat /\ l + 1 = e[2]
    BY <1>9
  <2>3. New(e[1]) = Append(s, elapsed)
    BY <1>12
  <2> HIDE DEF s, l, elapsed
  <2>4. /\ IsList(Append(s, elapsed)) /\ Len(Append(s, elapsed)) = l + 1
        /\ \A k \in 1 .. l : Append(s, elapsed)[k] = s[k]
        /\ Append(s, elapsed)[l + 1] = elapsed
    BY <2>1, AppendToList
  <2>5. /\ IsList(New(e[1])) /\ Len(New(e[1])) = e[2]
        /\ \A k \in 1 .. l : New(e[1])[k] = I[e[1]].samples[k]
        /\ New(e[1])[e[2]] = elapsed
    <3> HIDE DEF New
    <3> QED
      BY <2>1, <2>2, <2>3, <2>4
  <2> QED
    BY <2>5 DEF l
<1>14. \A j \in DOMAIN I : /\ j < e[1] => New(j) = I[j].samples
                           /\ j > e[1] => New(j) = <<>>
  <2>1. \A j \in DOMAIN I : /\ j < e[1] => Got(j) = I[j].samples
                            /\ j > e[1] => Got(j) = <<>>
    BY <1>8 DEF BeforeSample
  <2>2. \A j \in DOMAIN I : j < e[1] \/ j > e[1] => j # e[1]
    BY <1>9
  <2> QED
    BY <1>12, <2>1, <2>2
<1>15. position' - 1 = position
  BY <1>1, <1>5
<1>16. HasSamples(e)'
  <2>1. \A j : LineOf(<<j, 0>>)' = LineOf(<<j, 0>>)
    BY <1>3 DEF LineOf
  <2>2. /\ IsList(records') /\ Len(records') = n
        /\ \A j \in DOMAIN records' : records'[j] = LineOf(<<j, 0>>)'
    BY <1>1, <1>8, <1>9, <2>1 DEF BeforeSample, IsList
  <2>3. elapsed = (stdout[position - 1].elapsed_ns)'
    BY <1>3, <1>15 DEF Line
  <2> HIDE DEF elapsed
  <2> QED
    <3>1. ASSUME NEW j \in DOMAIN I
          PROVE  /\ j < e[1] => New(j) = I[j].samples
                 /\ j > e[1] => New(j) = <<>>
                 /\ j = e[1] =>
                      /\ IsList(New(j)) /\ Len(New(j)) = e[2]
                      /\ \A k \in 1 .. e[2] - 1 : New(j)[k] = I[j].samples[k]
                      /\ New(j)[e[2]] = (stdout[position - 1].elapsed_ns)'
      BY <1>13, <1>14, <2>3
    <3>2. DOMAIN samples' = {I[j].name : j \in DOMAIN I}
      BY <1>10, <1>12
    <3>3. IsList(records)' /\ Len(records)' = n
      BY <2>2 DEF IsList
    <3>4. \A j \in DOMAIN run'.implementations :
            LET i == run'.implementations[j]
                got == samples'[i.name]
            IN  /\ j < e[1] => got = i.samples
                /\ j > e[1] => got = <<>>
                /\ j = e[1] =>
                     /\ IsList(got) /\ Len(got) = e[2]
                     /\ \A k \in 1 .. e[2] - 1 : got[k] = i.samples[k]
                     /\ got[e[2]] = (stdout[position - 1].elapsed_ns)'
      BY <1>3, <3>1
    <3>5. DOMAIN samples' = {run'.implementations[j].name :
                               j \in DOMAIN run'.implementations}
      BY <1>3, <3>2
    <3>6. Len(records)' = Len(run'.implementations)
      BY <1>3, <3>3
    <3> QED
      BY <1>1, <2>2, <3>3, <3>4, <3>5, <3>6 DEF HasSamples
<1>17. RecordsInv'
  <2>1. position' \in 4 .. Len(stdout') + 1
    BY <1>1, <1>3, <1>5
  <2>2. e \in Cursors' /\ Parsed(e)'
    BY <1>3, <1>7, <1>16 DEF Cursors, Parsed
  <2>3. LineOf(e)' = LineOf(e)
    BY <1>3 DEF LineOf
  <2>4. Arrived(position - 1, LineOf(e))'
    BY <1>3, <1>4, <1>15, <2>3 DEF Arrived
  <2>5. (stdout[position - 1])' # Malformed
    BY <1>3, <1>6, <1>15
  <2> QED
    BY <2>1, <2>2, <2>4, <2>5 DEF RecordsInv
<1>18. ParseInv'
  BY <1>1, <1>3, <1>17 DEF RunInv, ParseInv, Printing
<1> QED
  BY <1>2, <1>18 DEF RunInv

(* What has been parsed depends on the parser, the text and the run.       *)
LEMMA ParsedIsKept ==
  ASSUME UNCHANGED <<run, stdout, parser>>, NEW CONSTANT c, Parsed(c)
  PROVE  Parsed(c)'
<1>1. /\ run' = run /\ records' = records /\ samples' = samples
      /\ parsing_samples' = parsing_samples
      /\ stdout' = stdout /\ position' = position
  BY DEF parser
<1>2. CASE c[2] = 0
  <2>1. HasRecords(c)
    BY <1>2 DEF Parsed
  <2>2. HasRecords(c)'
    BY <1>1, <2>1 DEF HasRecords, LineOf
  <2> QED
    BY <1>2, <2>2 DEF Parsed
<1>3. CASE c[2] # 0
  <2>1. HasSamples(c)
    BY <1>3 DEF Parsed
  <2>2. /\ parsing_samples'
        /\ IsList(records)' /\ (Len(records) = Len(run.implementations))'
        /\ (\A j \in DOMAIN records : records[j] = LineOf(<<j, 0>>))'
        /\ (DOMAIN samples =
              {run.implementations[j].name : j \in DOMAIN run.implementations})'
    BY <1>1, <2>1 DEF HasSamples, LineOf
  <2>3. ASSUME NEW j \in DOMAIN run.implementations
        PROVE  (LET i == run.implementations[j]
                    got == samples[i.name]
                IN  /\ j < c[1] => got = i.samples
                    /\ j > c[1] => got = <<>>
                    /\ j = c[1] =>
                         /\ IsList(got) /\ Len(got) = c[2]
                         /\ \A k \in 1 .. c[2] - 1 : got[k] = i.samples[k]
                         /\ got[c[2]] = stdout[position - 1].elapsed_ns)'
    BY <1>1, <2>1 DEF HasSamples
  <2>4. HasSamples(c)'
    BY <1>1, <2>2, <2>3 DEF HasSamples
  <2> QED
    BY <1>3, <2>4 DEF Parsed
<1> QED
  BY <1>2, <1>3

LEMMA ParseEndKeeps ==
  ASSUME RunInv, ParseEnd, pc' # "refused"
  PROVE  RunInv'
<1>1. /\ pc = "parse_records" /\ pc' = "accepted" /\ EveryRecordIsComplete
      /\ position > Len(stdout) /\ UNCHANGED <<program, parser>>
  BY DEF ParseEnd
<1>2. /\ run' \in Runs /\ TextInv' /\ LoopsInBounds'
      /\ ~ lost' => NothingIsMissing'
  BY <1>1, PrinterRests DEF Pcs, Printing
<1>3. Len(stdout) \in Nat /\ Len(stdout) >= 3 /\ RecordsInv
  BY <1>1 DEF RunInv, TextInv, IsList, ParseInv
<1>4. position = Len(stdout) + 1
  BY <1>1, <1>3 DEF RecordsInv
<1>5. RecordsInv' /\ EveryRecordIsComplete'
  <2> USE DEF program, parser
  <2>1. EveryRecordIsComplete'
    BY <1>1 DEF EveryRecordIsComplete
  <2>2. PICK c \in Cursors : /\ Arrived(position - 1, LineOf(c))
                             /\ stdout[position - 1] # Malformed
                             /\ Parsed(c)
    BY <1>3, <1>4 DEF RecordsInv
  <2>3. c \in Cursors' /\ Arrived(position - 1, LineOf(c))'
    BY <1>1, <2>2 DEF Cursors, LineOf, Arrived
  <2>4. Parsed(c)'
    BY <1>1, <2>2, ParsedIsKept
  <2>5. /\ position' \in 4 .. Len(stdout') + 1
        /\ (stdout[position - 1])' # Malformed
    BY <1>1, <1>3, <1>4, <2>2
  <2> QED
    BY <2>1, <2>3, <2>4, <2>5 DEF RecordsInv
<1>6. ParseInv'
  BY <1>1, <1>3, <1>4, <1>5 DEF ParseInv, Printing, program, parser
<1> QED
  BY <1>2, <1>6 DEF RunInv

-----------------------------------------------------------------------------
(***************************************************************************)
(* The theorems.                                                           *)
(***************************************************************************)
(* A step that changes nothing keeps what holds.                           *)
LEMMA StutteringKeeps ==
  ASSUME ResultInv, UNCHANGED vars
  PROVE  ResultInv'
<1> USE DEF vars, program, parser
<1>1. ASSUME RunInv
      PROVE  RunInv'
  <2>1. run' \in Runs /\ TextInv'
    BY <1>1, TextKept DEF RunInv
  <2>2. LoopsInBounds'
    BY <1>1 DEF RunInv, LoopsInBounds
  <2>3. ~ lost' => NothingIsMissing'
    BY <1>1 DEF RunInv, NothingIsMissing, Printed, LineOf, Last
  <2>4. RecordsInv => RecordsInv'
    <3>1. NothingIsParsed => NothingIsParsed'
      BY DEF NothingIsParsed
    <3>2. ASSUME NEW c \in Cursors, Arrived(position - 1, LineOf(c)),
                 stdout[position - 1] # Malformed, Parsed(c)
          PROVE  /\ c \in Cursors' /\ Arrived(position - 1, LineOf(c))'
                 /\ (stdout[position - 1])' # Malformed /\ Parsed(c)'
      <4>1. c \in Cursors' /\ Arrived(position - 1, LineOf(c))'
        BY <3>2 DEF Cursors, LineOf, Arrived
      <4>2. Parsed(c)'
        BY <3>2, ParsedIsKept
      <4> QED
        BY <3>2, <4>1, <4>2
    <3> QED
      BY <3>1, <3>2 DEF RecordsInv
  <2>5. ParseInv'
    BY <1>1, <2>4
       DEF RunInv, ParseInv, NothingIsParsed, EveryRecordIsComplete
  <2> QED
    BY <2>1, <2>2, <2>3, <2>5 DEF RunInv
<1>2. ~ foreign /\ pc \notin {"start", "refused"} => RunInv'
  BY <1>1 DEF ResultInv
<1> QED
  BY <1>2 DEF ResultInv, NothingIsParsed

LEMMA NextKeeps ==
  ASSUME ResultInv, [Next]_vars
  PROVE  ResultInv'
<1> USE DEF Pcs, Printing
<1>1. /\ pc \in Pcs /\ lost \in BOOLEAN /\ foreign \in BOOLEAN
      /\ pc = "start" => ~ foreign
      /\ foreign => pc \notin Printing
      /\ ~ foreign /\ pc \notin {"start", "refused"} => RunInv
  BY DEF ResultInv
<1>2. CASE Measure
  BY <1>1, <1>2, MeasureStarts DEF Measure, ResultInv
<1>3. CASE RunForeign
  BY <1>1, <1>3 DEF RunForeign, ResultInv
<1>4. CASE PrintHeader
  BY <1>1, <1>4, PrintHeaderKeeps DEF PrintHeader, ResultInv
<1>5. CASE PrintBenchmark
  BY <1>1, <1>5, PrintBenchmarkKeeps DEF PrintBenchmark, ResultInv
<1>6. CASE PrintImplementation
  <2>1. /\ pc = "print_implementations"
        /\ pc' \in {"print_implementations", "print_samples"}
        /\ lost' = lost /\ foreign' = foreign
    BY <1>6 DEF PrintImplementation
  <2> QED
    BY <1>1, <1>6, <2>1, PrintImplementationKeeps DEF ResultInv
<1>7. CASE PrintSample
  <2>1. /\ pc = "print_samples"
        /\ pc' \in {"print_samples", "parse_header"}
        /\ lost' = lost /\ foreign' = foreign
    BY <1>7 DEF PrintSample
  <2> QED
    BY <1>1, <1>7, <2>1, PrintSampleKeeps DEF ResultInv
<1>8. CASE OutputFails
  BY <1>1, <1>8, OutputFailsKeeps DEF OutputFails, ResultInv
<1>9. CASE Killed
  BY <1>1, <1>9 DEF Killed, ResultInv, program
<1>10. CASE ParseHeader
  <2>1. /\ pc = "parse_header" /\ pc' \in {"parse_benchmark", "refused"}
        /\ lost' = lost /\ foreign' = foreign
    BY <1>10 DEF ParseHeader, Refuse, program
  <2> QED
    BY <1>1, <1>10, <2>1, ParseHeaderKeeps DEF ResultInv
<1>11. CASE ParseBenchmark
  <2>1. /\ pc = "parse_benchmark" /\ pc' \in {"parse_records", "refused"}
        /\ lost' = lost /\ foreign' = foreign
    BY <1>11 DEF ParseBenchmark, Refuse, program
  <2> QED
    BY <1>1, <1>11, <2>1, ParseBenchmarkKeeps DEF ResultInv
<1>12. CASE ParseImplementation
  <2>1. /\ pc = "parse_records" /\ pc' \in {"parse_records", "refused"}
        /\ lost' = lost /\ foreign' = foreign
    BY <1>12 DEF ParseImplementation, Refuse, program
  <2> QED
    BY <1>1, <1>12, <2>1, ParseImplementationKeeps DEF ResultInv
<1>13. CASE ParseSample
  <2>1. /\ pc = "parse_records" /\ pc' \in {"parse_records", "refused"}
        /\ lost' = lost /\ foreign' = foreign
    BY <1>13 DEF ParseSample, Refuse, program
  <2> QED
    BY <1>1, <1>13, <2>1, ParseSampleKeeps DEF ResultInv
<1>14. CASE ParseEnd
  <2>1. /\ pc = "parse_records" /\ pc' \in {"accepted", "refused"}
        /\ lost' = lost /\ foreign' = foreign
    BY <1>14 DEF ParseEnd, program
  <2> QED
    BY <1>1, <1>14, <2>1, ParseEndKeeps DEF ResultInv
<1>15. CASE UNCHANGED vars
  BY <1>15, StutteringKeeps
<1> QED
  BY <1>2, <1>3, <1>4, <1>5, <1>6, <1>7, <1>8, <1>9, <1>10, <1>11, <1>12,
     <1>13, <1>14, <1>15 DEF Next

(* Whatever rct_bench has to print and wherever its output is cut off, the *)
(* pipe holds a beginning of its text, and the parser what the lines it    *)
(* has read say, one record and one sample at a time                       *)
(* (vector_add_bench.c:192-234, benchmark.py:100-173).                     *)
THEOREM ResultInvHolds == Spec => []ResultInv
<1>1. Init => ResultInv
  BY DEF Init, ResultInv, Pcs, Printing, NothingIsParsed
<1>2. ResultInv /\ [Next]_vars => ResultInv'
  BY NextKeeps
<1> QED
  BY <1>1, <1>2, PTL DEF Spec

(* An accepted text of rct_bench is complete: the parser counts a sample   *)
(* of every implementation, and the last one comes last.                   *)
LEMMA AcceptedIsComplete ==
  ASSUME ResultInv, pc = "accepted", ~ foreign
  PROVE  /\ run \in Runs /\ position = Len(stdout) + 1
         /\ Len(stdout) \in Nat /\ Len(stdout) >= 3
         /\ Arrived(position - 1, LineOf(Last))
         /\ stdout[position - 1] # Malformed
         /\ HasSamples(Last)
<1> DEFINE n == Len(run.implementations)
           m == run.measured
           I == run.implementations
<1>1. /\ run \in Runs /\ TextInv /\ RecordsInv
      /\ position = Len(stdout) + 1 /\ EveryRecordIsComplete
  BY DEF ResultInv, RunInv, ParseInv
<1>2. /\ n \in Nat \ {0} /\ m \in Nat \ {0} /\ DOMAIN I = 1 .. n
      /\ Len(stdout) \in Nat
  BY <1>1, RunFacts DEF TextInv, IsList
<1>3. records # <<>>
  BY <1>1 DEF EveryRecordIsComplete
<1>4. /\ position \in 4 .. Len(stdout) + 1
      /\ \E c \in Cursors : /\ Arrived(position - 1, LineOf(c))
                            /\ stdout[position - 1] # Malformed
                            /\ Parsed(c)
  BY <1>1, <1>3 DEF RecordsInv, NothingIsParsed
<1>5. PICK c \in Cursors : /\ Arrived(position - 1, LineOf(c))
                           /\ stdout[position - 1] # Malformed
                           /\ Parsed(c)
  BY <1>4
<1>6. c = <<c[1], c[2]>> /\ c[1] \in 1 .. n /\ c[2] \in 0 .. m
  BY <1>1, CursorFacts
<1>7. c[2] # 0
  <2> SUFFICES ASSUME c[2] = 0 PROVE FALSE
    OBVIOUS
  <2>1. HasRecords(c)
    BY <1>5 DEF Parsed
  <2>2. c[1] \in DOMAIN records /\ records[c[1]] = stdout[position - 1]
    BY <1>6, <2>1 DEF HasRecords, IsList
  <2>3. /\ stdout[position - 1].sample_count # 0
        /\ stdout[position - 1].name = I[c[1]].name
    BY <1>1, <1>5, ArrivedFacts
  <2>4. samples[records[c[1]].name] = <<>>
    BY <1>6, <2>1, <2>2, <2>3 DEF HasRecords
  <2>5. Len(samples[records[c[1]].name]) = records[c[1]].sample_count
    BY <1>1, <2>2 DEF EveryRecordIsComplete
  <2> QED
    BY <2>2, <2>3, <2>4, <2>5, EmptyList
<1>8. HasSamples(c)
  BY <1>5, <1>7 DEF Parsed
<1>9. ASSUME NEW j \in 1 .. n
      PROVE  Len(samples[I[j].name]) = m
  <2>1. j \in DOMAIN records /\ records[j] = LineOf(<<j, 0>>)
    BY <1>2, <1>8 DEF HasSamples, IsList
  <2>2. <<j, 0>> \in Cursors
    BY <1>2 DEF Cursors
  <2>3. records[j].name = I[j].name /\ records[j].sample_count = m
    BY <1>1, <2>1, <2>2, LineFacts
  <2> QED
    BY <1>1, <2>1, <2>3 DEF EveryRecordIsComplete
<1>10. c[1] = n
  <2> SUFFICES ASSUME c[1] # n PROVE FALSE
    OBVIOUS
  <2>1. n \in DOMAIN I /\ n > c[1]
    BY <1>2, <1>6
  <2>2. samples[I[n].name] = <<>>
    BY <1>8, <2>1 DEF HasSamples
  <2> QED
    BY <1>2, <1>9, <2>2, EmptyList
<1>11. c[2] = m
  <2>1. Len(samples[I[c[1]].name]) = c[2]
    BY <1>2, <1>6, <1>8 DEF HasSamples
  <2> QED
    BY <1>6, <1>9, <2>1
<1>12. c = Last
  BY <1>6, <1>10, <1>11 DEF Last
<1> QED
  BY <1>1, <1>2, <1>4, <1>5, <1>8, <1>12

(* No cut-off costs an implementation or a sample, only digits of the last *)
(* one, for any number of them (vector_add_bench.c:275-281,                *)
(* benchmark.py:150-173).                                                  *)
THEOREM CutOffsCostDigitsOnly == Spec => []CutOffCostsNoRecord
<1>1. ASSUME ResultInv
      PROVE  CutOffCostsNoRecord
  <2> SUFFICES ASSUME pc = "accepted", ~ foreign
               PROVE  CutOffCostsNoRecord
    BY DEF CutOffCostsNoRecord
  <2> DEFINE n == Len(run.implementations)
             m == run.measured
             I == run.implementations
  <2>1. /\ run \in Runs /\ position = Len(stdout) + 1
        /\ Len(stdout) \in Nat /\ Len(stdout) >= 3
        /\ Arrived(position - 1, LineOf(Last))
        /\ stdout[position - 1] # Malformed
        /\ HasSamples(Last)
    BY <1>1, AcceptedIsComplete
  <2>2. /\ n \in Nat \ {0} /\ m \in Nat \ {0} /\ DOMAIN I = 1 .. n
        /\ Last \in Cursors /\ Last[1] = n /\ Last[2] = m
    BY <2>1, RunFacts, CursorsFollow DEF Last
  <2>3. /\ DOMAIN records = 1 .. n
        /\ \A j \in 1 .. n : records[j] = LineOf(<<j, 0>>)
    BY <2>1 DEF HasSamples, IsList
  <2>4. DOMAIN Experiment = 1 .. n
    BY <2>3 DEF Experiment
  <2>5. ASSUME NEW i \in 1 .. n
        PROVE  LET got == Experiment[i]
                   printed == I[i]
               IN  /\ [got EXCEPT !.samples = <<>>] =
                        [printed EXCEPT !.samples = <<>>]
                   /\ DOMAIN got.samples = DOMAIN printed.samples
                   /\ \A k \in DOMAIN got.samples :
                        \/ got.samples[k] = printed.samples[k]
                        \/ /\ lost
                           /\ i = n
                           /\ k = m
                           /\ got.samples[k] \in
                                Beginnings(printed.samples[k])
    <3> DEFINE printed == I[i]
               list == samples[printed.name]
    <3>1. <<i, 0>> \in Cursors /\ i \in DOMAIN I
      BY <2>2 DEF Cursors
    <3>2. /\ records[i].name = printed.name
          /\ records[i].valid = printed.valid
          /\ records[i].summary = printed.summary
      BY <2>1, <2>3, <3>1, LineFacts
    <3>3. Experiment[i] = [name |-> printed.name, valid |-> printed.valid,
                           summary |-> printed.summary, samples |-> list]
      BY <2>3, <3>2 DEF Experiment
    <3>4. /\ printed = [name |-> printed.name, valid |-> printed.valid,
                        summary |-> printed.summary,
                        samples |-> printed.samples]
          /\ DOMAIN printed.samples = 1 .. m
      BY <2>1, <3>1, RunFacts
    <3>5. CASE i # n
      <4>1. i < Last[1]
        BY <2>2, <3>5
      <4>2. list = printed.samples
        BY <2>1, <3>1, <4>1 DEF HasSamples
      <4> QED
        BY <3>3, <3>4, <4>2
    <3>6. CASE i = n
      <4>1. /\ IsList(list) /\ Len(list) = m
            /\ \A k \in 1 .. m - 1 : list[k] = printed.samples[k]
            /\ list[m] = stdout[position - 1].elapsed_ns
        BY <2>1, <2>2, <3>1, <3>6 DEF HasSamples
      <4>2. DOMAIN list = 1 .. m
        BY <4>1 DEF IsList
      <4>3. LineOf(Last).elapsed_ns = printed.samples[m]
        BY <2>1, <2>2, <3>6, LineFacts
      <4>4. \/ list[m] = printed.samples[m]
            \/ lost /\ list[m] \in Beginnings(printed.samples[m])
        BY <2>1, <2>2, <4>1, <4>3, ArrivedFacts
      <4>5. \A k \in 1 .. m : k # m => k \in 1 .. m - 1
        BY <2>2
      <4> HIDE DEF list
      <4> QED
        BY <3>3, <3>4, <3>6, <4>1, <4>2, <4>4, <4>5
    <3> QED
      BY <3>5, <3>6
  <2> QED
    BY <2>2, <2>4, <2>5 DEF CutOffCostsNoRecord
<1> QED
  BY <1>1, ResultInvHolds, PTL

(* The records the parser has of the implementations are found by name.    *)
LEMMA KnownRecords ==
  ASSUME run \in Runs, IsList(records),
         Len(records) <= Len(run.implementations),
         \A j \in DOMAIN records : records[j] = LineOf(<<j, 0>>)
  PROVE  /\ Known = {run.implementations[j].name : j \in 1 .. Len(records)}
         /\ \A j \in 1 .. Len(records) :
              CountOf(run.implementations[j].name) = run.measured
<1> DEFINE I == run.implementations
           k == Len(records)
<1>1. k \in Nat /\ DOMAIN records = 1 .. k
  BY DEF IsList
<1>2. ASSUME NEW j \in 1 .. k
      PROVE  j \in DOMAIN I /\ <<j, 0>> \in Cursors
  <2>1. /\ DOMAIN I = 1 .. Len(I) /\ Len(I) \in Nat
        /\ run.measured \in Nat /\ k <= Len(I)
    BY RunFacts
  <2>2. j \in DOMAIN I
    BY <1>1, <2>1
  <2> QED
    BY <2>1, <2>2 DEF Cursors
<1>3. ASSUME NEW j \in 1 .. k
      PROVE  /\ records[j].name = I[j].name
             /\ records[j].sample_count = run.measured
  <2>1. records[j] = LineOf(<<j, 0>>) /\ <<j, 0>> \in Cursors
    BY <1>1, <1>2
  <2> QED
    BY <2>1, LineFacts
<1>4. Known = {I[j].name : j \in 1 .. k}
  BY <1>1, <1>3 DEF Known
<1>5. ASSUME NEW j \in 1 .. k
      PROVE  CountOf(I[j].name) = run.measured
  <2>1. \E i \in DOMAIN records : records[i].name = I[j].name
    BY <1>1, <1>3
  <2> DEFINE i == CHOOSE i \in DOMAIN records : records[i].name = I[j].name
  <2>2. i \in DOMAIN records
    BY <2>1
  <2>3. records[i].sample_count = run.measured
    <3> HIDE DEF i
    <3> QED
      BY <1>1, <1>3, <2>2
  <2> QED
    BY <2>3 DEF CountOf
<1> QED
  BY <1>4, <1>5

(* Without a failing output, neither branch of the loop refuses a line.    *)
LEMMA RecordIsTaken ==
  ASSUME RunInv, ~ lost, ParseImplementation
  PROVE  pc' # "refused"
<1> DEFINE I == run.implementations
<1>1. /\ pc = "parse_records" /\ position <= Len(stdout) /\ run \in Runs
      /\ Line.type = "implementation"
  BY DEF ParseImplementation, RunInv
<1>2. PICK e \in Cursors : /\ Arrived(position, LineOf(e))
                           /\ e[2] = 0 => BeforeRecord(e)
                           /\ e[2] # 0 => BeforeSample(e)
  BY <1>1, NextLine
<1>3. Line = LineOf(e)
  BY <1>2 DEF Arrived, Line
<1>4. e[2] = 0 /\ Line.name = I[e[1]].name /\ BeforeRecord(e)
  BY <1>1, <1>2, <1>3, LineFacts
<1>5. e[1] \in 1 .. Len(I) /\ Len(I) \in Nat /\ DOMAIN I = 1 .. Len(I)
  BY <1>1, CursorFacts, RunFacts
<1>6. /\ IsList(records) /\ Len(records) = e[1] - 1
      /\ Len(records) <= Len(I)
      /\ \A j \in DOMAIN records : records[j] = LineOf(<<j, 0>>)
  BY <1>4, <1>5 DEF BeforeRecord, IsList
<1>7. Known = {I[j].name : j \in 1 .. e[1] - 1}
  BY <1>1, <1>6, KnownRecords
<1>8. Line.name \notin Known
  <2>1. ASSUME NEW j \in 1 .. e[1] - 1
        PROVE  I[j].name # I[e[1]].name
    <3>1. j \in DOMAIN I /\ e[1] \in DOMAIN I /\ j # e[1]
      BY <1>5
    <3> QED
      BY <1>1, <3>1, RunFacts
  <2> QED
    BY <1>4, <1>7, <2>1
<1> QED
  BY <1>1, <1>4, <1>8 DEF ParseImplementation, ImplementationIsValid,
                          BeforeRecord

LEMMA SampleIsTaken ==
  ASSUME RunInv, ~ lost, ParseSample
  PROVE  pc' # "refused"
<1> DEFINE I == run.implementations
           n == Len(run.implementations)
<1>1. /\ pc = "parse_records" /\ position <= Len(stdout) /\ run \in Runs
      /\ Line.type # "implementation"
  BY DEF ParseSample, RunInv
<1>2. PICK e \in Cursors : /\ Arrived(position, LineOf(e))
                           /\ e[2] = 0 => BeforeRecord(e)
                           /\ e[2] # 0 => BeforeSample(e)
  BY <1>1, NextLine
<1>3. Line = LineOf(e)
  BY <1>2 DEF Arrived, Line
<1>4. /\ e[2] # 0 /\ BeforeSample(e)
      /\ Line.type = "sample" /\ Line.name = I[e[1]].name
      /\ Line.index = e[2] - 1
  BY <1>1, <1>2, <1>3, LineFacts
<1>5. /\ e[1] \in 1 .. n /\ e[2] \in 1 .. run.measured
      /\ n \in Nat /\ run.measured \in Nat /\ DOMAIN I = 1 .. n
  BY <1>1, <1>4, CursorFacts, RunFacts
<1>6. /\ IsList(records) /\ Len(records) = n
      /\ \A j \in DOMAIN records : records[j] = LineOf(<<j, 0>>)
  BY <1>4, <1>5 DEF BeforeSample, IsList
<1>7. /\ Line.name \in Known
      /\ CountOf(Line.name) = run.measured
  BY <1>1, <1>4, <1>5, <1>6, KnownRecords
<1>8. Len(samples[Line.name]) = e[2] - 1
  BY <1>4, <1>5 DEF BeforeSample
<1>9. SampleIsValid
  BY <1>4, <1>5, <1>7, <1>8 DEF SampleIsValid
<1> QED
  BY <1>1, <1>9 DEF ParseSample

LEMMA EndIsAccepted ==
  ASSUME RunInv, ~ lost, ParseEnd
  PROVE  pc' # "refused"
<1> DEFINE I == run.implementations
           n == Len(run.implementations)
           m == run.measured
<1>1. /\ pc = "parse_records" /\ position > Len(stdout) /\ run \in Runs
      /\ RecordsInv /\ Len(stdout) >= 3 /\ Len(stdout) \in Nat
      /\ NothingIsMissing
  BY DEF ParseEnd, RunInv, ParseInv, TextInv, IsList
<1>2. /\ position \in 4 .. Len(stdout) + 1
      /\ \E c \in Cursors : /\ Arrived(position - 1, LineOf(c))
                            /\ stdout[position - 1] # Malformed
                            /\ Parsed(c)
  BY <1>1 DEF RecordsInv
<1>3. position - 1 = Len(stdout)
  BY <1>1, <1>2
<1>4. PICK c \in Cursors : Arrived(position - 1, LineOf(c)) /\ Parsed(c)
  BY <1>2
<1>5. stdout[Len(stdout)] = LineOf(c)
  BY <1>3, <1>4 DEF Arrived
<1>6. stdout[Len(stdout)] = LineOf(Last)
  BY <1>1 DEF NothingIsMissing, Printed
<1>7. c = Last
  BY <1>1, <1>5, <1>6, CursorsFollow, LinesAreDistinct
<1>8. /\ n \in Nat \ {0} /\ m \in Nat \ {0} /\ DOMAIN I = 1 .. n
      /\ Last[1] = n /\ Last[2] = m
  BY <1>1, RunFacts DEF Last
<1>9. HasSamples(Last)
  BY <1>4, <1>7, <1>8 DEF Parsed
<1>10. DOMAIN records = 1 .. n /\ records # <<>>
  BY <1>8, <1>9, EmptyList DEF HasSamples, IsList
<1>11. ASSUME NEW j \in 1 .. n
       PROVE  Len(samples[records[j].name]) = records[j].sample_count
  <2>1. records[j] = LineOf(<<j, 0>>)
    BY <1>9, <1>10 DEF HasSamples
  <2>2. <<j, 0>> \in Cursors
    BY <1>8 DEF Cursors
  <2>3. records[j].name = I[j].name /\ records[j].sample_count = m
    BY <1>1, <2>1, <2>2, LineFacts
  <2>4. CASE j = n
    BY <1>8, <1>9, <2>3, <2>4 DEF HasSamples
  <2>5. CASE j # n
    <3>1. j \in DOMAIN I /\ j < Last[1]
      BY <1>8, <2>5
    <3>2. samples[I[j].name] = I[j].samples
      BY <1>9, <3>1 DEF HasSamples
    <3> QED
      BY <1>1, <2>3, <3>1, <3>2, RunFacts
  <2> QED
    BY <2>4, <2>5
<1>12. EveryRecordIsComplete
  BY <1>10, <1>11 DEF EveryRecordIsComplete
<1> QED
  BY <1>12 DEF ParseEnd

(* A text of rct_bench that all arrived is never refused, for any number   *)
(* of implementations and samples (vector_add_bench.c:192-234,             *)
(* benchmark.py:100-173).                                                  *)
THEOREM WholeTextIsAccepted == Spec => CompleteOutputIsAccepted
<1>1. ASSUME ResultInv, [Next]_vars
      PROVE  [pc' = "refused" /\ pc \notin Printing /\ ~ foreign => lost]_vars
  <2> SUFFICES ASSUME Next, pc' = "refused", pc \notin Printing, ~ foreign,
                      ~ lost
               PROVE  FALSE
    BY <1>1
  <2>1. pc # "refused" /\ (pc # "start" => RunInv)
    <3>1. pc # "refused"
      BY DEF Next, Measure, RunForeign, PrintHeader, PrintBenchmark,
             PrintImplementation, PrintSample, OutputFails, Killed, Printing,
             ParseHeader, ParseBenchmark, ParseImplementation, ParseSample,
             ParseEnd
    <3> QED
      BY <1>1, <3>1 DEF ResultInv
  <2>2. CASE Measure \/ RunForeign
    BY <2>2 DEF Measure, RunForeign
  <2>3. CASE PrintHeader \/ PrintBenchmark \/ PrintImplementation
             \/ PrintSample \/ OutputFails \/ Killed
    BY <2>3 DEF PrintHeader, PrintBenchmark, PrintImplementation, PrintSample,
                OutputFails, Killed, Printing
  <2>4. CASE ParseHeader
    <3>1. pc = "parse_header" /\ (Len(stdout) < 3 \/ stdout[1] # Header)
      BY <2>4 DEF ParseHeader
    <3>2. TextInv /\ NothingIsMissing /\ Len(stdout) \in Nat
      BY <2>1, <3>1 DEF RunInv, TextInv, IsList
    <3>3. Len(stdout) >= 3
      BY <3>1, <3>2 DEF NothingIsMissing
    <3>4. stdout[1] = Header
      BY <3>2, <3>3 DEF TextInv, Arrived
    <3> QED
      BY <3>1, <3>2, <3>3, <3>4
  <2>5. CASE ParseBenchmark
    <3>1. pc = "parse_benchmark" /\ Line.type # "benchmark"
      BY <2>5 DEF ParseBenchmark
    <3>2. TextInv /\ ParseInv
      BY <2>1, <3>1 DEF RunInv
    <3>3. position = 2 /\ Len(stdout) >= 3 /\ Len(stdout) \in Nat
      BY <3>1, <3>2 DEF ParseInv, TextInv, IsList
    <3>4. Line = Benchmark(run.measured)
      BY <3>2, <3>3 DEF TextInv, Arrived, Line
    <3> QED
      BY <3>1, <3>4 DEF Benchmark
  <2>6. CASE ParseImplementation
    BY <2>1, <2>6, RecordIsTaken DEF ParseImplementation
  <2>7. CASE ParseSample
    BY <2>1, <2>7, SampleIsTaken DEF ParseSample
  <2>8. CASE ParseEnd
    BY <2>1, <2>8, EndIsAccepted DEF ParseEnd
  <2> QED
    BY <2>2, <2>3, <2>4, <2>5, <2>6, <2>7, <2>8 DEF Next
<1> QED
  BY <1>1, ResultInvHolds, PTL DEF Spec, CompleteOutputIsAccepted

-----------------------------------------------------------------------------
(***************************************************************************)
(* Any text: what the parser has made of the lines it has read decides     *)
(* whether they can be the beginning of a well-formed one.                 *)
(***************************************************************************)

LEMMA SamplesAreFinite ==
  ASSUME NEW text, NEW name, NEW first \in Int, NEW last \in Int
  PROVE  /\ IsFiniteSet(SamplesOf(text, name, first, last))
         /\ Cardinality(SamplesOf(text, name, first, last)) \in Nat
<1>1. IsFiniteSet(first .. last)
  BY FS_Interval
<1>2. SamplesOf(text, name, first, last) \in SUBSET (first .. last)
  BY DEF SamplesOf
<1> QED
  BY <1>1, <1>2, FS_Subset, FS_CardinalityType

LEMMA NoSamples ==
  ASSUME NEW text, NEW name, NEW first \in Int, NEW last \in Int, last < first
  PROVE  Cardinality(SamplesOf(text, name, first, last)) = 0
<1>1. SamplesOf(text, name, first, last) = {}
  BY DEF SamplesOf
<1> QED
  BY <1>1, FS_EmptySet

(* A line counts as a sample of the implementation it names only.          *)
LEMMA OneMoreSample ==
  ASSUME NEW text, NEW name, NEW first \in Int, NEW p \in Int, first <= p
  PROVE  Cardinality(SamplesOf(text, name, first, p)) =
           Cardinality(SamplesOf(text, name, first, p - 1)) +
             IF text[p].type = "sample" /\ text[p].name = name THEN 1 ELSE 0
<1> DEFINE before == SamplesOf(text, name, first, p - 1)
           after == SamplesOf(text, name, first, p)
<1>1. IsFiniteSet(before) /\ Cardinality(before) \in Nat
  BY SamplesAreFinite
<1>2. CASE text[p].type = "sample" /\ text[p].name = name
  <2>1. after = before \cup {p} /\ p \notin before
    BY <1>2 DEF SamplesOf
  <2>2. Cardinality(before \cup {p}) = Cardinality(before) + 1
    <3> HIDE DEF before
    <3> QED
      BY <1>1, <2>1, FS_AddElement
  <2> QED
    BY <1>2, <2>1, <2>2
<1>3. CASE ~ (text[p].type = "sample" /\ text[p].name = name)
  <2>1. after = before
    BY <1>3 DEF SamplesOf
  <2> QED
    BY <1>1, <1>3, <2>1
<1> QED
  BY <1>2, <1>3

LEMMA NoFewerSamples ==
  ASSUME NEW text, NEW name, NEW first \in Int, NEW p \in Int, NEW q \in Int,
         p <= q
  PROVE  Cardinality(SamplesOf(text, name, first, p)) <=
           Cardinality(SamplesOf(text, name, first, q))
<1>1. IsFiniteSet(SamplesOf(text, name, first, q))
  BY SamplesAreFinite
<1>2. SamplesOf(text, name, first, p) \in
        SUBSET SamplesOf(text, name, first, q)
  BY DEF SamplesOf
<1> QED
  BY <1>1, <1>2, FS_Subset

(* What is known of the lines read.                                        *)
LEMMA ScannedFacts ==
  ASSUME Scanned, Len(stdout) \in Nat
  PROVE  /\ Len(records) \in Nat /\ DOMAIN records = 1 .. Len(records)
         /\ FirstSample = Len(records) + 3 /\ FirstSample \in Nat
         /\ position \in Nat
         /\ FirstSample <= position /\ position <= Len(stdout) + 1
         /\ \A p \in 3 .. FirstSample - 1 :
              /\ p - 2 \in DOMAIN records /\ records[p - 2] = stdout[p]
              /\ stdout[p].type = "implementation"
              /\ stdout[p].name \in Known
         /\ \A name \in Known : \E p \in 3 .. FirstSample - 1 :
              stdout[p].name = name /\ CountOf(name) = stdout[p].sample_count
<1>1. /\ Len(records) \in Nat /\ DOMAIN records = 1 .. Len(records)
      /\ position \in FirstSample .. Len(stdout) + 1
      /\ \A i \in DOMAIN records : /\ records[i] = stdout[i + 2]
                                   /\ records[i].type = "implementation"
      /\ \A i, j \in DOMAIN records :
           records[i].name = records[j].name => i = j
  BY DEF Scanned, IsList
<1>2. FirstSample = Len(records) + 3 /\ FirstSample \in Nat
  BY <1>1 DEF FirstSample
<1>3. ASSUME NEW p \in 3 .. FirstSample - 1
      PROVE  /\ p - 2 \in DOMAIN records /\ records[p - 2] = stdout[p]
             /\ stdout[p].type = "implementation"
             /\ stdout[p].name \in Known
  <2>1. PICK i \in DOMAIN records : i = p - 2 /\ i + 2 = p
    BY <1>1, <1>2
  <2>2. records[i] = stdout[p] /\ stdout[p].type = "implementation"
    BY <1>1, <2>1
  <2> QED
    BY <2>1, <2>2 DEF Known
<1>4. ASSUME NEW name \in Known
      PROVE  \E p \in 3 .. FirstSample - 1 :
               stdout[p].name = name /\ CountOf(name) = stdout[p].sample_count
  <2>1. PICK i \in DOMAIN records : records[i].name = name
    BY DEF Known
  <2> DEFINE j == CHOOSE j \in DOMAIN records : records[j].name = name
  <2>2. j \in DOMAIN records /\ records[j].name = name
    BY <2>1
  <2>3. CountOf(name) = records[i].sample_count
    <3>1. CountOf(name) = records[j].sample_count
      BY DEF CountOf
    <3> HIDE DEF j
    <3>2. i = j
      BY <1>1, <2>1, <2>2
    <3> QED
      BY <3>1, <3>2
  <2>4. i + 2 \in 3 .. FirstSample - 1 /\ stdout[i + 2] = records[i]
    BY <1>1, <1>2, <2>1
  <2> QED
    BY <2>1, <2>3, <2>4
<1> QED
  BY <1>1, <1>2, <1>3, <1>4

(* The parser's first sample is that of any reading of the text as a       *)
(* well-formed one, as soon as it is behind the records of that reading.   *)
LEMMA RecordsEndWhereRead ==
  ASSUME Scanned, Len(stdout) \in Nat,
         NEW last \in 3 .. Len(stdout), last < position,
         HeadsAreDistinct(stdout, last), SamplesAreCounted(stdout, last)
  PROVE  last = FirstSample - 1
<1>1. ASSUME last >= FirstSample
      PROVE  FALSE
  <2>1. FirstSample \in FirstSample .. position - 1
    BY <1>1, ScannedFacts
  <2>2. stdout[FirstSample].type = "sample"
    BY <2>1 DEF Scanned
  <2>3. FirstSample \in 3 .. last
    BY <1>1, ScannedFacts
  <2>4. stdout[FirstSample].type = "implementation"
    BY <2>3 DEF HeadsAreDistinct
  <2> QED
    BY <2>2, <2>4
<1>2. ASSUME last < FirstSample - 1
      PROVE  FALSE
  <2>1. last + 1 \in 3 .. FirstSample - 1
    BY <1>2, ScannedFacts
  <2>2. stdout[last + 1].type = "implementation"
    BY <2>1, ScannedFacts
  <2>3. last + 1 \in last + 1 .. Len(stdout)
    BY <1>2, ScannedFacts
  <2>4. stdout[last + 1].type = "sample"
    BY <2>3 DEF SamplesAreCounted, SamplesOf
  <2> QED
    BY <2>2, <2>4
<1> QED
  BY <1>1, <1>2, ScannedFacts

(* What is accepted is well formed.                                        *)
LEMMA AcceptedIsWellFormed ==
  ASSUME Scanned, EveryRecordIsComplete, position = Len(stdout) + 1,
         Len(stdout) \in Nat, Len(stdout) >= 3, stdout[1] = Header,
         stdout[2].type = "benchmark"
  PROVE  WellFormed(stdout)
<1> DEFINE last == FirstSample - 1
<1>1. last \in 3 .. Len(stdout)
  <2>1. Len(records) # 0
    <3>1. CASE Len(records) = 0
      <4>1. records = <<>>
        BY <3>1, EmptyList, ListsAreEqual DEF Scanned
      <4> QED
        BY <4>1 DEF EveryRecordIsComplete
    <3> QED
      BY <3>1
  <2> QED
    BY <2>1, ScannedFacts
<1>2. HeadsAreDistinct(stdout, last)
  <2>1. ASSUME NEW p \in 3 .. last, NEW q \in 3 .. last, p # q
        PROVE  stdout[p].name # stdout[q].name
    <3>1. /\ p - 2 \in DOMAIN records /\ records[p - 2] = stdout[p]
          /\ q - 2 \in DOMAIN records /\ records[q - 2] = stdout[q]
      BY ScannedFacts
    <3>2. p - 2 # q - 2
      BY <2>1
    <3> QED
      BY <3>1, <3>2 DEF Scanned
  <2>2. \A p \in 3 .. last : stdout[p].type = "implementation"
    BY ScannedFacts
  <2> QED
    BY <2>1, <2>2 DEF HeadsAreDistinct
<1>3. SamplesAreCounted(stdout, last)
  <2>1. last + 1 = FirstSample /\ Len(stdout) = position - 1
    BY ScannedFacts
  <2>2. ASSUME NEW p \in last + 1 .. Len(stdout)
        PROVE  \E q \in 3 .. last :
                 p \in SamplesOf(stdout, stdout[q].name, p, p)
    <3>1. stdout[p].type = "sample" /\ stdout[p].name \in Known
      BY <2>1 DEF Scanned
    <3>2. PICK q \in 3 .. last : stdout[q].name = stdout[p].name
      BY <3>1, ScannedFacts
    <3> QED
      BY <2>1, <3>1, <3>2, ScannedFacts DEF SamplesOf
  <2>3. ASSUME NEW q \in 3 .. last
        PROVE  LET Own(p) == SamplesOf(stdout, stdout[q].name, last + 1, p)
               IN  /\ Cardinality(Own(Len(stdout))) = stdout[q].sample_count
                   /\ \A p \in Own(Len(stdout)) :
                        stdout[p].index = Cardinality(Own(p - 1))
    <3>1. /\ q - 2 \in DOMAIN records /\ records[q - 2] = stdout[q]
          /\ stdout[q].name \in Known
      BY ScannedFacts
    <3>2. Len(samples[stdout[q].name]) = stdout[q].sample_count
      BY <3>1 DEF EveryRecordIsComplete
    <3>3. Len(samples[stdout[q].name]) =
            Cardinality(SamplesOf(stdout, stdout[q].name, last + 1,
                                  Len(stdout)))
      BY <2>1, <3>1 DEF Scanned
    <3>4. ASSUME NEW p \in SamplesOf(stdout, stdout[q].name, last + 1,
                                     Len(stdout))
          PROVE  stdout[p].index =
                   Cardinality(SamplesOf(stdout, stdout[q].name, last + 1,
                                         p - 1))
      <4>1. p \in FirstSample .. position - 1
            /\ stdout[p].name = stdout[q].name
        BY <2>1 DEF SamplesOf
      <4> QED
        BY <2>1, <4>1 DEF Scanned
    <3> QED
      BY <3>2, <3>3, <3>4
  <2> QED
    BY <2>2, <2>3 DEF SamplesAreCounted
<1> QED
  BY <1>1, <1>2, <1>3 DEF WellFormed

(* A record that is refused is out of place or the second of its name.     *)
LEMMA RefusedRecord ==
  ASSUME Scanned, Len(stdout) \in Nat, position <= Len(stdout),
         Line.type = "implementation", ~ ImplementationIsValid
  PROVE  ~ WellFormed(stdout)
<1> SUFFICES ASSUME NEW last \in 3 .. Len(stdout),
                    HeadsAreDistinct(stdout, last),
                    SamplesAreCounted(stdout, last)
             PROVE  FALSE
  BY DEF WellFormed
<1>1. position \in 3 .. last
  <2>1. CASE position > last
    <3>1. position \in last + 1 .. Len(stdout)
      BY <2>1, ScannedFacts
    <3> QED
      BY <3>1 DEF SamplesAreCounted, SamplesOf, Line
  <2> QED
    BY <2>1, ScannedFacts
<1>2. CASE parsing_samples
  <2>1. FirstSample \in FirstSample .. position - 1
        /\ FirstSample \in 3 .. last
    BY <1>1, <1>2, ScannedFacts DEF Scanned
  <2> QED
    BY <2>1 DEF Scanned, HeadsAreDistinct
<1>3. CASE Line.name \in Known
  <2>1. PICK p \in 3 .. FirstSample - 1 : stdout[p].name = Line.name
    BY <1>3, ScannedFacts
  <2>2. p \in 3 .. last /\ p # position
    BY <1>1, ScannedFacts
  <2> QED
    BY <1>1, <2>1, <2>2 DEF HeadsAreDistinct, Line
<1> QED
  BY <1>2, <1>3 DEF ImplementationIsValid

(* A sample that is refused is not the next one of any implementation.     *)
LEMMA RefusedSample ==
  ASSUME Scanned, Len(stdout) \in Nat, position <= Len(stdout),
         Line.type # "implementation", ~ SampleIsValid
  PROVE  ~ WellFormed(stdout)
<1> SUFFICES ASSUME NEW last \in 3 .. Len(stdout),
                    HeadsAreDistinct(stdout, last),
                    SamplesAreCounted(stdout, last)
             PROVE  FALSE
  BY DEF WellFormed
<1>1. position \in last + 1 .. Len(stdout)
  <2>1. CASE position <= last
    <3>1. position \in 3 .. last
      BY <2>1, ScannedFacts
    <3> QED
      BY <3>1 DEF HeadsAreDistinct, Line
  <2> QED
    BY <2>1, ScannedFacts
<1>2. last = FirstSample - 1
  BY <1>1, RecordsEndWhereRead
<1>3. PICK q \in 3 .. last : Line.type = "sample" /\ Line.name = stdout[q].name
  BY <1>1 DEF SamplesAreCounted, SamplesOf, Line
<1> DEFINE name == Line.name
           Own(p) == SamplesOf(stdout, name, FirstSample, p)
<1>4. name \in Known
  BY <1>2, <1>3, ScannedFacts
<1>5. PICK h \in 3 .. last :
        stdout[h].name = name /\ CountOf(name) = stdout[h].sample_count
  BY <1>2, <1>4, ScannedFacts
<1>6. last + 1 = FirstSample
  BY <1>2, ScannedFacts
<1>7. Cardinality(Own(Len(stdout))) = CountOf(name)
  BY <1>5, <1>6 DEF SamplesAreCounted
<1>8. Len(samples[name]) = Cardinality(Own(position - 1))
  BY <1>4 DEF Scanned
<1>9. position \in Own(Len(stdout))
  BY <1>1, <1>3, <1>6 DEF SamplesOf, Line
<1>10. Line.index = Len(samples[name])
  <2>1. Line.index = Cardinality(Own(position - 1))
    BY <1>5, <1>6, <1>9 DEF SamplesAreCounted, Line
  <2> QED
    BY <1>8, <2>1
<1>11. Len(samples[name]) < CountOf(name)
  <2>1. /\ position \in Int /\ FirstSample \in Int /\ FirstSample <= position
        /\ position <= Len(stdout)
    BY ScannedFacts
  <2>2. Cardinality(Own(position)) = Cardinality(Own(position - 1)) + 1
    BY <1>3, <2>1, OneMoreSample DEF Line
  <2>3. Cardinality(Own(position)) <= Cardinality(Own(Len(stdout)))
    BY <2>1, NoFewerSamples
  <2>4. /\ Cardinality(Own(position - 1)) \in Nat
        /\ Cardinality(Own(Len(stdout))) \in Nat
    BY <2>1, SamplesAreFinite
  <2> HIDE DEF Own, name
  <2> QED
    BY <1>7, <1>8, <2>2, <2>3, <2>4
<1> QED
  BY <1>3, <1>4, <1>10, <1>11 DEF SampleIsValid

(* A text refused at its end lacks a record or a sample.                   *)
LEMMA RefusedEnd ==
  ASSUME Scanned, Len(stdout) \in Nat, position > Len(stdout),
         ~ EveryRecordIsComplete
  PROVE  ~ WellFormed(stdout)
<1> SUFFICES ASSUME NEW last \in 3 .. Len(stdout),
                    HeadsAreDistinct(stdout, last),
                    SamplesAreCounted(stdout, last)
             PROVE  FALSE
  BY DEF WellFormed
<1>1. last < position /\ Len(stdout) = position - 1
  BY ScannedFacts
<1>2. last = FirstSample - 1 /\ last + 1 = FirstSample
  BY <1>1, RecordsEndWhereRead, ScannedFacts
<1>3. records # <<>>
  BY <1>2, EmptyList, ScannedFacts
<1>4. ASSUME NEW i \in DOMAIN records
      PROVE  Len(samples[records[i].name]) = records[i].sample_count
  <2>1. i + 2 \in 3 .. last /\ records[i] = stdout[i + 2]
    <3>1. records[i] = stdout[i + 2]
      BY DEF Scanned
    <3>2. i + 2 \in 3 .. last
      BY <1>2, ScannedFacts
    <3> QED
      BY <3>1, <3>2
  <2>2. records[i].name \in Known
    BY DEF Known
  <2>3. Len(samples[records[i].name]) =
          Cardinality(SamplesOf(stdout, records[i].name, last + 1,
                                Len(stdout)))
    BY <1>1, <1>2, <2>2 DEF Scanned
  <2> QED
    BY <2>1, <2>3 DEF SamplesAreCounted
<1> QED
  BY <1>3, <1>4 DEF EveryRecordIsComplete

LEMMA TextHasLength ==
  ASSUME ResultInv, ScanInv, pc \notin {"start", "refused"}
  PROVE  Len(stdout) \in Nat
<1>1. CASE foreign
  BY <1>1, LenProperties DEF ScanInv
<1>2. CASE ~ foreign
  BY <1>2 DEF ResultInv, RunInv, TextInv, IsList
<1> QED
  BY <1>1, <1>2

(* Until the parser starts nothing is read.                                *)
LEMMA PrinterScansNothing ==
  ASSUME ResultInv, ScanInv,
         \/ Measure \/ RunForeign \/ PrintHeader \/ PrintBenchmark
         \/ PrintImplementation \/ PrintSample \/ OutputFails \/ Killed
  PROVE  ScanInv'
<1> USE DEF Printing
<1>1. /\ pc \in {"start"} \cup Printing
      /\ position = 1 /\ NothingIsParsed
      /\ ~ foreign
      /\ UNCHANGED parser
  BY DEF ResultInv, ScanInv, Measure, RunForeign, PrintHeader,
         PrintBenchmark, PrintImplementation, PrintSample, OutputFails, Killed
<1>2. position' = 1 /\ NothingIsParsed'
  BY <1>1 DEF NothingIsParsed, parser
<1>3. \/ /\ pc' \in {"parse_header"} \cup Printing
         /\ foreign' => stdout' \in Seq(ForeignLine)
      \/ pc' = "refused" /\ ~ foreign'
  <2>1. CASE RunForeign
    BY <2>1, ForeignTextsAssumption DEF RunForeign
  <2>2. CASE ~ RunForeign
    BY <1>1, <2>2
       DEF Measure, PrintHeader, PrintBenchmark, PrintImplementation,
           PrintSample, OutputFails, Killed, program
  <2> QED
    BY <2>1, <2>2
<1> QED
  BY <1>2, <1>3 DEF ScanInv, AcceptsWellFormed

LEMMA HeaderScanned ==
  ASSUME ResultInv, ScanInv, ParseHeader \/ ParseBenchmark
  PROVE  ScanInv'
<1>1. /\ pc \in {"parse_header", "parse_benchmark"}
      /\ UNCHANGED program
  BY DEF ParseHeader, ParseBenchmark
<1>2. stdout' = stdout /\ foreign' = foreign /\ Len(stdout) \in Nat
  BY <1>1, TextHasLength DEF program
<1>3. CASE ParseHeader
  <2>1. CASE Len(stdout) < 3 \/ stdout[1] # Header
    <3>1. pc' = "refused"
      BY <1>3, <2>1 DEF ParseHeader, Refuse
    <3>2. ~ WellFormed(stdout)
      BY <1>2, <2>1 DEF WellFormed
    <3> QED
      BY <1>2, <3>1, <3>2 DEF ScanInv, AcceptsWellFormed, Printing
  <2>2. CASE ~ (Len(stdout) < 3 \/ stdout[1] # Header)
    <3>1. /\ pc = "parse_header" /\ pc' = "parse_benchmark" /\ position' = 2
          /\ UNCHANGED <<records, samples, parsing_samples>>
      BY <1>3, <2>2 DEF ParseHeader
    <3> QED
      BY <1>2, <2>2, <3>1
         DEF ScanInv, AcceptsWellFormed, Printing, NothingIsParsed, Header
  <2> QED
    BY <2>1, <2>2
<1>4. CASE ParseBenchmark
  <2>1. pc = "parse_benchmark" /\ position = 2 /\ NothingIsParsed
        /\ Len(stdout) >= 3 /\ stdout[1] = Header
    BY <1>4 DEF ParseBenchmark, ScanInv
  <2>2. CASE Line.type # "benchmark"
    <3>1. pc' = "refused"
      BY <1>4, <2>2 DEF ParseBenchmark, Refuse
    <3>2. ~ WellFormed(stdout)
      BY <2>1, <2>2 DEF WellFormed, Line
    <3> QED
      BY <1>2, <3>1, <3>2 DEF ScanInv, AcceptsWellFormed, Printing
  <2>3. CASE Line.type = "benchmark"
    <3>1. /\ pc' = "parse_records" /\ position' = 3
          /\ UNCHANGED <<records, samples, parsing_samples>>
      BY <1>4, <2>3 DEF ParseBenchmark
    <3>2. /\ records' = <<>> /\ samples' = <<>> /\ ~ parsing_samples'
      BY <2>1, <3>1 DEF NothingIsParsed
    <3>3. FirstSample' = 3 /\ Known' = {}
      BY <3>2, EmptyList DEF FirstSample, Known
    <3>4. Scanned'
      BY <1>2, <2>1, <3>1, <3>2, <3>3, EmptyList DEF Scanned
    <3>5. stdout[2].type = "benchmark"
      BY <2>1, <2>3 DEF Line
    <3> QED
      BY <1>2, <2>1, <3>1, <3>4, <3>5
         DEF ScanInv, AcceptsWellFormed, Printing, Header
  <2> QED
    BY <2>2, <2>3
<1> QED
  BY <1>3, <1>4

(* A further record: still no sample has been read.                        *)
LEMMA RecordScanned ==
  ASSUME Scanned, Len(stdout) \in Nat, stdout' = stdout,
         ParseImplementation, ImplementationIsValid
  PROVE  Scanned'
<1> DEFINE n == Len(records)
<1>1. /\ position <= Len(stdout) /\ Line.type = "implementation"
      /\ records' = Append(records, Line)
      /\ samples' = [m \in Known \cup {Line.name} |->
                       IF m = Line.name THEN <<>> ELSE samples[m]]
      /\ position' = position + 1 /\ parsing_samples' = parsing_samples
      /\ ~ parsing_samples /\ Line.name \notin Known
  BY DEF ParseImplementation, ImplementationIsValid
<1>2. /\ n \in Nat /\ DOMAIN records = 1 .. n /\ FirstSample = n + 3
      /\ IsList(records) /\ position = n + 3
  BY <1>1, ScannedFacts DEF Scanned
<1>3. /\ IsList(records') /\ Len(records') = n + 1
      /\ \A i \in 1 .. n : records'[i] = records[i]
      /\ records'[n + 1] = Line
  BY <1>1, <1>2, AppendToList
<1>4. DOMAIN records' = 1 .. n + 1
  BY <1>2, <1>3 DEF IsList
<1>5. FirstSample' = n + 4 /\ position' = n + 4
  BY <1>1, <1>2, <1>3 DEF FirstSample
<1>6. Known' = Known \cup {Line.name}
  <2>1. Known = {records[i].name : i \in 1 .. n}
    BY <1>2 DEF Known
  <2>2. Known' = {records'[i].name : i \in 1 .. n + 1}
    BY <1>4 DEF Known
  <2> QED
    BY <1>2, <1>3, <2>1, <2>2
<1>7. ASSUME NEW i \in DOMAIN records'
      PROVE  /\ records'[i] = stdout[i + 2]
             /\ records'[i].type = "implementation"
             /\ i \in 1 .. n => records'[i].name \in Known
             /\ i = n + 1 => records'[i].name = Line.name
  <2>1. CASE i \in 1 .. n
    <3>1. records'[i] = records[i] /\ i # n + 1
      BY <1>2, <1>3, <2>1
    <3>2. /\ records[i] = stdout[i + 2] /\ records[i].type = "implementation"
          /\ records[i].name \in Known
      BY <1>2, <2>1 DEF Scanned, Known
    <3> QED
      BY <3>1, <3>2
  <2>2. CASE i = n + 1
    <3>1. records'[i] = Line /\ i + 2 = position /\ i \notin 1 .. n
      BY <1>2, <1>3, <2>2
    <3> QED
      BY <1>1, <3>1 DEF Line
  <2> QED
    BY <1>2, <1>4, <2>1, <2>2
<1>8. ASSUME NEW i \in DOMAIN records', NEW j \in DOMAIN records',
             records'[i].name = records'[j].name
      PROVE  i = j
  <2>1. CASE i \in 1 .. n /\ j \in 1 .. n
    BY <1>2, <1>3, <1>8, <2>1 DEF Scanned
  <2>2. CASE i = n + 1 /\ j \in 1 .. n
    BY <1>1, <1>7, <1>8, <2>2
  <2>3. CASE j = n + 1 /\ i \in 1 .. n
    BY <1>1, <1>7, <1>8, <2>3
  <2> QED
    BY <1>2, <1>4, <2>1, <2>2, <2>3
<1>9. ASSUME NEW name \in Known'
      PROVE  /\ IsList(samples'[name])
             /\ Len(samples'[name]) =
                  Cardinality(SamplesOf(stdout, name, FirstSample',
                                        position' - 1))
  <2>1. Cardinality(SamplesOf(stdout, name, FirstSample', position' - 1)) = 0
    BY <1>2, <1>5, NoSamples
  <2>2. CASE name = Line.name
    <3>1. samples'[name] = <<>>
      BY <1>1, <2>2
    <3> QED
      BY <2>1, <3>1, EmptyList
  <2>3. CASE name # Line.name
    <3>1. samples'[name] = samples[name] /\ name \in Known
      BY <1>1, <1>6, <2>3
    <3>2. Cardinality(SamplesOf(stdout, name, FirstSample, position - 1)) = 0
      BY <1>2, NoSamples
    <3> QED
      BY <2>1, <3>1, <3>2 DEF Scanned
  <2> QED
    BY <2>2, <2>3
<1>10. DOMAIN samples' = Known'
  BY <1>1, <1>6
<1>11. /\ position' \in FirstSample' .. Len(stdout') + 1
       /\ parsing_samples' <=> position' > FirstSample'
       /\ FirstSample' .. position' - 1 = {}
  BY <1>1, <1>2, <1>5
<1>12. \A i \in DOMAIN records' : /\ records'[i] = stdout'[i + 2]
                                  /\ records'[i].type = "implementation"
  BY <1>7
<1> QED
  BY <1>3, <1>8, <1>9, <1>10, <1>11, <1>12 DEF Scanned

(* A further sample: the one its implementation lacks next.                *)
LEMMA SampleScanned ==
  ASSUME Scanned, Len(stdout) \in Nat, stdout' = stdout,
         ParseSample, SampleIsValid
  PROVE  Scanned'
<1> DEFINE Count(name, p) ==
      Cardinality(SamplesOf(stdout, name, FirstSample, p))
<1>1. /\ position <= Len(stdout)
      /\ samples' = [samples EXCEPT ![Line.name] =
                       Append(@, Line.elapsed_ns)]
      /\ parsing_samples' = TRUE /\ position' = position + 1
      /\ records' = records
      /\ Line.type = "sample" /\ Line.name \in Known
      /\ Line.index = Len(samples[Line.name])
  BY DEF ParseSample, SampleIsValid
<1>2. /\ FirstSample \in Int /\ position \in Int /\ FirstSample <= position
  BY ScannedFacts
<1>3. FirstSample' = FirstSample /\ Known' = Known
  BY <1>1 DEF FirstSample, Known
<1>4. DOMAIN samples = Known /\ DOMAIN samples' = Known'
  BY <1>1, <1>3 DEF Scanned
<1>5. ASSUME NEW name \in Known
      PROVE  /\ IsList(samples'[name])
             /\ Len(samples'[name]) = Count(name, position' - 1)
  <2>1. /\ IsList(samples[name])
        /\ Len(samples[name]) = Count(name, position - 1)
    BY DEF Scanned
  <2>2. Count(name, position) = Count(name, position - 1) +
          IF Line.type = "sample" /\ Line.name = name THEN 1 ELSE 0
    BY <1>2, OneMoreSample DEF Line
  <2>3. Count(name, position - 1) \in Nat
    BY <1>2, SamplesAreFinite
  <2>4. position' - 1 = position
    BY <1>1, <1>2
  <2>5. CASE name = Line.name
    <3>1. samples'[name] = Append(samples[name], Line.elapsed_ns)
      BY <1>1, <1>4, <2>5
    <3> HIDE DEF Count
    <3> QED
      BY <1>1, <2>1, <2>2, <2>4, <2>5, <3>1, AppendToList
  <2>6. CASE name # Line.name
    <3>1. samples'[name] = samples[name]
      BY <1>1, <1>4, <2>6
    <3> HIDE DEF Count
    <3> QED
      BY <2>1, <2>2, <2>3, <2>4, <2>6, <3>1
  <2> QED
    BY <2>5, <2>6
<1>6. ASSUME NEW p \in FirstSample .. position' - 1
      PROVE  /\ stdout[p].type = "sample" /\ stdout[p].name \in Known
             /\ stdout[p].index = Count(stdout[p].name, p - 1)
  <2>1. CASE p \in FirstSample .. position - 1
    BY <2>1 DEF Scanned
  <2>2. CASE p = position
    <3>1. Len(samples[Line.name]) = Count(Line.name, position - 1)
      BY <1>1 DEF Scanned
    <3> QED
      BY <1>1, <2>2, <3>1 DEF Line
  <2> QED
    BY <1>1, <1>2, <2>1, <2>2
<1>7. /\ position' \in FirstSample .. Len(stdout) + 1
      /\ parsing_samples' <=> position' > FirstSample
  BY <1>1, <1>2
<1>8. /\ IsList(records')
      /\ \A i \in DOMAIN records' : /\ records'[i] = stdout'[i + 2]
                                    /\ records'[i].type = "implementation"
      /\ \A i, j \in DOMAIN records' :
           records'[i].name = records'[j].name => i = j
  BY <1>1 DEF Scanned
<1> QED
  BY <1>3, <1>4, <1>5, <1>6, <1>7, <1>8 DEF Scanned

LEMMA RecordsScanned ==
  ASSUME ResultInv, ScanInv, ParseImplementation \/ ParseSample \/ ParseEnd
  PROVE  ScanInv'
<1>1. /\ pc = "parse_records" /\ UNCHANGED program
      /\ Len(stdout) >= 3 /\ stdout[1] = Header
      /\ stdout[2].type = "benchmark" /\ Scanned
      /\ foreign => stdout \in Seq(ForeignLine)
  BY DEF ParseImplementation, ParseSample, ParseEnd, ScanInv
<1>2. stdout' = stdout /\ foreign' = foreign /\ Len(stdout) \in Nat
  BY <1>1, TextHasLength DEF program
<1>3. \/ pc' = "parse_records" /\ Scanned'
      \/ pc' = "accepted" /\ Scanned' /\ WellFormed(stdout)
      \/ pc' = "refused" /\ ~ WellFormed(stdout)
  <2>1. CASE ParseImplementation
    <3>1. CASE ImplementationIsValid
      BY <1>1, <1>2, <2>1, <3>1, RecordScanned DEF ParseImplementation
    <3>2. CASE ~ ImplementationIsValid
      BY <1>1, <1>2, <2>1, <3>2, RefusedRecord
         DEF ParseImplementation, Refuse
    <3> QED
      BY <3>1, <3>2
  <2>2. CASE ParseSample
    <3>1. CASE SampleIsValid
      BY <1>1, <1>2, <2>2, <3>1, SampleScanned DEF ParseSample
    <3>2. CASE ~ SampleIsValid
      BY <1>1, <1>2, <2>2, <3>2, RefusedSample DEF ParseSample, Refuse
    <3> QED
      BY <3>1, <3>2
  <2>3. CASE ParseEnd
    <3>1. /\ position > Len(stdout)
          /\ pc' = IF EveryRecordIsComplete THEN "accepted" ELSE "refused"
          /\ UNCHANGED parser
      BY <2>3 DEF ParseEnd
    <3>2. CASE EveryRecordIsComplete
      <4>1. position = Len(stdout) + 1
        BY <1>1, <1>2, <3>1, ScannedFacts
      <4>2. Scanned'
        BY <1>1, <1>2, <3>1 DEF parser, Scanned, FirstSample, Known
      <4> QED
        BY <1>1, <1>2, <3>1, <3>2, <4>1, <4>2, AcceptedIsWellFormed
    <3>3. CASE ~ EveryRecordIsComplete
      BY <1>1, <1>2, <3>1, <3>3, RefusedEnd
    <3> QED
      BY <3>2, <3>3
  <2> QED
    BY <2>1, <2>2, <2>3
<1> QED
  BY <1>1, <1>2, <1>3 DEF ScanInv, AcceptsWellFormed, Printing

(* However a text came about, the parser's dictionaries are a reading of   *)
(* the lines before it, and its verdict is that of WellFormed              *)
(* (benchmark.py:72-173).                                                  *)
THEOREM ScanInvHolds == Spec => []ScanInv
<1>1. Init => ScanInv
  BY DEF Init, ScanInv, AcceptsWellFormed, NothingIsParsed, Printing
<1>2. ResultInv /\ ScanInv /\ [Next]_vars => ScanInv'
  <2> SUFFICES ASSUME ResultInv, ScanInv, [Next]_vars
               PROVE  ScanInv'
    OBVIOUS
  <2>1. CASE UNCHANGED vars
    BY <2>1 DEF vars, program, parser, ScanInv, Scanned, FirstSample, Known,
                NothingIsParsed, AcceptsWellFormed
  <2>2. CASE \/ Measure \/ RunForeign \/ PrintHeader \/ PrintBenchmark
             \/ PrintImplementation \/ PrintSample \/ OutputFails \/ Killed
    BY <2>2, PrinterScansNothing
  <2>3. CASE ParseHeader \/ ParseBenchmark
    BY <2>3, HeaderScanned
  <2>4. CASE ParseImplementation \/ ParseSample \/ ParseEnd
    BY <2>4, RecordsScanned
  <2> QED
    BY <2>1, <2>2, <2>3, <2>4 DEF Next
<1> QED
  BY <1>1, <1>2, ResultInvHolds, PTL DEF Spec

(* Whatever program it is run for, and however many records its text has,  *)
(* the parser accepts exactly the well-formed texts (benchmark.py:72-173). *)
THEOREM ExactlyWellFormedIsAccepted == Spec => []AcceptsWellFormed
<1>1. ScanInv => AcceptsWellFormed
  BY DEF ScanInv
<1> QED
  BY <1>1, ScanInvHolds, PTL
===============================================================================
