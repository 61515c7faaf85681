------------------------- MODULE ArgumentParserProofs -------------------------
(***************************************************************************)
(* What main runs with is what was asked for, for any number of options,   *)
(* any texts and any widths of the integer types.                          *)
(***************************************************************************)
EXTENDS ArgumentParser, TLAPS

Entry == [option : Options, value : Arguments]

(* How the value of an option is read.                                     *)
Parsed(name, argument) ==
  IF name = "--seed" THEN ParseU64(argument) ELSE ParseSize(argument)

(* The parsing is not over, or over with success.                          *)
Good == pc \in {"option", "value", "run"}

(***************************************************************************)
(* The inductive invariant: TypeOK and six parts.                          *)
(***************************************************************************)
BenchmarkInv ==
  /\ benchmark = "NULL" => Places("--benchmark") = {}
  /\ \A i \in Places("--benchmark") : given[i].value.word = benchmark
  /\ pc = "run" => benchmark # "NULL"

PositiveInv == Good => config.length > 0 /\ config.iterations > 0

(* An option that was given was given last somewhere.                      *)
PlacesInv ==
  \A name \in Options :
    \/ Places(name) = {}
    \/ \E i \in Places(name) : \A j \in Places(name) : j <= i

ValuesInv ==
  Good =>
    /\ protocol <=> Places("--result-protocol") # {}
    /\ \A name \in NumberOptions :
         config[Member(name)] =
           IF Places(name) = {} THEN Defaults[Member(name)]
           ELSE Strtoumax(LastValue(name).text).value

AcceptedInv ==
  \A i \in DOMAIN given :
    given[i].option \in NumberOptions =>
      Parsed(given[i].option, given[i].value) # Refused

(* While a value is awaited there is room for the option.                  *)
RoomInv == pc = "value" => Len(given) < MaxOptions

ParserInv ==
  /\ TypeOK
  /\ RoomInv
  /\ BenchmarkInv
  /\ PositiveInv
  /\ PlacesInv
  /\ ValuesInv
  /\ AcceptedInv

-----------------------------------------------------------------------------
(* What an argument looks like to strtoumax.                               *)
LEMMA ArgumentText ==
  ASSUME NEW argument \in Arguments
  PROVE  argument.text \in Text \cup {Empty}
<1>1. ASSUME NEW w, argument = Word(w)
      PROVE  argument.text \in Text
  BY <1>1 DEF Word, Text, Prefixes
<1>2. ASSUME NEW t \in Texts, argument = Number(t)
      PROVE  argument.text \in Text \cup {Empty}
  BY <1>2, TextsAssumption DEF Number
<1> QED
  BY <1>1, <1>2 DEF Arguments

(* Negation modulo a number above m.                                       *)
LEMMA Complement ==
  ASSUME NEW m \in Nat, NEW d \in Nat, d <= m
  PROVE  /\ (m + 1 - d) % (m + 1) \in Nat
         /\ \/ ((m + 1 - d) % (m + 1)) + d = 0
            \/ ((m + 1 - d) % (m + 1)) + d = m + 1
<1>1. CASE d = 0
  <2>1. (m + 1 - d) % (m + 1) = 0
    BY <1>1, Z3
  <2> QED
    BY <1>1, <2>1
<1>2. CASE d > 0
  <2>1. (m + 1 - d) % (m + 1) = m + 1 - d
    BY <1>2, Z3
  <2> QED
    BY <2>1
<1> QED
  BY <1>1, <1>2

(* What strtoumax makes of digits in range behind an admitted prefix.      *)
LEMMA ReadNumberIs ==
  ASSUME NEW prefix \in Prefixes, prefix # "-",
         NEW digits \in Nat, digits <= MaxUintmax
  PROVE  LET value == IF prefix \in {"-", " -"}
                      THEN (MaxUintmax + 1 - digits) % (MaxUintmax + 1)
                      ELSE digits
         IN  /\ value \in Nat
             /\ \/ prefix \in {"", "+", " ", " +"} /\ value = digits
                \/ prefix = " -" /\ value + digits = 0
                \/ prefix = " -" /\ value + digits = MaxUintmax + 1
<1> DEFINE wrapped == (MaxUintmax + 1 - digits) % (MaxUintmax + 1)
<1>1. /\ wrapped \in Nat
      /\ wrapped + digits = 0 \/ wrapped + digits = MaxUintmax + 1
  BY Complement, LimitsAssumption
<1> HIDE DEF wrapped
<1>2. CASE prefix = " -"
  BY <1>1, <1>2, Zenon DEF wrapped
<1>3. CASE prefix \in {"", "+", " ", " +"}
  BY <1>3
<1> QED
  BY <1>2, <1>3, Zenon DEF Prefixes

(* A number that is not refused is in range and the one the text denotes,  *)
(* but for a minus sign behind white space.                                *)
LEMMA ParsedNumber ==
  ASSUME NEW argument \in Arguments, NEW name \in NumberOptions,
         Parsed(name, argument) # Refused
  PROVE  LET number == Parsed(name, argument)
             text == argument.text
         IN  /\ number = Strtoumax(text).value
             /\ number \in 0 .. MaxU64
             /\ name # "--seed" => number \in 0 .. MaxSize
             /\ \/ Denotes(text, number)
                \/ /\ text.prefix = " -" /\ text.rest = "end"
                   /\ number + text.digits = MaxUintmax + 1
<1> DEFINE text == argument.text
<1> DEFINE value == Strtoumax(text).value
<1>1. /\ Parsed(name, argument) = value
      /\ ParseU64(argument) # Refused
      /\ name # "--seed" => ~ (value > MaxSize)
  BY DEF Parsed, ParseSize, ParseU64
<1>2. /\ text.prefix \notin {"-", "nothing"}
      /\ ~ Strtoumax(text).range
      /\ text.rest # "more"
      /\ ~ (value > MaxU64)
  BY <1>1 DEF ParseU64
<1>3. text \in Text
  BY <1>2, ArgumentText DEF Empty
<1>4. text.prefix \in Prefixes /\ text.digits \in Nat /\ text.rest = "end"
  BY <1>2, <1>3 DEF Text
<1>5. ~ (text.digits > MaxUintmax)
  BY <1>2 DEF Strtoumax
<1>6. value = IF text.prefix \in {"-", " -"}
              THEN (MaxUintmax + 1 - text.digits) % (MaxUintmax + 1)
              ELSE text.digits
  BY <1>5 DEF Strtoumax
<1>7. text.digits <= MaxUintmax
  BY <1>4, <1>5, LimitsAssumption
<1> HIDE DEF value
<1>8. /\ value \in Nat
      /\ \/ text.prefix \in {"", "+", " ", " +"} /\ value = text.digits
         \/ text.prefix = " -" /\ value + text.digits = 0
         \/ text.prefix = " -" /\ value + text.digits = MaxUintmax + 1
  <2>1. text.prefix # "-"
    BY <1>2
  <2> HIDE DEF text
  <2> QED
    BY <1>4, <1>6, <1>7, <2>1, ReadNumberIs, Zenon
<1>9. \/ Denotes(text, value)
      \/ /\ text.prefix = " -" /\ text.rest = "end"
         /\ value + text.digits = MaxUintmax + 1
  BY <1>4, <1>8, Zenon DEF Denotes
<1>10. value \in 0 .. MaxU64 /\ (name # "--seed" => value \in 0 .. MaxSize)
  <2>1. value \in Nat
    BY <1>8, Zenon
  <2>2. ~ (value > MaxU64) /\ (name # "--seed" => ~ (value > MaxSize))
    BY <1>1, <1>2, Zenon DEF value
  <2> QED
    BY <2>1, <2>2, LimitsAssumption
<1>11. Parsed(name, argument) = value /\ value = Strtoumax(argument.text).value
  BY <1>1 DEF value
<1> QED
  BY <1>9, <1>10, <1>11, Zenon

(* The members of a configuration.                                         *)
LEMMA ConfigurationUpdate ==
  ASSUME NEW c \in Configuration, NEW o \in NumberOptions, NEW number,
         number \in 0 .. MaxU64,
         o # "--seed" => number \in 0 .. MaxSize
  PROVE  LET d == [c EXCEPT ![Member(o)] = number]
         IN  /\ d \in Configuration
             /\ \A name \in NumberOptions :
                  d[Member(name)] = IF name = o THEN number
                                    ELSE c[Member(name)]
             /\ d.length = IF o = "--length" THEN number ELSE c.length
             /\ d.iterations =
                  IF o = "--iterations" THEN number ELSE c.iterations
  BY DEF Configuration, NumberOptions, Member

(* One more option: where it is, and what the others' last values are.     *)
LEMMA OneMore ==
  ASSUME given \in Seq(Entry), PlacesInv,
         NEW o \in Options, NEW argument \in Arguments, Given(o, argument)
  PROVE  /\ given' \in Seq(Entry)
         /\ Len(given') = Len(given) + 1
         /\ DOMAIN given' = DOMAIN given \cup {Len(given) + 1}
         /\ \A i \in DOMAIN given : given'[i] = given[i]
         /\ given'[Len(given) + 1] = [option |-> o, value |-> argument]
         /\ Places(o)' = Places(o) \cup {Len(given) + 1}
         /\ \A name \in Options \ {o} :
              /\ Places(name)' = Places(name)
              /\ Places(name) # {} => LastValue(name)' = LastValue(name)
         /\ LastValue(o)' = argument
         /\ PlacesInv'
<1> DEFINE n == Len(given) + 1
<1> DEFINE e == [option |-> o, value |-> argument]
<1>1. e \in Entry /\ e.option = o /\ e.value = argument
  BY DEF Entry
<1>2. /\ given' = Append(given, e)
      /\ Len(given) \in Nat
      /\ DOMAIN given = 1 .. Len(given)
  BY DEF Given
<1>3. /\ given' \in Seq(Entry)
      /\ Len(given') = n
      /\ DOMAIN given' = 1 .. n
      /\ \A i \in 1 .. Len(given) : given'[i] = given[i]
      /\ given'[n] = e
  BY <1>1, <1>2
<1>4. DOMAIN given' = DOMAIN given \cup {n} /\ n \notin DOMAIN given
  BY <1>2, <1>3
<1>5. Places(o)' = Places(o) \cup {n}
  BY <1>1, <1>2, <1>3, <1>4 DEF Places
<1>6. \A name \in Options \ {o} : Places(name)' = Places(name)
  BY <1>1, <1>2, <1>3, <1>4 DEF Places
<1>7. \A name \in Options : Places(name) \subseteq 1 .. Len(given)
  BY <1>2 DEF Places
<1>8. ASSUME NEW name \in Options \ {o}, Places(name) # {}
      PROVE  LastValue(name)' = LastValue(name)
  <2> DEFINE last == CHOOSE i \in Places(name) : \A j \in Places(name) : j <= i
  <2>1. last \in Places(name)
    BY <1>8 DEF PlacesInv
  <2>2. LastValue(name)' = given'[last].value
    BY <1>6, <1>8 DEF LastValue
  <2>3. LastValue(name) = given[last].value
    BY DEF LastValue
  <2> QED
    BY <1>3, <1>7, <2>1, <2>2, <2>3
<1>9. LastValue(o)' = argument
  <2>1. \A j \in Places(o)' : j <= n
    BY <1>2, <1>5, <1>7
  <2>2. \A i \in Places(o)' : (\A j \in Places(o)' : j <= i) => i = n
    BY <1>2, <1>5, <1>7
  <2>3. (CHOOSE i \in Places(o)' : \A j \in Places(o)' : j <= i) = n
    BY <1>5, <2>1, <2>2
  <2>4. LastValue(o)' = given'[n].value
    BY <2>3 DEF LastValue
  <2> QED
    BY <1>1, <1>3, <2>4
<1>10. PlacesInv'
  <2>1. \A j \in Places(o)' : j <= n
    BY <1>2, <1>5, <1>7
  <2> QED
    BY <1>5, <1>6, <2>1 DEF PlacesInv
<1> QED
  BY <1>3, <1>2, <1>4, <1>5, <1>6, <1>8, <1>9, <1>10

-----------------------------------------------------------------------------
(* It holds before any option is read.                                     *)
LEMMA InitInv ==
  Init => ParserInv
<1> SUFFICES ASSUME Init PROVE ParserInv
  OBVIOUS
<1>1. /\ given = <<>> /\ given \in Seq(Entry)
      /\ Len(given) = 0 /\ DOMAIN given = {}
  BY DEF Init
<1>2. \A name : Places(name) = {}
  BY <1>1 DEF Places
<1>3. TypeOK
  <2>1. Len(given) <= MaxOptions
    BY <1>1, MaxOptionsAssumption
  <2>2. given \in Seq([option : Options, value : Arguments])
    BY <1>1 DEF Entry
  <2> QED
    BY <2>1, <2>2, DefaultsAssumption DEF Init, TypeOK
<1>4. RoomInv /\ PlacesInv
  BY <1>2 DEF Init, RoomInv, PlacesInv
<1>5. BenchmarkInv
  BY <1>2 DEF Init, BenchmarkInv
<1>6. PositiveInv
  BY DefaultsAssumption DEF Init, PositiveInv
<1>7. ValuesInv
  BY <1>2 DEF Init, ValuesInv
<1>8. AcceptedInv
  BY <1>1 DEF AcceptedInv
<1> QED
  BY <1>3, <1>4, <1>5, <1>6, <1>7, <1>8 DEF ParserInv

(* A step that reads no option with its value leaves what is said of them. *)
LEMMA NothingGiven ==
  ASSUME ParserInv, UNCHANGED <<given, benchmark, config, protocol>>,
         Good' => Good,
         pc' = "run" => benchmark # "NULL"
  PROVE  BenchmarkInv' /\ PositiveInv' /\ PlacesInv' /\ ValuesInv'
           /\ AcceptedInv'
<1>1. \A name : /\ Places(name)' = Places(name)
               /\ LastValue(name)' = LastValue(name)
  BY DEF Places, LastValue
<1>2. BenchmarkInv'
  BY <1>1 DEF ParserInv, BenchmarkInv
<1>3. PositiveInv'
  BY DEF ParserInv, PositiveInv
<1>4. PlacesInv'
  BY <1>1 DEF ParserInv, PlacesInv
<1>5. ValuesInv'
  BY <1>1 DEF ParserInv, ValuesInv
<1>6. AcceptedInv'
  BY DEF ParserInv, AcceptedInv
<1> QED
  BY <1>2, <1>3, <1>4, <1>5, <1>6

(* Parsing ends.                                                           *)
LEMMA StopInv ==
  ASSUME ParserInv, NEW how \in {"run", "help", "usage"}, Stop(how),
         how = "run" => pc = "option" /\ benchmark # "NULL"
  PROVE  ParserInv'
<1>1. TypeOK' /\ RoomInv'
  BY DEF ParserInv, TypeOK, RoomInv, Stop
<1>2. BenchmarkInv' /\ PositiveInv' /\ PlacesInv' /\ ValuesInv' /\ AcceptedInv'
  BY NothingGiven DEF Stop, Good
<1> QED
  BY <1>1, <1>2 DEF ParserInv

(* The arguments are over.                                                 *)
LEMMA EndOfArgumentsInv ==
  ParserInv /\ EndOfArguments => ParserInv'
BY StopInv DEF EndOfArguments

(* An option nobody knows is only found out once its value is there.       *)
LEMMA UnknownOptionInv ==
  ParserInv /\ UnknownOption => ParserInv'
BY StopInv DEF UnknownOption

(* An option is read.                                                      *)
LEMMA ReadOptionInv ==
  ASSUME ParserInv, NEW argument \in Arguments, NEW last \in BOOLEAN,
         ReadOption(argument, last)
  PROVE  ParserInv'
<1> USE DEF ParserInv
<1>1. CASE argument.word \in {"--help", "-h"} /\ Stop("help")
  BY <1>1, StopInv
<1>2. CASE /\ argument.word = "--result-protocol"
           /\ protocol' = TRUE
           /\ Given(argument.word, argument)
           /\ UNCHANGED <<option, benchmark, config, pc>>
  <2> DEFINE o == argument.word
  <2> HIDE DEF ParserInv
  <2>1. /\ o \in Options /\ Given(o, argument)
        /\ o = "--result-protocol" /\ o \notin NumberOptions
        /\ o # "--benchmark" /\ "--benchmark" \in Options
        /\ NumberOptions \subseteq Options
    BY <1>2 DEF Options, NumberOptions
  <2>2. given \in Seq(Entry) /\ PlacesInv
    BY DEF ParserInv, TypeOK, Entry
  <2>3. /\ given' \in Seq(Entry)
        /\ Len(given') = Len(given) + 1
        /\ DOMAIN given' = DOMAIN given \cup {Len(given) + 1}
        /\ \A i \in DOMAIN given : given'[i] = given[i]
        /\ given'[Len(given) + 1] = [option |-> o, value |-> argument]
        /\ Places(o)' = Places(o) \cup {Len(given) + 1}
        /\ \A name \in Options \ {o} :
             /\ Places(name)' = Places(name)
             /\ Places(name) # {} => LastValue(name)' = LastValue(name)
        /\ PlacesInv'
    BY <2>1, <2>2, OneMore
  <2>4. TypeOK' /\ RoomInv'
    <3>1. Len(given') <= MaxOptions
      BY <2>2, <2>3, MaxOptionsAssumption DEF ReadOption
    <3>2. pc = "option"
      BY DEF ReadOption
    <3> QED
      BY <1>2, <2>3, <3>1, <3>2 DEF ParserInv, TypeOK, Entry, RoomInv
  <2>5. BenchmarkInv'
    <3>1. Places("--benchmark")' = Places("--benchmark")
      BY <2>1, <2>3
    <3>2. \A i \in Places("--benchmark") : given'[i] = given[i]
      BY <2>3 DEF Places
    <3> QED
      BY <1>2, <3>1, <3>2 DEF ParserInv, BenchmarkInv
  <2>6. PositiveInv'
    BY <1>2 DEF ParserInv, PositiveInv, Good
  <2>7. ValuesInv'
    <3>1. Good /\ protocol' = TRUE /\ config' = config
      BY <1>2 DEF ReadOption, Good
    <3>2. Places("--result-protocol")' # {}
      BY <2>1, <2>3
    <3>3. ASSUME NEW name \in NumberOptions
          PROVE  /\ Places(name)' = Places(name)
                 /\ Places(name) # {} => LastValue(name)' = LastValue(name)
      BY <2>1, <2>3
    <3> QED
      BY <3>1, <3>2, <3>3 DEF ParserInv, ValuesInv
  <2>8. AcceptedInv'
    <3>1. given'[Len(given) + 1].option \notin NumberOptions
      BY <2>1, <2>3
    <3> QED
      BY <2>3, <3>1 DEF ParserInv, AcceptedInv
  <2> QED
    BY <2>3, <2>4, <2>5, <2>6, <2>7, <2>8 DEF ParserInv
<1>3. CASE Stop("usage")
  BY <1>3, StopInv
<1>4. CASE /\ option' = argument.word
           /\ pc' = "value"
           /\ UNCHANGED <<given, benchmark, config, protocol>>
  <2>1. TypeOK' /\ RoomInv'
    BY <1>4 DEF TypeOK, RoomInv, ReadOption
  <2>2. BenchmarkInv' /\ PositiveInv' /\ PlacesInv' /\ ValuesInv'
          /\ AcceptedInv'
    BY <1>4, NothingGiven DEF Good, ReadOption
  <2> QED
    BY <2>1, <2>2
<1> QED
  BY <1>1, <1>2, <1>3, <1>4, Zenon DEF ReadOption

(* The name of a benchmark is read.                                        *)
LEMMA ReadBenchmarkInv ==
  ASSUME ParserInv, NEW argument \in Arguments, ReadBenchmark(argument)
  PROVE  ParserInv'
<1> DEFINE n == Len(given) + 1
<1>1. CASE Stop("usage")
  BY <1>1, StopInv
<1>2. CASE /\ benchmark = "NULL" /\ argument.word \in Benchmarks
           /\ benchmark' = argument.word
           /\ UNCHANGED config
           /\ Accept(argument)
  <2>1. /\ pc = "value" /\ option = "--benchmark"
        /\ Given("--benchmark", argument)
        /\ option' = "none" /\ pc' = "option" /\ protocol' = protocol
    BY <1>2 DEF Accept, ReadBenchmark
  <2>2. /\ "--benchmark" \in Options /\ "--benchmark" \notin NumberOptions
        /\ "--result-protocol" \in Options \ {"--benchmark"}
        /\ NumberOptions \subseteq Options \ {"--benchmark"}
    BY DEF Options, NumberOptions
  <2>3. given \in Seq(Entry) /\ PlacesInv
    BY DEF ParserInv, TypeOK, Entry
  <2>4. /\ given' \in Seq(Entry) /\ Len(given') = n
        /\ DOMAIN given' = DOMAIN given \cup {n}
        /\ \A i \in DOMAIN given : given'[i] = given[i]
        /\ given'[n] = [option |-> "--benchmark", value |-> argument]
        /\ Places("--benchmark")' = Places("--benchmark") \cup {n}
        /\ \A name \in Options \ {"--benchmark"} :
             /\ Places(name)' = Places(name)
             /\ Places(name) # {} => LastValue(name)' = LastValue(name)
        /\ PlacesInv'
    BY <2>1, <2>2, <2>3, OneMore
  <2>5. TypeOK' /\ RoomInv'
    <3>1. Len(given') <= MaxOptions
      BY <2>1, <2>3, <2>4, MaxOptionsAssumption DEF ParserInv, RoomInv
    <3> QED
      BY <1>2, <2>1, <2>4, <3>1 DEF ParserInv, TypeOK, Entry, RoomInv
  <2>6. BenchmarkInv'
    <3>1. Places("--benchmark")' = {n}
      BY <1>2, <2>4 DEF ParserInv, BenchmarkInv
    <3>2. given'[n].value.word = benchmark'
      BY <1>2, <2>4
    <3>3. benchmark' # "NULL"
      BY <1>2, BenchmarksAssumption
    <3> QED
      BY <3>1, <3>2, <3>3 DEF BenchmarkInv
  <2>7. PositiveInv'
    BY <1>2, <2>1 DEF ParserInv, PositiveInv, Good
  <2>8. ValuesInv'
    BY <1>2, <2>1, <2>2, <2>4 DEF ParserInv, ValuesInv, Good
  <2>9. AcceptedInv'
    BY <2>2, <2>4 DEF ParserInv, AcceptedInv
  <2> QED
    BY <2>4, <2>5, <2>6, <2>7, <2>8, <2>9 DEF ParserInv
<1> QED
  BY <1>1, <1>2, Zenon DEF ReadBenchmark

(* A number is read: it is stored when strtoumax and the checks behind it  *)
(* let it pass, and the option counts unless it is below the least.        *)
LEMMA ReadNumberInv ==
  ASSUME ParserInv, NEW argument \in Arguments, ReadNumber(argument),
         NEW o \in NumberOptions, option = o
  PROVE  ParserInv'
<1> DEFINE n == Len(given) + 1
<1> DEFINE number == Parsed(o, argument)
<1>1. /\ pc = "value"
      /\ config' = IF number = Refused THEN config
                   ELSE [config EXCEPT ![Member(o)] = number]
      /\ IF number < Least(o)
         THEN pc' = "usage" /\ UNCHANGED <<given, option, protocol>>
         ELSE Accept(argument)
      /\ UNCHANGED benchmark
  BY DEF ReadNumber, Parsed
<1> HIDE DEF number
<1>2. ASSUME number # Refused
      PROVE  /\ number = Strtoumax(argument.text).value
             /\ number \in 0 .. MaxU64
             /\ o # "--seed" => number \in 0 .. MaxSize
  BY <1>1, <1>2, ParsedNumber DEF number
<1>3. config \in Configuration
  BY DEF ParserInv, TypeOK
<1>4. config' \in Configuration
  BY <1>1, <1>2, <1>3, ConfigurationUpdate
<1>5. CASE number < Least(o)
  <2>1. /\ pc' = "usage"
        /\ UNCHANGED <<given, option, protocol, benchmark>>
    BY <1>1, <1>5
  <2>2. TypeOK' /\ RoomInv'
    BY <1>4, <2>1 DEF ParserInv, TypeOK, RoomInv
  <2>3. \A name : Places(name)' = Places(name)
    BY <2>1 DEF Places
  <2>4. BenchmarkInv' /\ PositiveInv' /\ PlacesInv' /\ ValuesInv'
    BY <2>1, <2>3
       DEF ParserInv, BenchmarkInv, PositiveInv, PlacesInv, ValuesInv, Good
  <2>5. AcceptedInv'
    BY <2>1 DEF ParserInv, AcceptedInv
  <2> QED
    BY <2>2, <2>4, <2>5 DEF ParserInv
<1>6. CASE ~ (number < Least(o))
  <2>1. /\ Given(o, argument) /\ protocol' = protocol
        /\ option' = "none" /\ pc' = "option" /\ benchmark' = benchmark
    BY <1>1, <1>6 DEF Accept
  <2>2. number # Refused
    BY <1>6 DEF Least, Refused
  <2>3. /\ number = Strtoumax(argument.text).value
        /\ number \in 0 .. MaxU64
        /\ o # "--seed" => number \in 0 .. MaxSize
        /\ config' = [config EXCEPT ![Member(o)] = number]
    BY <1>1, <1>2, <2>2
  <2>4. /\ \A name \in NumberOptions :
             config'[Member(name)] = IF name = o THEN number
                                     ELSE config[Member(name)]
        /\ config'.length =
             IF o = "--length" THEN number ELSE config.length
        /\ config'.iterations =
             IF o = "--iterations" THEN number ELSE config.iterations
    BY <1>1, <1>3, <2>3, ConfigurationUpdate
  <2>5. /\ o \in Options
        /\ "--benchmark" \in Options \ {o}
        /\ "--result-protocol" \in Options \ {o}
        /\ NumberOptions \subseteq Options
    BY <1>1 DEF Options, NumberOptions
  <2>6. given \in Seq(Entry) /\ PlacesInv
    BY DEF ParserInv, TypeOK, Entry
  <2>7. /\ given' \in Seq(Entry) /\ Len(given') = n
        /\ DOMAIN given' = DOMAIN given \cup {n}
        /\ \A i \in DOMAIN given : given'[i] = given[i]
        /\ given'[n] = [option |-> o, value |-> argument]
        /\ Places(o)' = Places(o) \cup {n}
        /\ \A name \in Options \ {o} :
             /\ Places(name)' = Places(name)
             /\ Places(name) # {} => LastValue(name)' = LastValue(name)
        /\ LastValue(o)' = argument
        /\ PlacesInv'
    BY <2>1, <2>5, <2>6, OneMore
  <2>8. TypeOK' /\ RoomInv'
    <3>1. Len(given') <= MaxOptions
      BY <1>1, <2>6, <2>7, MaxOptionsAssumption DEF ParserInv, RoomInv
    <3> QED
      BY <1>4, <2>1, <2>7, <3>1 DEF ParserInv, TypeOK, Entry, RoomInv
  <2>9. BenchmarkInv'
    <3>1. Places("--benchmark")' = Places("--benchmark")
      BY <2>5, <2>7
    <3>2. \A i \in Places("--benchmark") : given'[i] = given[i]
      BY <2>7 DEF Places
    <3> QED
      BY <2>1, <3>1, <3>2 DEF ParserInv, BenchmarkInv
  <2>10. PositiveInv'
    <3>1. config.length > 0 /\ config.iterations > 0
      BY <1>1 DEF ParserInv, PositiveInv, Good
    <3>2. o \in {"--length", "--iterations"} => number > 0
      BY <1>6, <2>3 DEF Least
    <3>3. config'.length > 0 /\ config'.iterations > 0
      BY <2>4, <3>1, <3>2
    <3> QED
      BY <3>3 DEF PositiveInv
  <2>11. ValuesInv'
    <3>1. protocol' <=> Places("--result-protocol")' # {}
      BY <1>1, <2>1, <2>5, <2>7 DEF ParserInv, ValuesInv, Good
    <3>2. ASSUME NEW name \in NumberOptions, name # o
          PROVE  config'[Member(name)] =
                   IF Places(name)' = {} THEN Defaults[Member(name)]
                   ELSE Strtoumax(LastValue(name)'.text).value
      BY <1>1, <2>4, <2>5, <2>7, <3>2 DEF ParserInv, ValuesInv, Good
    <3>3. /\ Places(o)' # {}
          /\ config'[Member(o)] = Strtoumax(argument.text).value
      BY <1>1, <2>3, <2>4, <2>7
    <3>4. ASSUME NEW name \in NumberOptions
          PROVE  config'[Member(name)] =
                   IF Places(name)' = {} THEN Defaults[Member(name)]
                   ELSE Strtoumax(LastValue(name)'.text).value
      <4>1. CASE name = o
        BY <2>7, <3>3, <4>1
      <4>2. CASE name # o
        BY <3>2, <4>2
      <4> QED
        BY <4>1, <4>2
    <3> QED
      BY <3>1, <3>4 DEF ValuesInv
  <2>12. AcceptedInv'
    <3>1. Parsed(o, argument) # Refused
      BY <2>2 DEF number
    <3> QED
      BY <2>7, <3>1 DEF ParserInv, AcceptedInv
  <2> QED
    BY <2>7, <2>8, <2>9, <2>10, <2>11, <2>12 DEF ParserInv
<1> QED
  BY <1>5, <1>6

-----------------------------------------------------------------------------
(* Every state of the parsing is one the invariant describes.              *)
THEOREM ParserInvariant ==
  Spec => []ParserInv
<1>1. ParserInv /\ [Next]_vars => ParserInv'
  <2> SUFFICES ASSUME ParserInv, [Next]_vars PROVE ParserInv'
    OBVIOUS
  <2>1. CASE EndOfArguments
    BY <2>1, EndOfArgumentsInv
  <2>2. ASSUME NEW argument \in Arguments, NEW last \in BOOLEAN,
               ReadOption(argument, last)
        PROVE  ParserInv'
    BY <2>2, ReadOptionInv
  <2>3. ASSUME NEW argument \in Arguments, ReadBenchmark(argument)
        PROVE  ParserInv'
    BY <2>3, ReadBenchmarkInv
  <2>4. ASSUME NEW argument \in Arguments, ReadNumber(argument)
        PROVE  ParserInv'
    <3>1. option \in NumberOptions
      BY <2>4 DEF ReadNumber
    <3> QED
      BY <2>4, <3>1, ReadNumberInv
  <2>5. CASE UnknownOption
    BY <2>5, UnknownOptionInv
  <2>6. CASE UNCHANGED vars
    <3>1. TypeOK' /\ RoomInv'
      BY <2>6 DEF vars, ParserInv, TypeOK, RoomInv
    <3>2. UNCHANGED <<given, benchmark, config, protocol, pc>>
      BY <2>6 DEF vars
    <3>3. /\ Good' => Good
          /\ pc' = "run" => benchmark # "NULL"
      BY <3>2 DEF Good, ParserInv, BenchmarkInv
    <3> QED
      BY <3>1, <3>2, <3>3, NothingGiven DEF ParserInv
  <2> QED
    BY <2>1, <2>2, <2>3, <2>4, <2>5, <2>6 DEF Next
<1> QED
  BY <1>1, InitInv, PTL DEF Spec

(* The state of rct_parse_arguments has its types: in particular no number *)
(* it stores is wider than the member of the configuration it goes into    *)
(* (vector_add_bench.c:46-80).                                             *)
THEOREM TypeCorrect ==
  Spec => []TypeOK
<1>1. ParserInv => TypeOK
  BY DEF ParserInv
<1> QED
  BY <1>1, ParserInvariant, PTL

(* However many options are given, in whatever order and however often,    *)
(* each is what its last value says, and the default without one           *)
(* (vector_add_bench.c:83-137).                                            *)
THEOREM LastValueDecides ==
  Spec => []LastValueCounts
<1>1. ParserInv => LastValueCounts
  BY DEF ParserInv, ValuesInv, Good, LastValueCounts
<1> QED
  BY <1>1, ParserInvariant, PTL

(* The benchmark that is run is the one asked for, with vectors and        *)
(* measured iterations to run it on (vector_add_bench.c:101-142).          *)
THEOREM RunWasAskedFor ==
  Spec => []RunIsAskedFor
<1>1. ParserInv => RunIsAskedFor
  BY DEF ParserInv, TypeOK, BenchmarkInv, PositiveInv, Good, RunIsAskedFor
<1> QED
  BY <1>1, ParserInvariant, PTL

(* Whatever the widths of uintmax_t, uint64_t and size_t: a number that is *)
(* run with is the one its text denotes, but for a minus sign behind white *)
(* space, and then off by UINTMAX_MAX + 1 (vector_add_bench.c:46-73).      *)
THEOREM NothingElseWraps ==
  Spec => []OnlyBlankMinusWraps
<1>1. ParserInv => OnlyBlankMinusWraps
  <2> SUFFICES ASSUME ParserInv, pc = "run",
                      NEW name \in NumberOptions, Places(name) # {}
               PROVE  LET text == LastValue(name).text
                      IN  \/ Denotes(text, Stored(name))
                          \/ /\ text.prefix = " -" /\ text.rest = "end"
                             /\ Stored(name) + text.digits = MaxUintmax + 1
    BY DEF OnlyBlankMinusWraps
  <2> DEFINE last == CHOOSE i \in Places(name) :
                       \A j \in Places(name) : j <= i
  <2>1. name \in Options
    BY DEF Options
  <2>2. last \in Places(name)
    BY <2>1 DEF ParserInv, PlacesInv
  <2>3. LastValue(name) = given[last].value
    BY DEF LastValue
  <2> HIDE DEF last
  <2>4. last \in DOMAIN given /\ given[last].option = name
    BY <2>2 DEF Places
  <2>5. LastValue(name) \in Arguments
    <3>1. given \in Seq(Entry)
      BY DEF ParserInv, TypeOK, Entry
    <3>2. given[last] \in Entry
      BY <2>4, <3>1
    <3> QED
      BY <2>3, <3>2 DEF Entry
  <2>6. Parsed(name, LastValue(name)) # Refused
    BY <2>3, <2>4 DEF ParserInv, AcceptedInv
  <2>7. Stored(name) = Strtoumax(LastValue(name).text).value
    BY DEF ParserInv, ValuesInv, Good, Stored
  <2>8. Stored(name) = Parsed(name, LastValue(name))
    BY <2>5, <2>6, <2>7, ParsedNumber
  <2> DEFINE argument == LastValue(name)
  <2>9. \/ Denotes(argument.text, Parsed(name, argument))
        \/ /\ argument.text.prefix = " -" /\ argument.text.rest = "end"
           /\ Parsed(name, argument) + argument.text.digits = MaxUintmax + 1
    <3> HIDE DEF argument
    <3> QED
      BY <2>5, <2>6, ParsedNumber DEF argument
  <2> QED
    BY <2>8, <2>9, Zenon
<1> QED
  BY <1>1, ParserInvariant, PTL
===============================================================================
