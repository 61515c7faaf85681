---------------------------- MODULE RunBenchmark ----------------------------
(***************************************************************************)
(* run_benchmark of rct/benchmark.py and the evidence readers it calls,    *)
(* while the build directory it reads may be built, cleaned or copied from *)
(* by others.                                                              *)
(*                                                                         *)
(* Every build has a number; the number in a file says which build the     *)
(* file is of, 0 that there is no such file.  What a reader finds is       *)
(* therefore the number of a build, and the question is whether all the    *)
(* evidence of a record is of the build that ran.  Each step of the        *)
(* collector is one call that touches a file or a process.                 *)
(***************************************************************************)
EXTENDS Integers, FiniteSets

CONSTANTS
  Directories,    \* build directories
  Preset,         \* the one of --preset
  CMakeVersions,  \* directories CMakeFiles/<version>, as sorted orders them
  BuildTraits,    \* what builds may be like, some of Traits
  MaxBuilds,      \* bound: how often anything is configured
  MaxMoves        \* bound: how many removals and copies there are

ASSUME PresetAssumption == Preset \in Directories
ASSUME VersionsAssumption ==
  CMakeVersions \subseteq Nat \ {0} /\ IsFiniteSet(CMakeVersions)
Builds == 1 .. MaxBuilds

(* What configuring leaves in compile_commands.json: nothing (only the     *)
(* presets ask for it), entries with the command of a kernel, entries with *)
(* arguments instead, text that is no JSON array, or what Python does not  *)
(* read: a command shlex cannot split, or bytes that are no text.          *)
CommandsTexts == {"none", "command", "arguments", "notArray", "unreadable"}

(* What its compilation leaves in auto.opt: nothing (only GCC is asked to  *)
(* write it), a text, or bytes that are no text.                           *)
ReportTexts == {"none", "text", "notText"}

(* What its configuration leaves in CMakeCCompiler.cmake, likewise.        *)
CompilerTexts == {"text", "notText"}

(* How its binary ends: with a result, with bytes that are no text, or     *)
(* otherwise (not started, another status, another text).                  *)
Endings == {"result", "notText", "failure"}

Traits == [ending : Endings, commands : CommandsTexts, report : ReportTexts,
           compiler : CompilerTexts]

ASSUME TraitsAssumption == BuildTraits \subseteq Traits

Unbuilt == [ending |-> "failure", commands |-> "command", report |-> "none",
            compiler |-> "text"]
ASSUME BoundsAssumption == MaxBuilds \in Nat /\ MaxMoves \in Nat

VARIABLES
  traits,     \* the traits of every build
  builds,     \* how many builds have been configured
  moves,      \* how many removals and copies there have been
  files,      \* the files of every directory
  progress,   \* how far the last build of a directory has come
  pc,         \* the next step of the collector
  given,      \* whether --binary was given
  directory,  \* the directory of binary_path
  ran,        \* the build whose binary was run
  compiler,   \* the version of the compiler file the glob has found
  evidence,   \* what was read: flags, vectorization, compiler, codegen
  home,       \* the directory a build was made in
  settled     \* whether the directory held one complete build when the
              \* collector started and nobody has touched it since

buildVars == <<traits, builds, moves, files, progress, home>>
collectorVars == <<pc, given, directory, ran, compiler, evidence, settled>>
vars == <<buildVars, collectorVars>>

Kinds == {"flags", "vectorization", "compiler", "scalar", "auto"}

Unread == [state |-> "unread", build |-> 0]
Unavailable == [state |-> "unavailable", build |-> 0]
NoFlags == [state |-> "empty", build |-> 0]
Found(build) == [state |-> "found", build |-> build]
Evidence == {Unread, Unavailable, NoFlags} \cup {Found(b) : b \in Builds}

NothingRead == [kind \in Kinds |-> Unread]

Files == [binary : 0 .. MaxBuilds, commands : 0 .. MaxBuilds,
          report : 0 .. MaxBuilds,
          compilers : [CMakeVersions -> 0 .. MaxBuilds]]

NoFiles == [binary |-> 0, commands |-> 0, report |-> 0,
            compilers |-> [v \in CMakeVersions |-> 0]]

NoBuild == [build |-> 0, stage |-> "none"]

(* The directories CMakeFiles/<version> a compiler file is in.             *)
Configured(d) == {v \in CMakeVersions : files[d].compilers[v] # 0}

-----------------------------------------------------------------------------
(***************************************************************************)
(* What others do to the build directories.                                *)
(***************************************************************************)
Touch(d) ==
  /\ settled' = (settled /\ d # directory)
  /\ UNCHANGED <<pc, given, directory, ran, compiler, evidence>>

(* cmake writes compile_commands.json, if asked to, and its compiler file. *)
(* Assumed: a directory is only configured with ever later versions.       *)
Configure(d, version, trait) ==
  /\ builds < MaxBuilds
  /\ \A v \in Configured(d) : v <= version
  /\ builds' = builds + 1
  /\ UNCHANGED moves
  /\ files' = [files EXCEPT
                 ![d].commands = IF trait.commands = "none" THEN @
                                 ELSE builds + 1,
                 ![d].compilers[version] = builds + 1]
  /\ progress' = [progress EXCEPT ![d] = [build |-> builds + 1,
                                          stage |-> "configured"]]
  /\ home' = [home EXCEPT ![builds + 1] = d]
  /\ traits' = [traits EXCEPT ![builds + 1] = trait]
  /\ Touch(d)

(* The auto kernel is compiled; what an earlier build reported stays when  *)
(* this one reports nothing.                                               *)
Compile(d) ==
  /\ progress[d].stage = "configured"
  /\ files' = [files EXCEPT ![d].report =
                 IF traits[progress[d].build].report = "none" THEN @
                 ELSE progress[d].build]
  /\ progress' = [progress EXCEPT ![d].stage = "compiled"]
  /\ Touch(d)
  /\ UNCHANGED <<traits, builds, moves, home>>

Link(d) ==
  /\ progress[d].stage = "compiled"
  /\ files' = [files EXCEPT ![d].binary = progress[d].build]
  /\ progress' = [progress EXCEPT ![d].stage = "linked"]
  /\ Touch(d)
  /\ UNCHANGED <<traits, builds, moves, home>>

(* The binary, one of the two texts or CMakeFiles is removed; no build     *)
(* goes on without configuring anew.  Assumed: CMakeFiles is removed as a  *)
(* whole, never the compiler file of one version out of several.           *)
Remove(d) ==
  /\ moves < MaxMoves
  /\ files' \in
       {[files EXCEPT ![d].binary = 0], [files EXCEPT ![d].commands = 0],
        [files EXCEPT ![d].report = 0],
        [files EXCEPT ![d].compilers = NoFiles.compilers]}
  /\ files' # files
  /\ progress' = [progress EXCEPT ![d] = NoBuild]
  /\ moves' = moves + 1
  /\ Touch(d)
  /\ UNCHANGED <<traits, builds, home>>

(* The binary is copied to another directory.                              *)
Copy(from, to) ==
  /\ moves < MaxMoves
  /\ from # to
  /\ files[from].binary # 0
  /\ files' = [files EXCEPT ![to].binary = files[from].binary]
  /\ progress' = [progress EXCEPT ![to] = NoBuild]
  /\ moves' = moves + 1
  /\ Touch(to)
  /\ UNCHANGED <<traits, builds, home>>

(* What happens once the collector has ended does not matter any more.     *)
BuildStep ==
  /\ pc \notin {"record", "error", "traceback"}
  /\ \E d \in Directories :
    \/ \E version \in CMakeVersions, trait \in BuildTraits :
         Configure(d, version, trait)
    \/ Compile(d)
    \/ Link(d)
    \/ Remove(d)
    \/ \E to \in Directories : Copy(d, to)

-----------------------------------------------------------------------------
(***************************************************************************)
(* The collector.                                                          *)
(***************************************************************************)
Goto(label) ==
  /\ pc' = label
  /\ UNCHANGED <<buildVars, given, directory, settled>>

Unlearned == UNCHANGED <<ran, compiler, evidence>>

(* Whatever is raised, what was read so far is lost.                       *)
Forget == ran' = 0 /\ compiler' = 0 /\ evidence' = NothingRead

(* The command line reports a BenchmarkError and exits with status 2.      *)
Fail == Goto("error") /\ Forget

(* Any other exception ends rct with a traceback and status 1.             *)
Raise == Goto("traceback") /\ Forget

Learn(kind, found, label) ==
  /\ evidence' = [evidence EXCEPT ![kind] = found]
  /\ UNCHANGED <<ran, compiler>>
  /\ Goto(label)

(* Mutant: the evidence is read from the preset even with --binary.        *)
PresetDirectory == Preset

(* The directory of binary_path, which is the preset's without --binary.   *)
BuildDirectory == IF given THEN directory ELSE Preset

(* resolve_binary_path and is_file; d is the parent of --binary.           *)
Start(withBinary, d) ==
  /\ pc = "idle"
  /\ withBinary \/ d = Preset
  /\ given' = withBinary
  /\ directory' = d
  /\ settled' = (progress[d].stage = "linked")
  /\ pc' = IF files[d].binary = 0 THEN "error" ELSE "execute"
  /\ UNCHANGED <<buildVars, ran, compiler, evidence>>

(* subprocess.run, and experiment_from_benchmark_protocol on its output.   *)
Execute ==
  /\ pc = "execute"
  /\ LET build == files[directory].binary
     IN  IF build = 0 THEN Fail
         ELSE LET ending == traits[build].ending
              IN  \/ ending = "failure" /\ Fail
                  \/ ending = "notText" /\ Raise
                  \/ /\ ending = "result"
                     /\ ran' = build
                     /\ UNCHANGED <<compiler, evidence>>
                     /\ Goto("find_commands")

(* Mutant: the file is read without the test that it is there.             *)
UncheckedFindCommands == pc = "find_commands" /\ Unlearned
                           /\ Goto("read_commands")

(* load_kernel_compile_flags up to its is_file.                            *)
FindCommands ==
  /\ pc = "find_commands"
  /\ IF files[BuildDirectory].commands = 0
     THEN Learn("flags", Unavailable, "read_report")
     ELSE Unlearned /\ Goto("read_commands")

(* And the rest of it: the file may be gone by now.                        *)
ReadCommands ==
  /\ pc = "read_commands"
  /\ LET build == files[BuildDirectory].commands
     IN  IF build = 0 THEN Raise
         ELSE LET text == traits[build].commands
              IN  \/ text = "unreadable" /\ Raise
                  \/ text = "notArray" /\ Fail
                  \/ /\ text = "arguments"
                     /\ Learn("flags", NoFlags, "read_report")
                  \/ /\ text = "command"
                     /\ Learn("flags", Found(build), "read_report")

(* Mutant: what read_text raises for a missing report is not caught.       *)
UncaughtReadReport ==
  /\ pc = "read_report"
  /\ LET build == files[BuildDirectory].report
     IN  IF build = 0 \/ traits[build].report = "notText" THEN Raise
         ELSE Learn("vectorization", Found(build), "find_compiler")

(* load_vectorization_reports: no file is evidence that is unavailable.    *)
ReadReport ==
  /\ pc = "read_report"
  /\ LET build == files[BuildDirectory].report
     IN  IF build = 0
         THEN Learn("vectorization", Unavailable, "find_compiler")
         ELSE IF traits[build].report = "notText" THEN Raise
         ELSE Learn("vectorization", Found(build), "find_compiler")

(* Mutant: the first of the sorted compiler files is read.                 *)
FirstFound(d) ==
  CHOOSE v \in Configured(d) : \A w \in Configured(d) : v <= w

(* compiler_files[-1]                                                      *)
LastFound(d) ==
  CHOOSE v \in Configured(d) : \A w \in Configured(d) : w <= v

(* load_compiler_metadata up to its glob.                                  *)
FindCompiler ==
  /\ pc = "find_compiler"
  /\ IF Configured(BuildDirectory) = {}
     THEN Learn("compiler", Unavailable, "scalar")
     ELSE /\ compiler' = LastFound(BuildDirectory)
          /\ UNCHANGED <<ran, evidence>>
          /\ Goto("read_compiler")

(* And the read of the file it has found, which may be gone by now.        *)
ReadCompiler ==
  /\ pc = "read_compiler"
  /\ LET build == files[BuildDirectory].compilers[compiler]
     IN  IF build = 0 \/ traits[build].compiler = "notText" THEN Raise
         ELSE Learn("compiler", Found(build), "scalar")

(* Mutant: the disassembler is run without the test for a binary.          *)
UncheckedDisassemble(kernel, label) ==
  /\ pc = kernel
  /\ Learn(kernel, Found(files[directory].binary), label)

(* load_codegen_reports for one kernel: without a binary, a disassembler   *)
(* or instructions in its output the evidence is unavailable.              *)
Disassemble(kernel, label) ==
  /\ pc = kernel
  /\ \/ Learn(kernel, Unavailable, label)
     \/ /\ files[directory].binary # 0
        /\ Learn(kernel, Found(files[directory].binary), label)

CollectorStep ==
  \/ \E withBinary \in BOOLEAN, d \in Directories : Start(withBinary, d)
  \/ Execute
  \/ FindCommands
  \/ ReadCommands
  \/ ReadReport
  \/ FindCompiler
  \/ ReadCompiler
  \/ Disassemble("scalar", "auto")
  \/ Disassemble("auto", "record")

Init ==
  /\ traits = [b \in Builds |-> Unbuilt]
  /\ builds = 0
  /\ moves = 0
  /\ files = [d \in Directories |-> NoFiles]
  /\ progress = [d \in Directories |-> NoBuild]
  /\ home = [b \in Builds |-> Preset]
  /\ pc = "idle"
  /\ given = FALSE
  /\ directory = Preset
  /\ ran = 0
  /\ compiler = 0
  /\ evidence = NothingRead
  /\ settled = FALSE

Next == CollectorStep \/ BuildStep

Spec == Init /\ [][Next]_vars

-----------------------------------------------------------------------------
TypeOK ==
  /\ traits \in [Builds -> Traits]
  /\ builds \in 0 .. MaxBuilds
  /\ moves \in 0 .. MaxMoves
  /\ files \in [Directories -> Files]
  /\ progress \in
       [Directories -> [build : 0 .. MaxBuilds,
                        stage : {"none", "configured", "compiled",
                                 "linked"}]]
  /\ home \in [Builds -> Directories]
  /\ pc \in {"idle", "execute", "find_commands", "read_commands",
            "read_report", "find_compiler", "read_compiler", "scalar",
            "auto", "record", "error", "traceback"}
  /\ given \in BOOLEAN
  /\ directory \in Directories
  /\ ran \in 0 .. MaxBuilds
  /\ compiler \in CMakeVersions \cup {0}
  /\ evidence \in [Kinds -> Evidence]
  /\ settled \in BOOLEAN

(* Whether a build writes the file some evidence is read from, rather than *)
(* leaving there what an earlier one has written.                          *)
Writes(build, kind) ==
  /\ kind = "vectorization" => traits[build].report # "none"
  /\ kind = "flags" => traits[build].commands # "none"

(* All evidence in a record is of the build that was measured, if the      *)
(* build directory held one complete build and nobody touched it meanwhile,*)
(* whichever directory that is and whatever older builds have left in it   *)
(* (rct/benchmark.py:208-267), except in files this build does not write.  *)
RecordIsOfOneBuild ==
  pc = "record" /\ settled =>
    \A kind \in Kinds :
      evidence[kind].state = "found" /\ Writes(ran, kind) =>
        evidence[kind].build = ran

(* However a build, a removal or a copy is interleaved with the collector, *)
(* what is read from the directory the running build was made in is never  *)
(* older: the binary is run before its evidence is read, and linked after  *)
(* that is written (rct/benchmark.py:222-259).                             *)
EvidenceIsNotOlder ==
  ran # 0 /\ home[ran] = directory =>
    \A kind \in {"flags", "vectorization", "compiler"} :
      evidence[kind].state = "found" /\ Writes(ran, kind) =>
        evidence[kind].build >= ran

(* The version sorted puts last among the compiler files of a directory.   *)
IsLast(d, v) == /\ v \in Configured(d)
                /\ \A w \in Configured(d) : w <= v

(* The binary in d does not end with a result, or the commands are no      *)
(* array: what the collector answers with an error.                        *)
Refused(d) ==
  LET found == files[d]
  IN  \/ found.binary # 0 /\ traits[found.binary].ending = "failure"
      \/ found.commands # 0 /\ traits[found.commands].commands = "notArray"

(* Something in d, a compiler file of one of the versions included, is     *)
(* there and cannot be read as the text it should be.                      *)
Garbled(d, versions) ==
  LET found == files[d]
  IN  \/ found.binary # 0 /\ traits[found.binary].ending = "notText"
      \/ found.commands # 0 /\ traits[found.commands].commands = "unreadable"
      \/ found.report # 0 /\ traits[found.report].report = "notText"
      \/ \E v \in versions :
           /\ found.compilers[v] # 0
           /\ traits[found.compilers[v]].compiler = "notText"

LastVersions(d) == {v \in CMakeVersions : IsLast(d, v)}

(* A complete build that nobody touches is recorded unless the very binary *)
(* or file read is at fault, and an error and a traceback have different   *)
(* faults: no step of several finds what the step before it has checked    *)
(* gone, and no missing or foreign file ends the collector                 *)
(* (rct/benchmark.py:208-259, rct/build_metadata.py:22-28, 66-85).         *)
SettledBuildIsRecorded ==
  settled =>
    /\ pc = "error" => Refused(directory)
    /\ pc = "traceback" => Garbled(directory, LastVersions(directory))

(* The check before a read holds until the read, even if the directory is  *)
(* configured, compiled and linked anew in between: while nothing was ever *)
(* removed, only what cannot be read ends the collector with a traceback   *)
(* (rct/build_metadata.py:22-28, 66-70).                                   *)
BuildsDoNotRace ==
  pc = "traceback" /\ moves = 0 => Garbled(directory, CMakeVersions)
-----------------------------------------------------------------------------
(***************************************************************************)
(* The inductive invariant the proofs rest on (RunBenchmarkProofs).        *)
(***************************************************************************)

(* Where nobody has removed or copied anything since its last build, a     *)
(* directory holds what that build has written so far.                     *)
HoldsLastBuild(d) ==
  LET build == progress[d].build
      stage == progress[d].stage
  IN  /\ stage # "none" =>
           /\ build \in 1 .. builds
           /\ home[build] = d
           /\ traits[build].commands # "none" => files[d].commands = build
           /\ Configured(d) # {}
           /\ \A v \in CMakeVersions :
                IsLast(d, v) => files[d].compilers[v] = build
      /\ stage \in {"compiled", "linked"} /\ traits[build].report # "none" =>
           files[d].report = build
      /\ stage = "linked" => files[d].binary = build

DirectoryInv ==
  \A d \in Directories :
    /\ Configured(d) # {} => \E v \in CMakeVersions : IsLast(d, v)
    /\ HoldsLastBuild(d)

(* A file is gone, or at least of the build b.                             *)
Since(b, file) == file = 0 \/ file >= b

(* Once there is a binary of a build, the directory it was made in holds   *)
(* nothing older of what it writes, and nothing older is under way there.  *)
NothingOlderThan(b) ==
  LET d == home[b]
  IN  /\ b <= builds
      /\ progress[d].stage # "none" => progress[d].build >= b
      /\ Writes(b, "flags") => Since(b, files[d].commands)
      /\ Writes(b, "vectorization") => Since(b, files[d].report)
      /\ \A v \in CMakeVersions :
           IsLast(d, v) => Since(b, files[d].compilers[v])

Linked == ({files[d].binary : d \in Directories} \cup {ran}) \ {0}

AgeInv == \A b \in Linked : NothingOlderThan(b)

Reading == {"find_commands", "read_commands", "read_report", "find_compiler",
            "read_compiler", "scalar", "auto"}

(* What the collector knows follows from where it is.                      *)
CollectorInv ==
  /\ given \/ directory = Preset
  /\ pc \in {"idle", "execute"} => ran = 0 /\ evidence = NothingRead
  /\ pc \in Reading \cup {"record"} => ran # 0
  /\ pc = "read_compiler" =>
       /\ compiler \in CMakeVersions
       /\ home[ran] = directory =>
            Since(ran, files[directory].compilers[compiler])
  /\ EvidenceIsNotOlder

(* And in a directory nobody touches it reads of one build only.           *)
SettledInv ==
  settled =>
    /\ progress[directory].stage = "linked"
    /\ pc \in Reading \cup {"record"} =>
         /\ ran = progress[directory].build
         /\ \A kind \in Kinds :
              evidence[kind].state = "found" /\ Writes(ran, kind) =>
                evidence[kind].build = ran
    /\ pc = "read_commands" => files[directory].commands # 0
    /\ pc = "read_compiler" =>
         /\ IsLast(directory, compiler)
         /\ files[directory].compilers[compiler] = ran
    /\ SettledBuildIsRecorded

(* What was checked is still there while nothing is removed.               *)
RaceInv ==
  /\ moves = 0 =>
       /\ pc = "read_commands" => files[directory].commands # 0
       /\ pc = "read_compiler" => files[directory].compilers[compiler] # 0
  /\ BuildsDoNotRace

RecordInv == /\ TypeOK
             /\ DirectoryInv
             /\ AgeInv
             /\ CollectorInv
             /\ SettledInv
             /\ RaceInv
=============================================================================
