-------------------------- MODULE RunBenchmarkProofs --------------------------
(***************************************************************************)
(* What the collector records, however builds, removals and copies are     *)
(* interleaved with it, for every number of them: RecordInv is inductive.  *)
(***************************************************************************)
EXTENDS RunBenchmark, TLAPS

-----------------------------------------------------------------------------
(***************************************************************************)
(* What the steps of others do to the files of each directory.             *)
(***************************************************************************)

(* Configuring d makes a build of a new number, whose compiler file is the *)
(* last one of d.                                                          *)
LEMMA ConfigureWrites ==
  ASSUME TypeOK, NEW d \in Directories, NEW version \in CMakeVersions,
         NEW trait \in BuildTraits, Configure(d, version, trait)
  PROVE  /\ builds' = builds + 1 /\ builds' \in Builds /\ builds \in Nat
         /\ home' = [home EXCEPT ![builds + 1] = d]
         /\ home' \in [Builds -> Directories]
         /\ traits' = [traits EXCEPT ![builds + 1] = trait]
         /\ traits' \in [Builds -> Traits]
         /\ progress'[d] = [build |-> builds + 1, stage |-> "configured"]
         /\ \A x \in Directories : x # d => /\ progress'[x] = progress[x]
                                            /\ files'[x] = files[x]
         /\ files'[d].binary = files[d].binary
         /\ files'[d].report = files[d].report
         /\ files'[d].commands = IF trait.commands = "none"
                                 THEN files[d].commands ELSE builds + 1
         /\ files'[d].compilers =
              [files[d].compilers EXCEPT ![version] = builds + 1]
         /\ files' \in [Directories -> Files]
<1>1. /\ builds \in Nat /\ builds < MaxBuilds /\ MaxBuilds \in Nat
      /\ builds' = builds + 1
  BY BoundsAssumption DEF Configure, TypeOK
<1>2. builds + 1 \in Builds /\ builds + 1 \in 0 .. MaxBuilds
  BY <1>1 DEF Builds
<1>3. /\ files[d] \in Files
      /\ files[d].compilers \in [CMakeVersions -> 0 .. MaxBuilds]
      /\ files \in [Directories -> Files]
  BY DEF TypeOK, Files
<1>4. files'[d] = [files[d] EXCEPT
                     !.commands = IF trait.commands = "none" THEN @
                                  ELSE builds + 1,
                     !.compilers[version] = builds + 1]
  BY <1>3 DEF Configure
<1> DEFINE commands == IF trait.commands = "none" THEN files[d].commands
                       ELSE builds + 1
           compilers == [files[d].compilers EXCEPT ![version] = builds + 1]
<1>5. /\ files'[d].binary = files[d].binary
      /\ files'[d].report = files[d].report
      /\ files'[d].commands = commands
      /\ files'[d].compilers = compilers
      /\ files'[d] \in Files
  <2>1. files'[d] = [binary |-> files[d].binary, report |-> files[d].report,
                     commands |-> commands, compilers |-> compilers]
    BY <1>3, <1>4 DEF Files
  <2>2. commands \in 0 .. MaxBuilds
    BY <1>2, <1>3 DEF Files
  <2>3. compilers \in [CMakeVersions -> 0 .. MaxBuilds]
    BY <1>2, <1>3
  <2> HIDE DEF commands, compilers
  <2> QED
    BY <1>3, <2>1, <2>2, <2>3 DEF Files
<1>6. files' \in [Directories -> Files]
  BY <1>3, <1>5 DEF Configure
<1>7. /\ home' = [home EXCEPT ![builds + 1] = d]
      /\ home' \in [Builds -> Directories]
  BY <1>2 DEF Configure, TypeOK
<1>8. /\ traits' = [traits EXCEPT ![builds + 1] = trait]
      /\ traits' \in [Builds -> Traits]
  BY <1>2, TraitsAssumption DEF Configure, TypeOK
<1>9. /\ progress'[d] = [build |-> builds + 1, stage |-> "configured"]
      /\ \A x \in Directories : x # d => /\ progress'[x] = progress[x]
                                         /\ files'[x] = files[x]
  BY DEF Configure, TypeOK
<1> QED
  BY <1>1, <1>2, <1>5, <1>6, <1>7, <1>8, <1>9

(* Compiling writes the report of the build under way, or leaves it.       *)
LEMMA CompileWrites ==
  ASSUME TypeOK, NEW d \in Directories, Compile(d)
  PROVE  /\ progress[d].stage = "configured"
         /\ progress'[d] = [build |-> progress[d].build, stage |-> "compiled"]
         /\ files'[d].binary = files[d].binary
         /\ files'[d].commands = files[d].commands
         /\ files'[d].compilers = files[d].compilers
         /\ files'[d].report = IF traits[progress[d].build].report = "none"
                               THEN files[d].report ELSE progress[d].build
         /\ files' \in [Directories -> Files]
<1> DEFINE build == progress[d].build
           report == IF traits[build].report = "none" THEN files[d].report
                     ELSE build
<1>1. files[d] \in Files /\ build \in 0 .. MaxBuilds
  BY DEF TypeOK
<1>2. files' = [files EXCEPT ![d].report = report]
  BY DEF Compile, TypeOK
<1>3. report \in 0 .. MaxBuilds
  BY <1>1 DEF Files
<1>4. progress'[d] = [build |-> build, stage |-> "compiled"]
  BY DEF Compile, TypeOK
<1> HIDE DEF report
<1>5. /\ files'[d].binary = files[d].binary
      /\ files'[d].commands = files[d].commands
      /\ files'[d].compilers = files[d].compilers
      /\ files'[d].report = report
      /\ files' \in [Directories -> Files]
  BY <1>1, <1>2, <1>3 DEF TypeOK, Files
<1> QED
  BY <1>4, <1>5 DEF Compile, report

(* Linking writes the binary of the build under way.                       *)
LEMMA LinkWrites ==
  ASSUME TypeOK, NEW d \in Directories, Link(d)
  PROVE  /\ progress[d].stage = "compiled"
         /\ progress'[d] = [build |-> progress[d].build, stage |-> "linked"]
         /\ files'[d] = [files[d] EXCEPT !.binary = progress[d].build]
         /\ files' \in [Directories -> Files]
<1>1. files[d] \in Files /\ progress[d].build \in 0 .. MaxBuilds
  BY DEF TypeOK
<1>2. files' = [files EXCEPT ![d].binary = progress[d].build]
  BY DEF Link
<1>3. files'[d] = [files[d] EXCEPT !.binary = progress[d].build]
  BY <1>2 DEF TypeOK
<1>4. files' \in [Directories -> Files]
  BY <1>1, <1>2 DEF TypeOK, Files
<1> QED
  BY <1>3, <1>4 DEF Link, TypeOK

(* Removing empties a file or the directory of the compiler files.         *)
LEMMA RemoveEmpties ==
  ASSUME TypeOK, NEW d \in Directories, Remove(d)
  PROVE  /\ progress'[d] = NoBuild
         /\ files'[d].binary \in {files[d].binary, 0}
         /\ files'[d].commands \in {files[d].commands, 0}
         /\ files'[d].report \in {files[d].report, 0}
         /\ files'[d].compilers \in {files[d].compilers, NoFiles.compilers}
         /\ files' \in [Directories -> Files]
         /\ \A x \in Directories : x # d => files'[x] = files[x]
<1>1. files[d] \in Files /\ 0 \in 0 .. MaxBuilds /\ NoFiles \in Files
  BY BoundsAssumption DEF TypeOK, Files, NoFiles
<1>2. /\ files'[d] \in {[files[d] EXCEPT !.binary = 0],
                        [files[d] EXCEPT !.commands = 0],
                        [files[d] EXCEPT !.report = 0],
                        [files[d] EXCEPT !.compilers = NoFiles.compilers]}
      /\ \A x \in Directories : x # d => files'[x] = files[x]
      /\ DOMAIN files' = Directories
      /\ files' = [x \in Directories |-> files'[x]]
  BY DEF Remove, TypeOK
<1>3. /\ files'[d].binary \in {files[d].binary, 0}
      /\ files'[d].commands \in {files[d].commands, 0}
      /\ files'[d].report \in {files[d].report, 0}
      /\ files'[d].compilers \in {files[d].compilers, NoFiles.compilers}
      /\ files'[d] \in Files
  BY <1>1, <1>2 DEF Files
<1>4. files' \in [Directories -> Files]
  <2>1. \A x \in Directories : files'[x] \in Files
    BY <1>2, <1>3 DEF TypeOK
  <2> QED
    BY <1>2, <2>1
<1> QED
  BY <1>2, <1>3, <1>4 DEF Remove, TypeOK

(* Copying puts another directory's binary into d.                         *)
LEMMA CopyWrites ==
  ASSUME TypeOK, NEW from \in Directories, NEW d \in Directories,
         Copy(from, d)
  PROVE  /\ progress'[d] = NoBuild
         /\ files'[d] = [files[d] EXCEPT !.binary = files[from].binary]
         /\ files' \in [Directories -> Files]
<1>1. files[d] \in Files /\ files[from] \in Files
  BY DEF TypeOK
<1>2. files'[d] = [files[d] EXCEPT !.binary = files[from].binary]
  BY DEF Copy, TypeOK
<1>3. files' = [files EXCEPT ![d].binary = files[from].binary]
  BY DEF Copy
<1>4. files' \in [Directories -> Files]
  <2>1. files[from].binary \in 0 .. MaxBuilds
    BY <1>1 DEF Files
  <2> QED
    BY <1>1, <1>3, <2>1 DEF TypeOK, Files
<1> QED
  BY <1>2, <1>4 DEF Copy, TypeOK

-----------------------------------------------------------------------------
(***************************************************************************)
(* What a step on the directory d leaves as it is.                         *)
(***************************************************************************)
OnlyTouches(d) ==
  /\ Touch(d)
  /\ pc \notin {"record", "error", "traceback"}
  /\ builds' \in {builds, builds + 1}
  /\ \A b \in 1 .. builds : traits'[b] = traits[b] /\ home'[b] = home[b]
  /\ \A x \in Directories \ {d} :
       files'[x] = files[x] /\ progress'[x] = progress[x]
  /\ \A v \in CMakeVersions :
       files'[d].compilers[v] \in {files[d].compilers[v], 0, builds + 1}

(* The steps of others touch one directory and leave every earlier build   *)
(* as it was made.                                                         *)
LEMMA BuildersTouchOne ==
  ASSUME TypeOK, NEW d \in Directories,
         pc \notin {"record", "error", "traceback"},
         \/ \E version \in CMakeVersions, trait \in BuildTraits :
              Configure(d, version, trait)
         \/ Compile(d) \/ Link(d) \/ Remove(d)
         \/ \E from \in Directories : Copy(from, d)
  PROVE  OnlyTouches(d)
<1> USE DEF OnlyTouches
<1>0. builds \in Nat
  BY BoundsAssumption DEF TypeOK
<1>1. ASSUME NEW version \in CMakeVersions, NEW trait \in BuildTraits,
             Configure(d, version, trait)
      PROVE  OnlyTouches(d)
  <2>1. \A b \in 1 .. builds : traits'[b] = traits[b] /\ home'[b] = home[b]
    <3>1. \A b \in 1 .. builds : b # builds + 1 /\ b \in Builds
      BY <1>0, BoundsAssumption DEF TypeOK, Builds
    <3> QED
      BY <1>1, <3>1 DEF Configure, TypeOK
  <2>2. \A v \in CMakeVersions :
          files'[d].compilers[v] \in {files[d].compilers[v], 0, builds + 1}
    <3>1. files'[d].compilers =
            [files[d].compilers EXCEPT ![version] = builds + 1]
      BY <1>1, ConfigureWrites
    <3>2. files[d].compilers \in [CMakeVersions -> 0 .. MaxBuilds]
      BY DEF TypeOK, Files
    <3> QED
      BY <3>1, <3>2
  <2>3. \A x \in Directories : x # d => /\ progress'[x] = progress[x]
                                        /\ files'[x] = files[x]
    BY <1>1, ConfigureWrites
  <2> QED
    BY <1>1, <2>1, <2>2, <2>3 DEF Configure
<1>2. CASE Compile(d)
  BY <1>2, CompileWrites DEF Compile, TypeOK
<1>3. CASE Link(d)
  <2>1. files'[d].compilers = files[d].compilers
    <3>1. files'[d] = [files[d] EXCEPT !.binary = progress[d].build]
      BY <1>3, LinkWrites
    <3>2. files[d] \in Files
      BY DEF TypeOK
    <3> QED
      BY <3>1, <3>2 DEF Files
  <2> QED
    BY <1>3, <2>1 DEF Link, TypeOK
<1>4. CASE Remove(d)
  <2>1. /\ files'[d].compilers \in {files[d].compilers, NoFiles.compilers}
        /\ \A x \in Directories : x # d => files'[x] = files[x]
    BY <1>4, RemoveEmpties
  <2>2. \A v \in CMakeVersions :
          files'[d].compilers[v] \in {files[d].compilers[v], 0}
    BY <2>1 DEF NoFiles
  <2> QED
    BY <1>4, <2>1, <2>2 DEF Remove, TypeOK
<1>5. ASSUME NEW from \in Directories, Copy(from, d)
      PROVE  OnlyTouches(d)
  <2>1. files'[d].compilers = files[d].compilers
    <3>1. files'[d] = [files[d] EXCEPT !.binary = files[from].binary]
      BY <1>5, CopyWrites
    <3>2. files[d] \in Files
      BY DEF TypeOK
    <3> QED
      BY <3>1, <3>2 DEF Files
  <2> QED
    BY <1>5, <2>1 DEF Copy, TypeOK
<1> QED
  BY <1>1, <1>2, <1>3, <1>4, <1>5

(* The compiler files of a directory no step has changed.                  *)
LEMMA SameCompilers ==
  ASSUME NEW d \in Directories, files'[d].compilers = files[d].compilers
  PROVE  /\ Configured(d)' = Configured(d)
         /\ \A v : IsLast(d, v)' <=> IsLast(d, v)
<1>1. Configured(d)' = Configured(d)
  BY DEF Configured
<1> QED
  BY <1>1 DEF IsLast

(* Other directories go on holding what their last build has written.      *)
LEMMA ElsewhereHolds ==
  ASSUME TypeOK, DirectoryInv, NEW d \in Directories, OnlyTouches(d),
         NEW x \in Directories, x # d
  PROVE  /\ Configured(x)' # {} => \E v \in CMakeVersions : IsLast(x, v)'
         /\ HoldsLastBuild(x)'
<1>1. files'[x] = files[x] /\ progress'[x] = progress[x]
  BY DEF OnlyTouches
<1>2. /\ Configured(x)' = Configured(x)
      /\ \A v : IsLast(x, v)' <=> IsLast(x, v)
  BY <1>1, SameCompilers
<1>3. HoldsLastBuild(x)
  BY DEF DirectoryInv
<1> DEFINE build == progress[x].build
<1>4. progress[x].stage # "none" =>
        /\ build \in 1 .. builds /\ build \in 1 .. builds'
        /\ traits'[build] = traits[build] /\ home'[build] = home[build]
  BY <1>3, BoundsAssumption DEF HoldsLastBuild, OnlyTouches, TypeOK
<1>5. HoldsLastBuild(x)'
  BY <1>1, <1>2, <1>3, <1>4 DEF HoldsLastBuild
<1> QED
  BY <1>2, <1>5 DEF DirectoryInv

(* And a build made elsewhere goes on finding nothing older there.         *)
LEMMA ElsewhereIsNotOlder ==
  ASSUME TypeOK, AgeInv, NEW d \in Directories, OnlyTouches(d),
         NEW b \in Linked, home[b] # d
  PROVE  NothingOlderThan(b)'
<1>1. NothingOlderThan(b) /\ b \in 1 .. builds /\ builds' >= builds
      /\ b \in Builds /\ b <= builds'
  <2>1. b \in Nat \ {0}
    BY BoundsAssumption DEF Linked, TypeOK, Files
  <2>2. NothingOlderThan(b) /\ b <= builds
    BY DEF AgeInv, NothingOlderThan
  <2>3. /\ builds \in 0 .. MaxBuilds /\ MaxBuilds \in Nat
        /\ builds' \in {builds, builds + 1}
    BY BoundsAssumption DEF TypeOK, OnlyTouches
  <2> QED
    BY <2>1, <2>2, <2>3 DEF Builds
<1> DEFINE x == home[b]
<1>2. x \in Directories /\ x # d
  BY <1>1 DEF TypeOK
<1>3. /\ home'[b] = home[b] /\ traits'[b] = traits[b]
      /\ files'[x] = files[x] /\ progress'[x] = progress[x]
  BY <1>1, <1>2 DEF OnlyTouches
<1>4. \A v : /\ v \in {w \in CMakeVersions : files'[x].compilers[w] # 0}
                <=> v \in Configured(x)
  BY <1>3 DEF Configured
<1> QED
  BY <1>1, <1>2, <1>3, <1>4
  DEF NothingOlderThan, Since, Writes, IsLast, Configured

(* A build with a binary is one of those configured so far.                *)
LEMMA LinkedIsBuilt ==
  ASSUME TypeOK, AgeInv, NEW b \in Linked
  PROVE  b \in 1 .. builds /\ b \in Builds
<1>1. b \in Nat \ {0}
  BY BoundsAssumption DEF Linked, TypeOK, Files
<1>2. b <= builds
  BY DEF AgeInv, NothingOlderThan
<1>3. builds \in 0 .. MaxBuilds /\ MaxBuilds \in Nat
  BY BoundsAssumption DEF TypeOK
<1> QED
  BY <1>1, <1>2, <1>3 DEF Builds

(* While nothing is removed, what the collector has checked stays there.   *)
LEMMA BuildersKeepTheChecks ==
  ASSUME TypeOK, CollectorInv, RaceInv, NEW d \in Directories,
         OnlyTouches(d),
         \/ \E version \in CMakeVersions, trait \in BuildTraits :
              Configure(d, version, trait)
         \/ Compile(d) \/ Link(d) \/ Remove(d)
         \/ \E from \in Directories : Copy(from, d)
  PROVE  RaceInv'
<1>1. /\ UNCHANGED <<pc, directory, compiler>>
      /\ pc \notin {"record", "error", "traceback"}
      /\ directory \in Directories /\ builds \in Nat
  BY BoundsAssumption DEF OnlyTouches, Touch, TypeOK
<1>2. BuildsDoNotRace'
  BY <1>1 DEF BuildsDoNotRace
<1> SUFFICES ASSUME moves' = 0
             PROVE  /\ pc = "read_commands" => files'[directory].commands # 0
                    /\ pc = "read_compiler" =>
                         files'[directory].compilers[compiler] # 0
  BY <1>1, <1>2 DEF RaceInv
<1>3. moves = 0 /\ ~ Remove(d) /\ ~ \E from \in Directories : Copy(from, d)
  <2>1. moves \in Nat
    BY BoundsAssumption DEF TypeOK
  <2>2. moves' = moves \/ moves' = moves + 1
    BY DEF Configure, Compile, Link, Remove, Copy
  <2>3. Remove(d) \/ (\E from \in Directories : Copy(from, d)) =>
          moves' = moves + 1
    BY DEF Remove, Copy
  <2> QED
    BY <2>1, <2>2, <2>3
<1>4. CASE directory # d
  <2>1. files'[directory] = files[directory]
    BY <1>1, <1>4 DEF OnlyTouches
  <2> QED
    BY <1>3, <2>1 DEF RaceInv
<1>5. CASE directory = d
  <2>1. /\ files'[d].commands \in {files[d].commands, builds + 1}
        /\ \A v \in CMakeVersions :
             files'[d].compilers[v] \in {files[d].compilers[v], builds + 1}
    <3>1. ASSUME NEW version \in CMakeVersions, NEW trait \in BuildTraits,
                 Configure(d, version, trait)
          PROVE  /\ files'[d].commands \in {files[d].commands, builds + 1}
                 /\ \A v \in CMakeVersions :
                      files'[d].compilers[v] \in
                        {files[d].compilers[v], builds + 1}
      <4>1. files[d].compilers \in [CMakeVersions -> 0 .. MaxBuilds]
        BY DEF TypeOK, Files
      <4>2. /\ files'[d].commands = IF trait.commands = "none"
                                    THEN files[d].commands ELSE builds + 1
            /\ files'[d].compilers =
                 [files[d].compilers EXCEPT ![version] = builds + 1]
        BY <3>1, ConfigureWrites
      <4> QED
        BY <4>1, <4>2
    <3>2. CASE Compile(d)
      BY <3>2, CompileWrites
    <3>3. CASE Link(d)
      <4>1. files'[d] = [files[d] EXCEPT !.binary = progress[d].build]
        BY <3>3, LinkWrites
      <4>2. files[d] \in Files
        BY DEF TypeOK
      <4> QED
        BY <4>1, <4>2 DEF Files
    <3> QED
      BY <1>3, <3>1, <3>2, <3>3
  <2>2. pc = "read_compiler" => compiler \in CMakeVersions
    BY DEF CollectorInv
  <2>3. builds + 1 # 0
    BY <1>1
  <2> QED
    BY <1>3, <1>5, <2>1, <2>2, <2>3 DEF RaceInv
<1> QED
  BY <1>4, <1>5

(* What the collector has learned stays true whatever others do.           *)
LEMMA BuildersKeepTheCollector ==
  ASSUME TypeOK, AgeInv, CollectorInv, SettledInv,
         NEW d \in Directories, OnlyTouches(d)
  PROVE  CollectorInv' /\ SettledInv'
<1>1. /\ UNCHANGED <<pc, given, directory, ran, compiler, evidence>>
      /\ settled' => settled /\ d # directory
      /\ pc \notin {"record", "error", "traceback"}
  BY DEF OnlyTouches, Touch
<1>2. ran # 0 => ran \in 1 .. builds
  <2>1. ran # 0 => ran \in Linked
    BY DEF Linked
  <2> QED
    BY <2>1, LinkedIsBuilt
<1>3. ran # 0 => traits'[ran] = traits[ran] /\ home'[ran] = home[ran]
  BY <1>2 DEF OnlyTouches
<1>4. pc = "read_compiler" /\ home'[ran] = directory =>
        Since(ran, files'[directory].compilers[compiler])
  <2> SUFFICES ASSUME pc = "read_compiler", home'[ran] = directory
               PROVE  Since(ran, files'[directory].compilers[compiler])
    OBVIOUS
  <2>1. /\ ran # 0 /\ compiler \in CMakeVersions
        /\ Since(ran, files[directory].compilers[compiler])
    BY <1>3 DEF CollectorInv, Reading
  <2>2. CASE directory = d
    <3>1. files'[d].compilers[compiler] \in
            {files[d].compilers[compiler], 0, builds + 1}
      BY <2>1 DEF OnlyTouches
    <3>2. builds + 1 >= ran
      BY <1>2, <2>1, BoundsAssumption DEF TypeOK
    <3> QED
      BY <2>1, <2>2, <3>1, <3>2 DEF Since
  <2>3. CASE directory # d
    BY <2>1, <2>3 DEF OnlyTouches, TypeOK
  <2> QED
    BY <2>2, <2>3
<1>5. EvidenceIsNotOlder'
  BY <1>1, <1>3 DEF CollectorInv, EvidenceIsNotOlder, Writes
<1>6. CollectorInv'
  BY <1>1, <1>4, <1>5 DEF CollectorInv, Since
<1>7. SettledInv'
  <2> SUFFICES ASSUME settled' PROVE SettledInv'
    BY DEF SettledInv
  <2>1. /\ settled /\ files'[directory] = files[directory]
        /\ progress'[directory] = progress[directory]
    BY <1>1 DEF OnlyTouches, TypeOK
  <2>2. \A kind : ran # 0 => (Writes(ran, kind)' <=> Writes(ran, kind))
    BY <1>1, <1>3 DEF Writes
  <2>3. SettledBuildIsRecorded'
    BY <1>1 DEF SettledBuildIsRecorded
  <2>4. pc \in Reading \cup {"record"} => ran # 0
    BY DEF CollectorInv
  <2>5. \A v : IsLast(directory, v)' <=> IsLast(directory, v)
    BY <1>1, <2>1, SameCompilers DEF TypeOK, IsLast, Configured
  <2> QED
    BY <1>1, <2>1, <2>2, <2>3, <2>4, <2>5 DEF SettledInv
<1> QED
  BY <1>6, <1>7

-----------------------------------------------------------------------------
(***************************************************************************)
(* The steps of others preserve the rest of the invariant.                 *)
(***************************************************************************)

(* A directory that was removed from or copied to has no build under way.  *)
LEMMA MovesPreserve ==
  ASSUME TypeOK, DirectoryInv, AgeInv, NEW d \in Directories, OnlyTouches(d),
         Remove(d) \/ \E from \in Directories : Copy(from, d)
  PROVE  DirectoryInv' /\ AgeInv'
<1>1. /\ progress'[d] = NoBuild /\ builds' = builds /\ ran' = ran
      /\ home' = home /\ traits' = traits
  BY RemoveEmpties, CopyWrites DEF Remove, Copy, Touch
<1>2. /\ files'[d].commands \in {files[d].commands, 0}
      /\ files'[d].report \in {files[d].report, 0}
      /\ files'[d].compilers \in {files[d].compilers, NoFiles.compilers}
      /\ files'[d].binary = 0 \/ \E x \in Directories :
                                   files'[d].binary = files[x].binary
  <2>1. CASE Remove(d)
    BY <2>1, RemoveEmpties
  <2>2. ASSUME NEW from \in Directories, Copy(from, d)
        PROVE  /\ files'[d].commands = files[d].commands
               /\ files'[d].report = files[d].report
               /\ files'[d].compilers = files[d].compilers
               /\ files'[d].binary = files[from].binary
    <3>1. files'[d] = [files[d] EXCEPT !.binary = files[from].binary]
      BY <2>2, CopyWrites
    <3>2. files[d] \in Files
      BY DEF TypeOK
    <3> QED
      BY <3>1, <3>2 DEF Files
  <2> QED
    BY <2>1, <2>2
<1>3. /\ \/ Configured(d)' = {}
         \/ Configured(d)' = Configured(d)
      /\ \A v : IsLast(d, v)' =>
           /\ IsLast(d, v)
           /\ files'[d].compilers[v] = files[d].compilers[v]
  <2>1. CASE files'[d].compilers = files[d].compilers
    BY <2>1, SameCompilers
  <2>2. CASE files'[d].compilers = NoFiles.compilers
    <3>1. Configured(d)' = {}
      BY <2>2 DEF Configured, NoFiles
    <3> QED
      BY <3>1 DEF IsLast
  <2> QED
    BY <1>2, <2>1, <2>2
<1>4. DirectoryInv'
  <2>1. Configured(d)' # {} => \E v \in CMakeVersions : IsLast(d, v)'
    BY <1>3 DEF DirectoryInv, IsLast
  <2>2. HoldsLastBuild(d)'
    BY <1>1 DEF HoldsLastBuild, NoBuild
  <2> QED
    BY <2>1, <2>2, ElsewhereHolds DEF DirectoryInv
<1>5. Linked' \subseteq Linked
  <2>1. \A x \in Directories : x # d => files'[x].binary = files[x].binary
    BY DEF OnlyTouches
  <2> QED
    BY <1>1, <1>2, <2>1 DEF Linked
<1>6. ASSUME NEW b \in Linked, home[b] = d PROVE NothingOlderThan(b)'
  <2>1. NothingOlderThan(b)
    BY DEF AgeInv
  <2>2. progress'[d].stage = "none"
    BY <1>1 DEF NoBuild
  <2> QED
    BY <1>1, <1>2, <1>3, <1>6, <2>1, <2>2
    DEF NothingOlderThan, Since, Writes
<1>7. AgeInv'
  BY <1>5, <1>6, ElsewhereIsNotOlder DEF AgeInv
<1> QED
  BY <1>4, <1>7

(* A build that is configured is newer than all that have a binary.        *)
LEMMA ConfigurePreserves ==
  ASSUME TypeOK, DirectoryInv, AgeInv, NEW d \in Directories, OnlyTouches(d),
         NEW version \in CMakeVersions, NEW trait \in BuildTraits,
         Configure(d, version, trait)
  PROVE  DirectoryInv' /\ AgeInv'
<1> DEFINE n == builds + 1
<1>1. /\ builds' = n /\ n \in Builds /\ builds \in Nat
      /\ home'[n] = d /\ traits'[n] = trait
      /\ progress'[d] = [build |-> n, stage |-> "configured"]
      /\ files'[d].binary = files[d].binary
      /\ files'[d].report = files[d].report
      /\ files'[d].commands = IF trait.commands = "none"
                              THEN files[d].commands ELSE n
      /\ files'[d].compilers = [files[d].compilers EXCEPT ![version] = n]
  <2>1. /\ builds' = builds + 1 /\ builds' \in Builds
        /\ home' = [home EXCEPT ![builds + 1] = d]
        /\ traits' = [traits EXCEPT ![builds + 1] = trait]
    <3>1. builds' \in Builds
      BY ConfigureWrites
    <3> QED
      BY <3>1 DEF Configure
  <2>2. home'[n] = d /\ traits'[n] = trait
    BY <2>1 DEF TypeOK
  <2> QED
    BY <2>1, <2>2, ConfigureWrites
<1>2. files[d].compilers \in [CMakeVersions -> 0 .. MaxBuilds]
  BY DEF TypeOK, Files
<1>3. Configured(d)' = Configured(d) \cup {version}
  BY <1>1, <1>2 DEF Configured
<1>4. \A v \in CMakeVersions :
        IsLast(d, v)' <=> v = version
  <2>1. \A v \in Configured(d) : v <= version
    BY DEF Configure
  <2>2. CMakeVersions \subseteq Nat /\ Configured(d) \subseteq CMakeVersions
    BY VersionsAssumption DEF Configured
  <2> QED
    BY <1>3, <2>1, <2>2 DEF IsLast
<1>5. files'[d].compilers[version] = n
  BY <1>1, <1>2
<1>6. DirectoryInv'
  <2>1. \E v \in CMakeVersions : IsLast(d, v)'
    BY <1>4
  <2>2. HoldsLastBuild(d)'
    <3>1. n \in 1 .. builds'
      BY <1>1
    <3> QED
      BY <1>1, <1>3, <1>4, <1>5, <3>1 DEF HoldsLastBuild
  <2> QED
    BY <2>1, <2>2, ElsewhereHolds DEF DirectoryInv
<1>7. Linked' = Linked
  <2>1. \A x \in Directories : files'[x].binary = files[x].binary
    BY <1>1 DEF OnlyTouches
  <2>2. ran' = ran
    BY DEF OnlyTouches, Touch
  <2> QED
    BY <2>1, <2>2 DEF Linked
<1>8. ASSUME NEW b \in Linked, home[b] = d PROVE NothingOlderThan(b)'
  <2>1. NothingOlderThan(b) /\ b \in 1 .. builds
    BY LinkedIsBuilt DEF AgeInv
  <2>2. home'[b] = d /\ traits'[b] = traits[b]
    BY <1>8, <2>1 DEF OnlyTouches
  <2>3. n >= b /\ b <= builds'
    BY <1>1, <2>1
  <2>4. \A v \in CMakeVersions :
          IsLast(d, v)' => Since(b, files'[d].compilers[v])
    BY <1>4, <1>5, <2>3 DEF Since
  <2>5. /\ Writes(b, "flags")' => Since(b, files'[d].commands)
        /\ Writes(b, "vectorization")' => Since(b, files'[d].report)
    BY <1>1, <1>8, <2>1, <2>2, <2>3 DEF NothingOlderThan, Since, Writes
  <2> QED
    <3>1. /\ progress'[d].build >= b
          /\ b <= builds'
      BY <1>1, <2>3
    <3>2. \A v \in CMakeVersions :
            IsLast(home[b], v)' => Since(b, files'[d].compilers[v])
      BY <2>2, <2>4 DEF IsLast, Configured
    <3>3. /\ Writes(b, "flags")' => Since(b, files'[home'[b]].commands)
          /\ Writes(b, "vectorization")' => Since(b, files'[home'[b]].report)
      BY <2>2, <2>5
    <3> QED
      BY <2>2, <3>1, <3>2, <3>3 DEF NothingOlderThan, Since
<1>9. AgeInv'
  BY <1>7, <1>8, ElsewhereIsNotOlder DEF AgeInv
<1> QED
  BY <1>6, <1>9

(* A report is only written by the build under way in its directory.       *)
LEMMA CompilePreserves ==
  ASSUME TypeOK, DirectoryInv, AgeInv, NEW d \in Directories, OnlyTouches(d),
         Compile(d)
  PROVE  DirectoryInv' /\ AgeInv'
<1> DEFINE build == progress[d].build
<1>1. /\ progress[d].stage = "configured"
      /\ progress'[d] = [build |-> build, stage |-> "compiled"]
      /\ files'[d].binary = files[d].binary
      /\ files'[d].commands = files[d].commands
      /\ files'[d].compilers = files[d].compilers
      /\ files'[d].report = IF traits[build].report = "none"
                            THEN files[d].report ELSE build
  BY CompileWrites
<1>2. builds' = builds /\ home' = home /\ traits' = traits /\ ran' = ran
  BY DEF Compile, Touch
<1>3. /\ Configured(d)' = Configured(d)
      /\ \A v : IsLast(d, v)' <=> IsLast(d, v)
  BY <1>1, SameCompilers
<1>4. DirectoryInv'
  <2>1. Configured(d)' # {} => \E v \in CMakeVersions : IsLast(d, v)'
    BY <1>3 DEF DirectoryInv
  <2>2. HoldsLastBuild(d)
    BY DEF DirectoryInv
  <2>3. HoldsLastBuild(d)'
    BY <1>1, <1>2, <1>3, <2>2 DEF HoldsLastBuild
  <2> QED
    BY <2>1, <2>3, ElsewhereHolds DEF DirectoryInv
<1>5. Linked' = Linked
  <2>1. \A x \in Directories : files'[x].binary = files[x].binary
    BY <1>1 DEF OnlyTouches
  <2> QED
    BY <1>2, <2>1 DEF Linked
<1>6. ASSUME NEW b \in Linked, home[b] = d PROVE NothingOlderThan(b)'
  <2>1. NothingOlderThan(b)
    BY DEF AgeInv
  <2>2. build >= b
    BY <1>1, <1>6, <2>1 DEF NothingOlderThan
  <2> QED
    BY <1>1, <1>2, <1>3, <1>6, <2>1, <2>2
    DEF NothingOlderThan, Since, Writes
<1>7. AgeInv'
  BY <1>5, <1>6, ElsewhereIsNotOlder DEF AgeInv
<1> QED
  BY <1>4, <1>7

(* A binary is linked after all else its build writes is written.          *)
LEMMA LinkPreserves ==
  ASSUME TypeOK, DirectoryInv, AgeInv, NEW d \in Directories, OnlyTouches(d),
         Link(d)
  PROVE  DirectoryInv' /\ AgeInv'
<1> DEFINE build == progress[d].build
<1>1. /\ progress[d].stage = "compiled"
      /\ progress'[d] = [build |-> build, stage |-> "linked"]
      /\ files'[d].binary = build
      /\ files'[d].commands = files[d].commands
      /\ files'[d].compilers = files[d].compilers
      /\ files'[d].report = files[d].report
  <2>1. files'[d] = [files[d] EXCEPT !.binary = build]
    BY LinkWrites
  <2>2. files[d] \in Files
    BY DEF TypeOK
  <2>3. /\ files'[d].binary = build
        /\ files'[d].commands = files[d].commands
        /\ files'[d].compilers = files[d].compilers
        /\ files'[d].report = files[d].report
    BY <2>1, <2>2 DEF Files
  <2> QED
    BY <2>3, LinkWrites
<1>2. builds' = builds /\ home' = home /\ traits' = traits /\ ran' = ran
  BY DEF Link, Touch
<1>3. /\ Configured(d)' = Configured(d)
      /\ \A v : IsLast(d, v)' <=> IsLast(d, v)
  BY <1>1, SameCompilers
<1>4. HoldsLastBuild(d)
  BY DEF DirectoryInv
<1>5. HoldsLastBuild(d)'
  BY <1>1, <1>2, <1>3, <1>4 DEF HoldsLastBuild
<1>6. DirectoryInv'
  <2>1. Configured(d)' # {} => \E v \in CMakeVersions : IsLast(d, v)'
    BY <1>3 DEF DirectoryInv
  <2> QED
    BY <1>5, <2>1, ElsewhereHolds DEF DirectoryInv
<1>7. Linked' \subseteq Linked \cup {build}
  <2>1. \A x \in Directories : x # d => files'[x].binary = files[x].binary
    BY DEF OnlyTouches
  <2> QED
    BY <1>1, <1>2, <2>1 DEF Linked
<1>8. ASSUME NEW b, b = build PROVE NothingOlderThan(b)'
  <2>1. /\ build \in 1 .. builds /\ home[build] = d /\ builds \in Nat
        /\ traits[build].commands # "none" => files[d].commands = build
        /\ traits[build].report # "none" => files[d].report = build
        /\ \A v \in CMakeVersions :
             IsLast(d, v) => files[d].compilers[v] = build
    BY <1>1, <1>4, BoundsAssumption DEF HoldsLastBuild, TypeOK
  <2>2. build >= build /\ build <= builds
    BY <2>1
  <2> QED
    BY <1>1, <1>2, <1>3, <1>8, <2>1, <2>2
    DEF NothingOlderThan, Since, Writes
<1>9. ASSUME NEW b \in Linked, home[b] = d PROVE NothingOlderThan(b)'
  <2>1. NothingOlderThan(b)
    BY DEF AgeInv
  <2> QED
    BY <1>1, <1>2, <1>3, <1>9, <2>1 DEF NothingOlderThan, Since, Writes
<1>10. AgeInv'
  BY <1>7, <1>8, <1>9, ElsewhereIsNotOlder DEF AgeInv
<1> QED
  BY <1>6, <1>10

(* The variables of the directories keep their types.                      *)
LEMMA BuildersKeepTypes ==
  ASSUME TypeOK, NEW d \in Directories,
         \/ \E version \in CMakeVersions, trait \in BuildTraits :
              Configure(d, version, trait)
         \/ Compile(d) \/ Link(d) \/ Remove(d)
         \/ \E from \in Directories : Copy(from, d)
  PROVE  TypeOK'
<1> DEFINE Progress == [build : 0 .. MaxBuilds,
                        stage : {"none", "configured", "compiled", "linked"}]
<1>1. /\ UNCHANGED <<pc, given, directory, ran, compiler, evidence>>
      /\ settled' = (settled /\ d # directory)
      /\ settled' \in BOOLEAN
  BY DEF Configure, Compile, Link, Remove, Copy, Touch
<1>2. /\ builds \in 0 .. MaxBuilds /\ moves \in 0 .. MaxMoves
      /\ MaxBuilds \in Nat /\ MaxMoves \in Nat
      /\ progress \in [Directories -> Progress] /\ progress[d] \in Progress
      /\ NoBuild \in Progress
  BY BoundsAssumption DEF TypeOK, NoBuild
<1>3. /\ files' \in [Directories -> Files]
      /\ home' \in [Builds -> Directories]
      /\ traits' \in [Builds -> Traits]
      /\ builds' \in 0 .. MaxBuilds
  <2>1. CASE \E version \in CMakeVersions, trait \in BuildTraits :
               Configure(d, version, trait)
    <3>1. /\ builds' \in Builds
          /\ files' \in [Directories -> Files]
          /\ home' \in [Builds -> Directories]
          /\ traits' \in [Builds -> Traits]
      BY <2>1, ConfigureWrites
    <3> QED
      BY <1>2, <3>1 DEF Builds
  <2>2. CASE Compile(d)
    BY <2>2, CompileWrites DEF Compile, TypeOK
  <2>3. CASE Link(d)
    BY <2>3, LinkWrites DEF Link, TypeOK
  <2>4. CASE Remove(d)
    BY <2>4, RemoveEmpties DEF Remove, TypeOK
  <2>5. CASE \E from \in Directories : Copy(from, d)
    BY <2>5, CopyWrites DEF Copy, TypeOK
  <2> QED
    BY <2>1, <2>2, <2>3, <2>4, <2>5
<1>4. moves' \in 0 .. MaxMoves
  <2>1. moves' = moves \/ (moves < MaxMoves /\ moves' = moves + 1)
    BY DEF Configure, Compile, Link, Remove, Copy
  <2> QED
    BY <1>2, <2>1
<1>5. progress' \in [Directories -> Progress]
  <2>1. \E p \in Progress : progress' = [progress EXCEPT ![d] = p]
    <3>1. CASE \E version \in CMakeVersions, trait \in BuildTraits :
                 Configure(d, version, trait)
      <4>1. [build |-> builds + 1, stage |-> "configured"] \in Progress
        BY <1>2, <3>1 DEF Configure
      <4> QED
        BY <3>1, <4>1 DEF Configure
    <3>2. CASE Compile(d)
      <4>1. [progress[d] EXCEPT !.stage = "compiled"] \in Progress
        BY <1>2
      <4>2. progress' = [progress EXCEPT ![d] =
                           [progress[d] EXCEPT !.stage = "compiled"]]
        BY <1>2, <3>2 DEF Compile
      <4> QED
        BY <4>1, <4>2
    <3>3. CASE Link(d)
      <4>1. [progress[d] EXCEPT !.stage = "linked"] \in Progress
        BY <1>2
      <4>2. progress' = [progress EXCEPT ![d] =
                           [progress[d] EXCEPT !.stage = "linked"]]
        BY <1>2, <3>3 DEF Link
      <4> QED
        BY <4>1, <4>2
    <3>4. CASE Remove(d) \/ \E from \in Directories : Copy(from, d)
      BY <1>2, <3>4 DEF Remove, Copy
    <3> QED
      BY <3>1, <3>2, <3>3, <3>4
  <2> QED
    BY <1>2, <2>1
<1> QED
  BY <1>1, <1>3, <1>4, <1>5 DEF TypeOK

(* Whatever others do to a directory.                                      *)
LEMMA BuildStepPreserves ==
  ASSUME RecordInv, BuildStep
  PROVE  RecordInv'
<1> USE DEF RecordInv
<1>1. PICK d \in Directories :
        \/ \E version \in CMakeVersions, trait \in BuildTraits :
             Configure(d, version, trait)
        \/ Compile(d) \/ Link(d) \/ Remove(d)
        \/ \E from \in Directories : Copy(from, d)
  BY DEF BuildStep
<1>2. OnlyTouches(d)
  BY <1>1, BuildersTouchOne DEF BuildStep
<1>3. TypeOK'
  BY <1>1, BuildersKeepTypes
<1>4. CollectorInv' /\ SettledInv'
  BY <1>2, BuildersKeepTheCollector
<1>5. DirectoryInv' /\ AgeInv'
  BY <1>1, <1>2, MovesPreserve, ConfigurePreserves, CompilePreserves,
     LinkPreserves
<1>6. RaceInv'
  BY <1>1, <1>2, BuildersKeepTheChecks
<1> QED
  BY <1>3, <1>4, <1>5, <1>6

-----------------------------------------------------------------------------
(***************************************************************************)
(* The steps of the collector.                                             *)
(***************************************************************************)

(* The directories are as they were.                                       *)
LEMMA CollectorLeavesTheFiles ==
  ASSUME DirectoryInv, AgeInv, UNCHANGED buildVars,
         \/ ran' \in {ran, 0}
         \/ \E d \in Directories : ran' = files[d].binary
  PROVE  DirectoryInv' /\ AgeInv'
<1> USE DEF buildVars
<1>1. /\ \A d : Configured(d)' = Configured(d)
      /\ \A d, v : IsLast(d, v)' <=> IsLast(d, v)
  BY DEF Configured, IsLast
<1>2. DirectoryInv'
  BY <1>1 DEF DirectoryInv, HoldsLastBuild
<1>3. Linked' \subseteq Linked
  BY DEF Linked
<1>4. \A b : NothingOlderThan(b)' <=> NothingOlderThan(b)
  BY <1>1 DEF NothingOlderThan, Writes
<1> QED
  BY <1>2, <1>3, <1>4 DEF AgeInv

(* What a reader can find in the collector's directory.                    *)
LEMMA WhatIsFound ==
  ASSUME RecordInv, pc \in Reading
  PROVE  /\ BuildDirectory = directory
         /\ ran \in 1 .. builds /\ ran \in Builds
         /\ home[ran] = directory =>
              /\ Writes(ran, "flags") => Since(ran, files[directory].commands)
              /\ Writes(ran, "vectorization") =>
                   Since(ran, files[directory].report)
              /\ \A v \in CMakeVersions :
                   IsLast(directory, v) =>
                     Since(ran, files[directory].compilers[v])
         /\ settled =>
              /\ files[directory].binary = ran
              /\ Writes(ran, "flags") => files[directory].commands = ran
              /\ Writes(ran, "vectorization") => files[directory].report = ran
              /\ Configured(directory) # {}
              /\ \A v \in CMakeVersions :
                   IsLast(directory, v) => files[directory].compilers[v] = ran
<1> USE DEF RecordInv
<1>1. BuildDirectory = directory
  BY DEF BuildDirectory, CollectorInv
<1>2. ran # 0 /\ ran \in Linked
  BY DEF CollectorInv, Linked
<1>3. NothingOlderThan(ran) /\ ran \in 1 .. builds /\ ran \in Builds
  BY <1>2, LinkedIsBuilt DEF AgeInv
<1>4. ASSUME settled
      PROVE  /\ progress[directory].stage = "linked"
             /\ ran = progress[directory].build
             /\ HoldsLastBuild(directory)
  BY <1>4 DEF SettledInv, DirectoryInv, TypeOK
<1>5. settled =>
        /\ files[directory].binary = ran
        /\ Writes(ran, "flags") => files[directory].commands = ran
        /\ Writes(ran, "vectorization") => files[directory].report = ran
        /\ Configured(directory) # {}
        /\ \A v \in CMakeVersions :
             IsLast(directory, v) => files[directory].compilers[v] = ran
  BY <1>4 DEF HoldsLastBuild, Writes
<1> QED
  BY <1>1, <1>3, <1>5 DEF NothingOlderThan

(* The collector gives up: in a settled directory something is at fault,   *)
(* and a traceback without a removal has a file that cannot be read.       *)
LEMMA GivingUpPreserves ==
  ASSUME RecordInv,
         \/ Fail /\ (settled => Refused(directory))
         \/ /\ Raise
            /\ settled => Garbled(directory, LastVersions(directory))
            /\ moves = 0 => Garbled(directory, CMakeVersions)
  PROVE  RecordInv'
<1> USE DEF RecordInv
<1>1. /\ UNCHANGED buildVars /\ UNCHANGED <<given, directory, settled>>
      /\ pc' \in {"error", "traceback"}
      /\ ran' = 0 /\ compiler' = 0 /\ evidence' = NothingRead
  BY DEF Fail, Raise, Goto, Forget
<1>2. DirectoryInv' /\ AgeInv'
  BY <1>1, CollectorLeavesTheFiles
<1>3. TypeOK'
  <2>1. NothingRead \in [Kinds -> Evidence] /\ 0 \in 0 .. MaxBuilds
    BY BoundsAssumption DEF NothingRead, Evidence
  <2> QED
    BY <1>1, <2>1 DEF TypeOK, buildVars
<1>4. CollectorInv'
  BY <1>1 DEF CollectorInv, Reading, EvidenceIsNotOlder
<1>5. SettledInv'
  <2>1. /\ Refused(directory)' <=> Refused(directory)
        /\ LastVersions(directory)' = LastVersions(directory)
        /\ \A versions : Garbled(directory, versions)' <=>
                           Garbled(directory, versions)
    BY <1>1
    DEF Refused, Garbled, LastVersions, IsLast, Configured, buildVars
  <2>2. SettledBuildIsRecorded'
    BY <1>1, <2>1 DEF SettledBuildIsRecorded, Fail, Raise, Goto
  <2> QED
    BY <1>1, <2>2 DEF SettledInv, Reading, buildVars
<1>6. RaceInv'
  <2>1. Garbled(directory, CMakeVersions)' <=>
          Garbled(directory, CMakeVersions)
    BY <1>1 DEF Garbled, buildVars
  <2>2. pc' = "traceback" /\ moves = 0 => Garbled(directory, CMakeVersions)
    BY DEF Fail, Raise, Goto
  <2> QED
    BY <1>1, <2>1, <2>2 DEF RaceInv, BuildsDoNotRace, buildVars
<1> QED
  BY <1>2, <1>3, <1>4, <1>5, <1>6

(* The collector learns something that is not too old, and in a settled    *)
(* directory of the build that ran.                                        *)
LEMMA LearningPreserves ==
  ASSUME RecordInv, pc \in Reading,
         NEW kind \in Kinds, NEW found \in Evidence,
         NEW label \in (Reading \ {"read_commands", "read_compiler"})
                         \cup {"record"},
         Learn(kind, found, label),
         found.state = "found" /\ Writes(ran, kind) =>
           /\ home[ran] = directory /\ kind \notin {"scalar", "auto"} =>
                found.build >= ran
           /\ settled => found.build = ran
  PROVE  RecordInv'
<1> USE DEF RecordInv
<1>1. /\ UNCHANGED buildVars /\ UNCHANGED <<given, directory, settled>>
      /\ pc' = label /\ UNCHANGED <<ran, compiler>>
      /\ evidence' = [evidence EXCEPT ![kind] = found]
  BY DEF Learn, Goto
<1>2. DirectoryInv' /\ AgeInv'
  BY <1>1, CollectorLeavesTheFiles
<1>3. evidence \in [Kinds -> Evidence]
  BY DEF TypeOK
<1>4. TypeOK'
  BY <1>1, <1>3 DEF TypeOK, buildVars, Reading
<1>5. \A other \in Kinds :
        evidence'[other] = IF other = kind THEN found ELSE evidence[other]
  BY <1>1, <1>3
<1>6. \A other : Writes(ran, other)' <=> Writes(ran, other)
  BY <1>1 DEF Writes, buildVars
<1>7. EvidenceIsNotOlder'
  <2>1. \A other \in {"flags", "vectorization", "compiler"} :
          other \in Kinds /\ other \notin {"scalar", "auto"}
    BY DEF Kinds
  <2> QED
    BY <1>1, <1>5, <1>6, <2>1
    DEF CollectorInv, EvidenceIsNotOlder, buildVars
<1>8. CollectorInv'
  BY <1>1, <1>7 DEF CollectorInv, Reading
<1>9. SettledInv'
  <2> SUFFICES ASSUME settled PROVE SettledInv'
    BY <1>1 DEF SettledInv
  <2>1. \A other \in Kinds :
          evidence[other].state = "found" /\ Writes(ran, other) =>
            evidence[other].build = ran
    BY DEF SettledInv
  <2>2. \A other \in Kinds :
          evidence'[other].state = "found" /\ Writes(ran, other)' =>
            evidence'[other].build = ran'
    BY <1>1, <1>5, <1>6, <2>1
  <2>3. SettledBuildIsRecorded'
    BY <1>1 DEF SettledBuildIsRecorded, Reading
  <2> QED
    BY <1>1, <2>2, <2>3 DEF SettledInv, Reading, buildVars
<1>10. RaceInv'
  BY <1>1 DEF RaceInv, BuildsDoNotRace, Reading
<1> QED
  BY <1>2, <1>4, <1>8, <1>9, <1>10

(* What a reader finds is of a build, so that it can be told which.        *)
LEMMA FoundIsEvidence ==
  ASSUME NEW build \in 0 .. MaxBuilds, build # 0
  PROVE  /\ Found(build) \in Evidence
         /\ Found(build).state = "found" /\ Found(build).build = build
  BY BoundsAssumption DEF Found, Evidence, Builds

(* The values that stand for no evidence.                                  *)
LEMMA NothingIsFound ==
  /\ Unavailable \in Evidence /\ Unavailable.state # "found"
  /\ NoFlags \in Evidence /\ NoFlags.state # "found"
  BY DEF Unavailable, NoFlags, Evidence

(* A collector that only goes on to its next step.                         *)
LEMMA FindCommandsPreserves ==
  ASSUME RecordInv, FindCommands
  PROVE  RecordInv'
<1>1. /\ pc = "find_commands" /\ pc \in Reading
      /\ BuildDirectory = directory
  BY WhatIsFound DEF FindCommands, Reading
<1>2. CASE files[BuildDirectory].commands = 0
  BY <1>1, <1>2, NothingIsFound, LearningPreserves
  DEF FindCommands, Reading, Kinds
<1>3. CASE files[BuildDirectory].commands # 0
  <2> USE DEF RecordInv
  <2>1. /\ UNCHANGED buildVars /\ UNCHANGED <<given, directory, settled>>
        /\ UNCHANGED <<ran, compiler, evidence>> /\ pc' = "read_commands"
        /\ files[directory].commands # 0
    BY <1>1, <1>3 DEF FindCommands, Goto, Unlearned
  <2>2. DirectoryInv' /\ AgeInv'
    BY <2>1, CollectorLeavesTheFiles
  <2>3. TypeOK'
    BY <2>1 DEF TypeOK, buildVars
  <2>4. CollectorInv'
    BY <1>1, <2>1
    DEF CollectorInv, Reading, EvidenceIsNotOlder, Writes, buildVars
  <2>5. SettledInv'
    BY <1>1, <2>1
    DEF SettledInv, SettledBuildIsRecorded, Reading, Writes, buildVars
  <2>6. RaceInv'
    BY <2>1 DEF RaceInv, BuildsDoNotRace, buildVars
  <2> QED
    BY <2>2, <2>3, <2>4, <2>5, <2>6
<1> QED
  BY <1>2, <1>3

(* The collector starts in a directory where nothing is known of any build.*)
LEMMA StartPreserves ==
  ASSUME RecordInv, NEW withBinary \in BOOLEAN, NEW d \in Directories,
         Start(withBinary, d)
  PROVE  RecordInv'
<1> USE DEF RecordInv
<1>1. /\ UNCHANGED buildVars /\ UNCHANGED <<ran, compiler, evidence>>
      /\ pc = "idle" /\ given' = withBinary /\ directory' = d
      /\ settled' = (progress[d].stage = "linked")
      /\ pc' = IF files[d].binary = 0 THEN "error" ELSE "execute"
      /\ given' \/ directory' = Preset
  BY DEF Start
<1>2. DirectoryInv' /\ AgeInv'
  BY <1>1, CollectorLeavesTheFiles
<1>3. TypeOK'
  BY <1>1 DEF TypeOK, buildVars
<1>4. CollectorInv'
  BY <1>1 DEF CollectorInv, Reading, EvidenceIsNotOlder
<1>5. SettledInv'
  <2> SUFFICES ASSUME settled' PROVE SettledInv'
    BY DEF SettledInv
  <2>1. progress[d].stage = "linked" /\ HoldsLastBuild(d)
    BY <1>1 DEF DirectoryInv
  <2>2. /\ files[d].binary = progress[d].build
        /\ progress[d].build \in 1 .. builds
    BY <2>1 DEF HoldsLastBuild
  <2>3. pc' = "execute"
    BY <1>1, <2>2, BoundsAssumption DEF TypeOK
  <2> QED
    BY <1>1, <2>1, <2>3
    DEF SettledInv, SettledBuildIsRecorded, Reading, buildVars
<1>6. RaceInv'
  BY <1>1 DEF RaceInv, BuildsDoNotRace
<1> QED
  BY <1>2, <1>3, <1>4, <1>5, <1>6

(* The binary that is run is of the build that ran.                        *)
LEMMA ExecutePreserves ==
  ASSUME RecordInv, Execute
  PROVE  RecordInv'
<1> USE DEF RecordInv
<1> DEFINE build == files[directory].binary
<1>1. /\ pc = "execute" /\ ran = 0 /\ evidence = NothingRead
      /\ directory \in Directories /\ build \in 0 .. MaxBuilds
  BY DEF Execute, CollectorInv, TypeOK, Files
<1>2. settled => build = progress[directory].build /\ build # 0
  <2> SUFFICES ASSUME settled
               PROVE  build = progress[directory].build /\ build # 0
    OBVIOUS
  <2>1. progress[directory].stage = "linked" /\ HoldsLastBuild(directory)
    BY <1>1 DEF SettledInv, DirectoryInv
  <2>2. build = progress[directory].build
        /\ progress[directory].build \in 1 .. builds
    BY <2>1 DEF HoldsLastBuild
  <2> QED
    BY <2>2, BoundsAssumption DEF TypeOK
<1>3. CASE build = 0
  <2>1. Fail /\ ~ settled
    BY <1>2, <1>3 DEF Execute
  <2> QED
    BY <2>1, GivingUpPreserves
<1>4. CASE build # 0 /\ traits[build].ending \in {"failure", "notText"}
  <2>1. CASE traits[build].ending = "failure"
    <3>1. Fail /\ Refused(directory)
      BY <1>4, <2>1 DEF Execute, Refused
    <3> QED
      BY <3>1, GivingUpPreserves
  <2>2. CASE traits[build].ending = "notText"
    <3>1. Raise /\ \A versions : Garbled(directory, versions)
      BY <1>4, <2>2 DEF Execute, Garbled
    <3> QED
      BY <3>1, GivingUpPreserves
  <2> QED
    BY <1>4, <2>1, <2>2
<1>5. CASE build # 0 /\ traits[build].ending \notin {"failure", "notText"}
  <2>1. /\ UNCHANGED buildVars /\ UNCHANGED <<given, directory, settled>>
        /\ UNCHANGED <<compiler, evidence>>
        /\ ran' = build /\ pc' = "find_commands"
    BY <1>5 DEF Execute, Goto
  <2>2. DirectoryInv' /\ AgeInv'
    BY <1>1, <2>1, CollectorLeavesTheFiles
  <2>3. TypeOK'
    BY <1>1, <2>1 DEF TypeOK, buildVars
  <2>4. \A kind \in Kinds : evidence'[kind].state # "found"
    BY <1>1, <2>1 DEF NothingRead, Unread
  <2>5. EvidenceIsNotOlder'
    BY <2>4 DEF EvidenceIsNotOlder, Kinds
  <2>6. CollectorInv'
    BY <1>5, <2>1, <2>5 DEF CollectorInv, Reading
  <2>7. SettledInv'
    BY <1>1, <1>2, <2>1, <2>4
    DEF SettledInv, SettledBuildIsRecorded, Reading, buildVars
  <2>8. RaceInv'
    BY <2>1 DEF RaceInv, BuildsDoNotRace
  <2> QED
    BY <2>2, <2>3, <2>6, <2>7, <2>8
<1> QED
  BY <1>3, <1>4, <1>5

(* The flags are of the compile commands found, or the run is given up for *)
(* what is wrong with them.                                                *)
LEMMA ReadCommandsPreserves ==
  ASSUME RecordInv, ReadCommands
  PROVE  RecordInv'
<1> DEFINE build == files[directory].commands
           text == traits[build].commands
<1>1. /\ pc = "read_commands" /\ pc \in Reading
      /\ BuildDirectory = directory
      /\ directory \in Directories /\ build \in 0 .. MaxBuilds
  BY WhatIsFound DEF ReadCommands, Reading, RecordInv, TypeOK, Files
<1>2. CASE build = 0
  <2>1. Raise /\ ~ settled /\ moves # 0
    BY <1>1, <1>2 DEF ReadCommands, RecordInv, SettledInv, RaceInv
  <2> QED
    BY <2>1, GivingUpPreserves
<1>3. CASE build # 0 /\ text = "unreadable"
  <2>1. Raise /\ \A versions : Garbled(directory, versions)
    BY <1>1, <1>3 DEF ReadCommands, Garbled
  <2> QED
    BY <2>1, GivingUpPreserves
<1>4. CASE build # 0 /\ text = "notArray"
  <2>1. Fail /\ Refused(directory)
    BY <1>1, <1>4 DEF ReadCommands, Refused
  <2> QED
    BY <2>1, GivingUpPreserves
<1>5. CASE build # 0 /\ text = "arguments"
  <2>1. Learn("flags", NoFlags, "read_report")
    BY <1>1, <1>5 DEF ReadCommands
  <2> QED
    BY <1>1, <2>1, NothingIsFound, LearningPreserves DEF Reading, Kinds
<1>6. CASE build # 0 /\ text = "command"
  <2>1. Learn("flags", Found(build), "read_report")
    BY <1>1, <1>6 DEF ReadCommands
  <2>2. /\ Found(build) \in Evidence
        /\ Found(build).state = "found" /\ Found(build).build = build
    BY <1>1, <1>6, FoundIsEvidence
  <2>3. Writes(ran, "flags") =>
          /\ home[ran] = directory => build >= ran
          /\ settled => build = ran
    BY <1>1, <1>6, WhatIsFound DEF Since
  <2> HIDE DEF build
  <2> QED
    BY <1>1, <2>1, <2>2, <2>3, LearningPreserves DEF Reading, Kinds
<1> QED
  BY <1>1, <1>2, <1>3, <1>4, <1>5, <1>6 DEF ReadCommands

(* The vectorization is of the report found, which may be missing.         *)
LEMMA ReadReportPreserves ==
  ASSUME RecordInv, ReadReport
  PROVE  RecordInv'
<1> DEFINE build == files[directory].report
<1>1. /\ pc = "read_report" /\ pc \in Reading
      /\ BuildDirectory = directory
      /\ directory \in Directories /\ build \in 0 .. MaxBuilds
  BY WhatIsFound DEF ReadReport, Reading, RecordInv, TypeOK, Files
<1>2. CASE build = 0
  <2>1. Learn("vectorization", Unavailable, "find_compiler")
    BY <1>1, <1>2 DEF ReadReport
  <2> QED
    BY <1>1, <2>1, NothingIsFound, LearningPreserves DEF Reading, Kinds
<1>3. CASE build # 0 /\ traits[build].report = "notText"
  <2>1. Raise /\ \A versions : Garbled(directory, versions)
    BY <1>1, <1>3 DEF ReadReport, Garbled
  <2> QED
    BY <2>1, GivingUpPreserves
<1>4. CASE build # 0 /\ traits[build].report # "notText"
  <2>1. Learn("vectorization", Found(build), "find_compiler")
    BY <1>1, <1>4 DEF ReadReport
  <2>2. /\ Found(build) \in Evidence
        /\ Found(build).state = "found" /\ Found(build).build = build
    BY <1>1, <1>4, FoundIsEvidence
  <2>3. Writes(ran, "vectorization") =>
          /\ home[ran] = directory => build >= ran
          /\ settled => build = ran
    BY <1>1, <1>4, WhatIsFound DEF Since
  <2> HIDE DEF build
  <2> QED
    BY <1>1, <2>1, <2>2, <2>3, LearningPreserves DEF Reading, Kinds
<1> QED
  BY <1>2, <1>3, <1>4

(* The glob finds the last compiler file, which is the newest.             *)
LEMMA FindCompilerPreserves ==
  ASSUME RecordInv, FindCompiler
  PROVE  RecordInv'
<1>1. /\ pc = "find_compiler" /\ pc \in Reading
      /\ BuildDirectory = directory /\ directory \in Directories
  BY WhatIsFound DEF FindCompiler, Reading, RecordInv, TypeOK
<1>2. CASE Configured(directory) = {}
  <2>1. Learn("compiler", Unavailable, "scalar")
    BY <1>1, <1>2 DEF FindCompiler
  <2> QED
    BY <1>1, <2>1, NothingIsFound, LearningPreserves DEF Reading, Kinds
<1>3. CASE Configured(directory) # {}
  <2> USE DEF RecordInv
  <2> DEFINE last == LastFound(directory)
  <2>1. /\ UNCHANGED buildVars /\ UNCHANGED <<given, directory, settled>>
        /\ UNCHANGED <<ran, evidence>>
        /\ compiler' = last /\ pc' = "read_compiler"
    BY <1>1, <1>3 DEF FindCompiler, Goto
  <2>2. IsLast(directory, last)
    <3>1. \E v \in Configured(directory) :
            \A w \in Configured(directory) : w <= v
      BY <1>1, <1>3 DEF DirectoryInv, IsLast
    <3> QED
      BY <3>1 DEF LastFound, IsLast
  <2>3. last \in CMakeVersions
    BY <2>2 DEF IsLast, Configured
  <2>4. /\ ran # 0
        /\ home[ran] = directory =>
             Since(ran, files[directory].compilers[last])
        /\ settled => files[directory].compilers[last] = ran
        /\ files[directory].compilers[last] # 0
    <3>1. ran \in 1 .. builds
      BY <1>1, WhatIsFound
    <3> QED
      BY <1>1, <2>2, <2>3, <3>1, WhatIsFound DEF IsLast, Configured
  <2> HIDE DEF last
  <2>5. DirectoryInv' /\ AgeInv'
    BY <2>1, CollectorLeavesTheFiles
  <2>6. TypeOK'
    BY <2>1, <2>3 DEF TypeOK, buildVars
  <2>7. EvidenceIsNotOlder'
    BY <2>1 DEF CollectorInv, EvidenceIsNotOlder, Writes, buildVars
  <2>8. CollectorInv'
    BY <2>1, <2>3, <2>4, <2>7 DEF CollectorInv, Reading, Since, buildVars
  <2>9. SettledInv'
    <3>1. \A v : IsLast(directory, v)' <=> IsLast(directory, v)
      BY <2>1 DEF IsLast, Configured, buildVars
    <3> QED
      BY <1>1, <2>1, <2>2, <2>4, <3>1
      DEF SettledInv, SettledBuildIsRecorded, Reading, Writes, buildVars
  <2>10. RaceInv'
    BY <2>1, <2>4 DEF RaceInv, BuildsDoNotRace, buildVars
  <2> QED
    BY <2>5, <2>6, <2>8, <2>9, <2>10
<1> QED
  BY <1>2, <1>3

(* The compiler is of the file the glob has found, if it is still there.   *)
LEMMA ReadCompilerPreserves ==
  ASSUME RecordInv, ReadCompiler
  PROVE  RecordInv'
<1> DEFINE build == files[directory].compilers[compiler]
<1>1. /\ pc = "read_compiler" /\ pc \in Reading
      /\ BuildDirectory = directory /\ directory \in Directories
      /\ ran \in 1 .. builds /\ compiler \in CMakeVersions
  BY WhatIsFound DEF ReadCompiler, Reading, RecordInv, TypeOK, CollectorInv
<1>2. /\ build \in 0 .. MaxBuilds
      /\ home[ran] = directory => Since(ran, build)
      /\ settled => build = ran /\ compiler \in LastVersions(directory)
      /\ moves = 0 => build # 0
  BY <1>1 DEF RecordInv, CollectorInv, SettledInv, RaceInv, TypeOK, Files,
              LastVersions
<1>3. CASE build = 0
  <2>1. Raise /\ ~ settled /\ moves # 0
    BY <1>1, <1>2, <1>3 DEF ReadCompiler
  <2> QED
    BY <2>1, GivingUpPreserves
<1>4. CASE build # 0 /\ traits[build].compiler = "notText"
  <2>1. Raise
    BY <1>1, <1>4 DEF ReadCompiler
  <2>2. \A versions :
          compiler \in versions => Garbled(directory, versions)
    BY <1>4 DEF Garbled
  <2> QED
    BY <1>1, <1>2, <2>1, <2>2, GivingUpPreserves
<1>5. CASE build # 0 /\ traits[build].compiler # "notText"
  <2>1. Learn("compiler", Found(build), "scalar")
    BY <1>1, <1>5 DEF ReadCompiler
  <2>2. /\ Found(build) \in Evidence
        /\ Found(build).state = "found" /\ Found(build).build = build
    BY <1>2, <1>5, FoundIsEvidence
  <2>3. /\ home[ran] = directory => build >= ran
        /\ settled => build = ran
    BY <1>2, <1>5 DEF Since
  <2> HIDE DEF build
  <2> QED
    BY <1>1, <2>1, <2>2, <2>3, LearningPreserves DEF Reading, Kinds
<1> QED
  BY <1>3, <1>4, <1>5

(* What is disassembled is the binary in the collector's directory.        *)
LEMMA DisassemblePreserves ==
  ASSUME RecordInv,
         \/ Disassemble("scalar", "auto")
         \/ Disassemble("auto", "record")
  PROVE  RecordInv'
<1>1. PICK kernel \in {"scalar", "auto"}, label \in {"auto", "record"} :
        Disassemble(kernel, label)
  OBVIOUS
<1> DEFINE build == files[directory].binary
<1>2. /\ pc = kernel /\ pc \in Reading
      /\ label \in (Reading \ {"read_commands", "read_compiler"})
                     \cup {"record"}
      /\ kernel \in Kinds
      /\ directory \in Directories /\ build \in 0 .. MaxBuilds
  BY <1>1 DEF Disassemble, Reading, Kinds, RecordInv, TypeOK, Files
<1>3. CASE Learn(kernel, Unavailable, label)
  BY <1>2, <1>3, NothingIsFound, LearningPreserves
<1>4. CASE build # 0 /\ Learn(kernel, Found(build), label)
  <2>1. /\ Found(build) \in Evidence
        /\ Found(build).state = "found" /\ Found(build).build = build
    BY <1>2, <1>4, FoundIsEvidence
  <2>2. settled => build = ran
    BY <1>2, WhatIsFound
  <2> HIDE DEF build
  <2> QED
    BY <1>2, <1>4, <2>1, <2>2, LearningPreserves
<1> QED
  BY <1>1, <1>3, <1>4 DEF Disassemble

(* A step that changes nothing.                                            *)
LEMMA NobodyPreserves ==
  ASSUME RecordInv, UNCHANGED vars
  PROVE  RecordInv'
<1> USE DEF RecordInv, vars, collectorVars
<1>1. DirectoryInv' /\ AgeInv'
  BY CollectorLeavesTheFiles
<1>2. TypeOK'
  BY DEF TypeOK, buildVars
<1>3. CollectorInv'
  BY DEF CollectorInv, EvidenceIsNotOlder, Writes, buildVars
<1>4. SettledInv'
  BY DEF SettledInv, SettledBuildIsRecorded, Refused, Garbled, LastVersions,
         IsLast, Configured, Writes, buildVars
<1>5. RaceInv'
  BY DEF RaceInv, BuildsDoNotRace, Garbled, buildVars
<1> QED
  BY <1>1, <1>2, <1>3, <1>4, <1>5

(* Nothing is built and nothing is read.                                   *)
LEMMA NothingIsRecorded == Init => RecordInv
<1> SUFFICES ASSUME Init PROVE RecordInv
  OBVIOUS
<1>1. TypeOK
  <2>1. Unbuilt \in Traits
    BY DEF Unbuilt, Traits, Endings, CommandsTexts, ReportTexts,
           CompilerTexts
  <2>2. NoFiles \in Files /\ NoBuild.build \in 0 .. MaxBuilds
    BY BoundsAssumption DEF NoFiles, Files, NoBuild
  <2>3. NothingRead \in [Kinds -> Evidence]
    BY DEF NothingRead, Evidence
  <2>4. 0 \in 0 .. MaxBuilds /\ 0 \in 0 .. MaxMoves
    BY BoundsAssumption
  <2> QED
    BY <2>1, <2>2, <2>3, <2>4, PresetAssumption DEF Init, TypeOK, NoBuild
<1>2. DirectoryInv
  <2>1. \A d \in Directories : Configured(d) = {}
    BY DEF Init, Configured, NoFiles
  <2>2. \A d \in Directories : progress[d].stage = "none"
    BY DEF Init, NoBuild
  <2> QED
    BY <2>1, <2>2 DEF DirectoryInv, HoldsLastBuild
<1>3. AgeInv
  <2>1. Linked = {}
    BY DEF Init, Linked, NoFiles
  <2> QED
    BY <2>1 DEF AgeInv
<1>4. CollectorInv
  BY DEF Init, CollectorInv, EvidenceIsNotOlder, Reading
<1>5. RaceInv
  BY DEF Init, RaceInv, BuildsDoNotRace
<1> QED
  BY <1>1, <1>2, <1>3, <1>4, <1>5 DEF Init, RecordInv, SettledInv

-----------------------------------------------------------------------------
(***************************************************************************)
(* The theorems.                                                           *)
(***************************************************************************)

(* The invariant holds for any number of directories, versions, builds,    *)
(* removals and copies, in any interleaving with the collector.            *)
THEOREM RecordInvHolds == Spec => []RecordInv
<1>1. RecordInv /\ [Next]_vars => RecordInv'
  <2> SUFFICES ASSUME RecordInv, [Next]_vars PROVE RecordInv'
    OBVIOUS
  <2>1. CASE BuildStep
    BY <2>1, BuildStepPreserves
  <2>2. CASE CollectorStep
    BY <2>2, StartPreserves, ExecutePreserves, FindCommandsPreserves,
       ReadCommandsPreserves, ReadReportPreserves, FindCompilerPreserves,
       ReadCompilerPreserves, DisassemblePreserves
    DEF CollectorStep
  <2>3. CASE UNCHANGED vars
    BY <2>3, NobodyPreserves
  <2> QED
    BY <2>1, <2>2, <2>3 DEF Next
<1> QED
  BY <1>1, NothingIsRecorded, PTL DEF Spec

(* Every variable keeps its type; the version of the compiler file that is *)
(* read is one there is (rct/build_metadata.py:66).                        *)
THEOREM CollectorIsTyped == Spec => []TypeOK
<1>1. RecordInv => TypeOK
  BY DEF RecordInv
<1> QED
  BY <1>1, RecordInvHolds, PTL

(* However builds are interleaved with the collector, the evidence is      *)
(* never older than the binary that ran in the directory it was made in.   *)
THEOREM EvidenceIsNeverOlder == Spec => []EvidenceIsNotOlder
<1>1. RecordInv => EvidenceIsNotOlder
  BY DEF RecordInv, CollectorInv
<1> QED
  BY <1>1, RecordInvHolds, PTL

(* A record made in a directory nobody touched meanwhile is of one build.  *)
THEOREM RecordsAreOfOneBuild == Spec => []RecordIsOfOneBuild
<1>1. RecordInv => RecordIsOfOneBuild
  BY DEF RecordInv, SettledInv, RecordIsOfOneBuild
<1> QED
  BY <1>1, RecordInvHolds, PTL

(* And such a directory is recorded unless the binary or a file that is    *)
(* read is at fault (rct/benchmark.py:208-259).                            *)
THEOREM SettledBuildsAreRecorded == Spec => []SettledBuildIsRecorded
<1>1. RecordInv => SettledBuildIsRecorded
  BY DEF RecordInv, SettledInv, SettledBuildIsRecorded
<1> QED
  BY <1>1, RecordInvHolds, PTL

(* Builds between a check and its read do not end the collector with a     *)
(* traceback: without removals only an unreadable text or output does      *)
(* (rct/build_metadata.py:22-28, 66-70).                                   *)
THEOREM BuildsNeverRace == Spec => []BuildsDoNotRace
<1>1. RecordInv => BuildsDoNotRace
  BY DEF RecordInv, RaceInv
<1> QED
  BY <1>1, RecordInvHolds, PTL
===============================================================================
