SPECIFICATION Spec
CONSTANT
  Directories = {"preset", "other"}
  Preset = "preset"
  CMakeVersions = {1, 2}
  BuildTraits <- MCBuildTraits
  MaxBuilds = 2
  MaxMoves = 2
INVARIANTS
  TypeOK
  RecordIsOfOneBuild
  EvidenceIsNotOlder
  SettledBuildIsRecorded
  BuildsDoNotRace
CHECK_DEADLOCK FALSE
