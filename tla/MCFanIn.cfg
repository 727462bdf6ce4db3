SPECIFICATION FairSpec
CONSTANTS
  Source = {"e", "w"}
  Section = {"net", "A", "B"}
  Domain = {"default", "campus"}
  Number = {7}
  Vrf = {"red"}
  Cidr = {1, 2}
  FieldValue = {1, 2}
  DeleteFloor = 0
  LimitPercent = 10
  Sources <- InTurn
  Configs <- MainConfigs
  Targets <- MainTargets
  Snapshots <- MainSnapshots
  Modes = {"additive", "strict", "forced"}
  MaxFaults = 1
  MaxEdits = 1
  MaxArrivals = 1
  MaxEvents = 2
INVARIANTS
  TypeOK
  ViewCoherent
  NeverTwice
  MirroredIsQuiet
PROPERTIES
  OnlyOwnDeleted
  SectionListsGrow
  OthersUntouched
  CleanJobMirrors
  EachSourceMirrored
