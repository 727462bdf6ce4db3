SPECIFICATION FairSpec
CONSTANTS
  Record = {"f", "a", "b"}
  Folder = {"f"}
  Listings <- TwoListings
  Value = {"1"}
  Setups <- SomeSetups
  Rows <- SourceRows
  TargetRows <- TargetRowsThen
  MaxEvents = 1
INVARIANTS
  TypeOK
  OneRoundMirrors
  QuietOnceMirrored
  ReportIsSignal
  RefusedForSchema
PROPERTIES
  OnlyReplicatedWritten
  DivergenceHeals
