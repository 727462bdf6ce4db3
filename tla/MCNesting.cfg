SPECIFICATION Spec
CONSTANTS
  Record = {"f", "a", "b"}
  Folder = {"f"}
  Listings <- TwoListings
  Value = {"1"}
  Setups <- MismatchedSetups
  Rows <- SourceRows
  TargetRows <- TargetRowsThen
  MaxEvents = 1
INVARIANTS
  RewrittenOnMismatch
