SPECIFICATION FairSpec
CONSTANTS
  Section = {1, 2}
  TargetSection = {"east", "west", "other"}
  TargetOf <- TwoSections
  Cidr = {1, 2}
  Within <- AggregateWithin
  PrefixLen <- AggregatePrefix
  Ip = {1}
  FieldValue = {1, 2}
  FolderPath <- OldFolders
  CreateMissing = TRUE
  DeleteFloor = 5
  LimitPercent = 10
  Targets <- SectionTargets
  Snapshots <- SplitSnapshots
  Modes = {"additive", "strict"}
  StrictSections = {}
  CascadeSubnets = TRUE
  MaxFaults = 1
  MaxEdits = 1
  MaxArrivals = 1
  MaxEvents = 1
INVARIANTS
  IdsStayTrue
PROPERTIES
  DriftUntouched
  OnlyOrphansRemoved
  OutOfScopeUntouched
  EventuallyMirrored
