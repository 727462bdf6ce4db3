SPECIFICATION FairSpec
CONSTANTS
  Section = {1, 2}
  TargetSection = {"east", "west"}
  TargetOf <- TwoSections
  Cidr = {1, 2}
  Within = {}
  PrefixLen <- SplitPrefix
  Ip = {1}
  FieldValue = {1, 2}
  FolderPath = {}
  CreateMissing = FALSE
  DeleteFloor = 5
  LimitPercent = 10
  Targets <- SharedTargets
  Snapshots <- SharedSnapshots
  Modes = {"strict"}
  StrictSections = {"east"}
  CascadeSubnets = TRUE
  MaxFaults = 0
  MaxEdits = 0
  MaxArrivals = 0
  MaxEvents = 1
INVARIANTS
  MatchedBySection
