SPECIFICATION FairSpec
CONSTANTS
  Section = {1}
  TargetSection = {"east"}
  TargetOf <- OneSection
  Cidr = {1, 2}
  Within = {}
  PrefixLen <- SplitPrefix
  Ip = {1, 2, 3, 4, 5, 6}
  FieldValue = {1}
  FolderPath = {}
  CreateMissing = FALSE
  DeleteFloor = 5
  LimitPercent = 10
  Targets <- CrowdedTargets
  Snapshots <- CrowdedSnapshots
  Modes = {"strict"}
  StrictSections = {"east"}
  CascadeSubnets = TRUE
  MaxFaults = 0
  MaxEdits = 0
  MaxArrivals = 0
  MaxEvents = 1
PROPERTIES
  LimitHolds
