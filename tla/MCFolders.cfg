SPECIFICATION FairSpec
CONSTANTS
  Section = {1}
  TargetSection = {"east"}
  TargetOf <- OneSection
  Cidr = {1, 2}
  Within = {}
  PrefixLen <- FilingPrefix
  Ip = {1}
  FieldValue = {1, 2}
  FolderPath <- FilingPaths
  CreateMissing = FALSE
  DeleteFloor = 5
  LimitPercent = 10
  Targets <- FilingTargets
  Snapshots <- FilingSnapshots
  Modes = {"strict"}
  StrictSections = {}
  CascadeSubnets = TRUE
  MaxFaults = 1
  MaxEdits = 0
  MaxArrivals = 0
  MaxEvents = 1
INVARIANTS
  CacheCoherent
  MirroredIsQuiet
PROPERTIES
  CleanRunMirrors
  NeverDuplicates
  EventuallyMirrored
