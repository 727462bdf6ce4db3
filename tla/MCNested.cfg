SPECIFICATION FairSpec
CONSTANTS
  Section = {1}
  TargetSection = {"east"}
  TargetOf <- OneSection
  Cidr = {1, 2, 3, 4}
  Within <- NestedWithin
  PrefixLen <- NestedPrefix
  Ip = {1}
  FieldValue = {1, 2}
  FolderPath = {}
  CreateMissing = FALSE
  DeleteFloor = 5
  LimitPercent = 10
  Targets <- NestedTargets
  Snapshots <- NestedSnapshots
  Modes = {"additive", "strict"}
  StrictSections = {"east"}
  CascadeSubnets = TRUE
  MaxFaults = 1
  MaxEdits = 0
  MaxArrivals = 0
  MaxEvents = 1
INVARIANTS
  TypeOK
  CacheCoherent
  MirroredIsQuiet
PROPERTIES
  CleanRunMirrors
  DriftUntouched
  OnlyOrphansRemoved
  ParentOutlivesChild
  EventuallyMirrored
