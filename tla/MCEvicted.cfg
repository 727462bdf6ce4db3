SPECIFICATION FairSpec
CONSTANTS
  Source = {"e", "w"}
  Section = {"net", "A", "B"}
  Domain = {"default", "campus"}
  Number = {7}
  Vrf = {"red"}
  Cidr = {1, 2}
  FieldValue = {1, 2}
  DeleteFloor = 5
  LimitPercent = 10
  Sources <- InTurn
  Configs <- JustMapped
  Targets <- UnassignedCampus
  Snapshots <- SteadySnapshots
  Modes = {"additive"}
  MaxFaults = 1
  MaxEdits = 0
  MaxArrivals = 0
  MaxEvents = 2
PROPERTIES
  NeverEvicted
