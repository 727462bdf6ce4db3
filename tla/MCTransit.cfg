SPECIFICATION FairSpec
CONSTANTS
  Section = {1}
  Subnet = {2, 3}
  SectionOf <- InOneSection
  Path = {1, 2}
  PathOf <- SharedPath
  Value = {1}
  Options = {"push"}
  FailOnEmpty = FALSE
  FaultPhases <- AnyPhase
  MaxFaults = 1
  MaxEdits = 1
INVARIANTS
  TypeOK
PROPERTIES
  ChannelSpec
  CommitsWhatWasRead
  CommitsOnlyChanges
  SuccessIsPublished
  EventuallyAccepted
