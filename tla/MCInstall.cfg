SPECIFICATION FairSpec
CONSTANTS
  Partitions <- Parts
  DeviceOf <- OneDisk
  FirstFs <- OneFat
  MaxRuns = 2
  MaxFailures = 2
  Missing = Missing
  Template = Template
  Cut = Cut
  NoPart = NoPart
INVARIANTS ImageFinds ArchiveFits Complete
PROPERTIES FormatAsked RegistryEnds
CHECK_DEADLOCK FALSE
