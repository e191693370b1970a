SPECIFICATION FairSpec
CONSTANTS
  numDisks = 2
  numPorts = 2
  UsbBase = 7
  Contents <- TwoDisks
  MinRam = 2
  Lists <- SomeLists
  ListWords = 2
  Beyond = 3
  Pointers <- TwoPointers
  Entries <- SomeEntries
  MaxEntries = 2
  Geometries <- SomeGeometries
INVARIANTS TypeOK A20Sound ResetExplained KernelWhole ModeFits FsOnBootDisk SearchComplete DriversLive
PROPERTIES RamCounted BootEnds
